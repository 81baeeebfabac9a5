-------------------------- MODULE ComponentsProofs --------------------------
(***************************************************************************)
(* Proofs about components that MCComponents instantiates side by side:    *)
(* the refresh of tokens, the locks of ports, the action execution servers *)
(* and the PowerShell session.  Each theorem is about the component's own  *)
(* specification and holds for every value of its constants.               *)
(***************************************************************************)
EXTENDS MCComponents, TLAPS

-----------------------------------------------------------------------------
(***************************************************************************)
(* TokenRefresh.                                                           *)
(***************************************************************************)
TokenTypeOK ==
    /\ row \in 1 .. pairs
    /\ rowLock \in TokenRequests \cup {"none"}
    /\ req \in [TokenRequests -> [pc : {"idle", "refresh", "answer", "store"},
                                  old : 0 .. MaxPairs, new : 0 .. MaxPairs]]
    /\ pairs \in 1 .. MaxPairs
    /\ sent \in [1 .. MaxPairs -> 0 .. 2]

\* A request that talks to the provider has the row and refreshes what is in it.
HoldersHaveRow ==
    \A p \in TokenRequests :
        req[p].pc \in {"refresh", "answer"} => rowLock = p /\ req[p].old = row

\* The pair that a request will store was issued to it alone; it is not in the
\* database, and nobody has sent its refresh token, nor that of a pair to come.
FreshPairs ==
    /\ \A p \in TokenRequests : req[p].pc \in {"answer", "store"} =>
         /\ req[p].new \in 1 .. pairs
         /\ req[p].new # row
         /\ sent[req[p].new] = 0
         /\ \A o \in TokenRequests :
              o # p /\ req[o].pc \in {"answer", "store"} => req[o].new # req[p].new
    /\ \A t \in 1 .. MaxPairs : t > pairs => sent[t] = 0

\* What the argument needs to know about the constants.
LEMMA TokenConstants == MaxPairs \in Nat \ {0} /\ "none" \notin TokenRequests
  BY ComponentsAssumption

TokenInv == TokenTypeOK /\ HoldersHaveRow /\ FreshPairs /\ RefreshedOnce

\* The end of a transaction leaves the other requests alone.
TransactionEnded(p) ==
    /\ rowLock' \in TokenRequests \cup {"none"}
    /\ req' \in [TokenRequests -> [pc : {"idle", "refresh", "answer", "store"},
                                   old : 0 .. MaxPairs, new : 0 .. MaxPairs]]
    /\ req'[p].pc = "idle"
    /\ \A o \in TokenRequests : o # p => req'[o] = req[o]
    /\ \A o \in TokenRequests : o # p /\ rowLock = o => rowLock' = o
    /\ \A o \in TokenRequests : rowLock' = o => rowLock = o /\ o # p

\* EndTransaction, by its effect.
LEMMA EndsTransaction ==
    ASSUME TokenTypeOK, NEW p \in TokenRequests, Tokens!EndTransaction(p)
    PROVE  TransactionEnded(p)
  BY TokenConstants
     DEF TokenTypeOK, TransactionEnded, Tokens!EndTransaction, Tokens!Idle, Tokens!None

\* The invariant holds before any request is made.
LEMMA TokenInvInit == ASSUME Tokens!Init PROVE TokenInv
<1>1. TokenTypeOK
  BY TokenConstants DEF Tokens!Init, TokenTypeOK, Tokens!Idle, Tokens!None
<1> QED
  BY <1>1, TokenConstants
     DEF Tokens!Init, TokenInv, Tokens!Idle, Tokens!None, HoldersHaveRow, FreshPairs,
         RefreshedOnce, Tokens!RefreshedOnce, TokenTypeOK

\* Every step of a request, of a login and of the clock preserves it.
LEMMA TokenInvNext == ASSUME TokenInv, [Tokens!Next]_Tokens!vars PROVE TokenInv'
<1> DEFINE Good == TokenInv'
<1> SUFFICES Good
  OBVIOUS
<1> USE TokenConstants DEF TokenInv
<1>1. CASE Tokens!Expire
  BY <1>1 DEF Tokens!Expire, TokenTypeOK, HoldersHaveRow, FreshPairs, RefreshedOnce,
     Tokens!RefreshedOnce
<1>2. ASSUME NEW p \in TokenRequests, Tokens!Load(p) PROVE Good
  BY <1>2
     DEF Tokens!Load, Tokens!None, TokenTypeOK, HoldersHaveRow, FreshPairs, RefreshedOnce,
     Tokens!RefreshedOnce
<1>3. ASSUME NEW p \in TokenRequests, Tokens!Refresh(p) PROVE Good
  <2> DEFINE t == req[p].old
  <2>1. t = row /\ rowLock = p /\ t \in 1 .. MaxPairs /\ req[p].pc = "refresh"
    BY <1>3 DEF Tokens!Refresh, HoldersHaveRow, TokenTypeOK
  <2>2. CASE sent[t] = 0
    <3>1. /\ pairs < MaxPairs /\ pairs' = pairs + 1
          /\ sent' = [sent EXCEPT ![t] = 1]
          /\ req' = [req EXCEPT ![p] = [pc |-> "answer", old |-> t, new |-> pairs + 1]]
          /\ UNCHANGED <<rowLock, row, lost>>
      BY <1>3, <2>1, <2>2 DEF Tokens!Refresh, TokenTypeOK
    <3>2. TokenTypeOK'
      BY <3>1, <2>1 DEF TokenTypeOK
    <3>3. /\ req'[p].pc = "answer" /\ req'[p].new = pairs + 1 /\ req'[p].old = req[p].old
          /\ \A o \in TokenRequests : o # p => req'[o] = req[o]
          /\ sent'[t] = 1 /\ \A u \in 1 .. MaxPairs : u # t => sent'[u] = sent[u]
      BY <3>1, <2>1 DEF TokenTypeOK
    <3>4. HoldersHaveRow'
      BY <3>1, <3>3, <2>1 DEF HoldersHaveRow
    <3>5. FreshPairs'
      BY <3>1, <3>3, <2>1 DEF FreshPairs, TokenTypeOK
    <3>6. RefreshedOnce'
      BY <3>1, <3>3, <2>1 DEF RefreshedOnce, Tokens!RefreshedOnce
    <3> QED BY <3>2, <3>4, <3>5, <3>6
  <2>3. CASE sent[t] # 0
    <3> HIDE DEF t
    <3>1. Tokens!EndTransaction(p) /\ UNCHANGED <<pairs, row, lost>>
      BY <1>3, <2>3 DEF Tokens!Refresh, t
    <3>2. TransactionEnded(p)
      BY <3>1, EndsTransaction
    <3>3. sent[t] \in 1 .. 2
      BY <2>1, <2>3 DEF TokenTypeOK
    <3>4. sent' = [sent EXCEPT ![t] = 2]
      <4>1. sent' = [sent EXCEPT ![t] = IF @ = 2 THEN @ ELSE @ + 1]
        BY <1>3 DEF Tokens!Refresh, t
      <4>2. (IF sent[t] = 2 THEN sent[t] ELSE sent[t] + 1) = 2
        BY <3>3
      <4> QED BY <4>1, <4>2
    <3>5. TokenTypeOK'
      <4>1. sent' \in [1 .. MaxPairs -> 0 .. 2]
        BY <3>4, <2>1 DEF TokenTypeOK
      <4> QED BY <3>1, <3>2, <4>1 DEF TokenTypeOK, TransactionEnded
    <3>6. sent'[t] = 2 /\ \A u \in 1 .. MaxPairs : u # t => sent'[u] = sent[u]
      BY <3>4, <2>1 DEF TokenTypeOK
    <3>7. t \in lost
      BY <2>1, <2>3 DEF RefreshedOnce, Tokens!RefreshedOnce, TokenTypeOK
    <3>8. HoldersHaveRow'
      BY <3>1, <3>2 DEF HoldersHaveRow, TransactionEnded
    <3>9. FreshPairs'
      <4>1. pairs \in 1 .. MaxPairs /\ row \in 1 .. pairs
        BY DEF TokenTypeOK
      <4> QED BY <3>1, <3>2, <3>6, <2>1, <4>1 DEF FreshPairs, TransactionEnded
    <3>10. RefreshedOnce'
      BY <3>1, <3>6, <3>7, <2>1 DEF RefreshedOnce, Tokens!RefreshedOnce
    <3> QED BY <3>5, <3>8, <3>9, <3>10
  <2> QED BY <2>2, <2>3
<1>4. ASSUME NEW p \in TokenRequests, Tokens!RefreshRefused(p) PROVE Good
  <2>1. Tokens!EndTransaction(p) /\ UNCHANGED <<row, pairs, sent, lost>> /\ req[p].pc = "refresh"
    BY <1>4 DEF Tokens!RefreshRefused
  <2>2. TransactionEnded(p)
    BY <2>1, EndsTransaction
  <2>3. TokenTypeOK' /\ HoldersHaveRow'
    BY <2>1, <2>2 DEF TransactionEnded, TokenTypeOK, HoldersHaveRow
  <2>4. FreshPairs'
    BY <2>1, <2>2 DEF TransactionEnded, FreshPairs
  <2>5. RefreshedOnce'
    BY <2>1, <2>2 DEF TransactionEnded, RefreshedOnce, Tokens!RefreshedOnce
  <2> QED BY <2>3, <2>4, <2>5
<1>5. ASSUME NEW p \in TokenRequests, Tokens!Commit(p) PROVE Good
  <2>1. /\ Tokens!EndTransaction(p) /\ row' = req[p].new /\ UNCHANGED <<pairs, sent, lost>>
        /\ req[p].pc = "answer" /\ rowLock = p
    BY <1>5 DEF Tokens!Commit, HoldersHaveRow
  <2>2. TransactionEnded(p)
    BY <2>1, EndsTransaction
  <2>3. TokenTypeOK'
    BY <2>1, <2>2 DEF TransactionEnded, TokenTypeOK, FreshPairs
  <2>4. HoldersHaveRow'
    BY <2>1, <2>2 DEF TransactionEnded, HoldersHaveRow
  <2>5. FreshPairs'
    BY <2>1, <2>2 DEF TransactionEnded, FreshPairs
  <2>6. RefreshedOnce'
    BY <2>1 DEF FreshPairs, RefreshedOnce, Tokens!RefreshedOnce
  <2> QED BY <2>3, <2>4, <2>5, <2>6
<1>6. ASSUME NEW p \in TokenRequests, Tokens!AnswerLost(p) PROVE Good
  <2>1. /\ Tokens!EndTransaction(p) /\ UNCHANGED <<row, pairs, sent>>
        /\ lost' = lost \cup {row} /\ req[p].pc = "answer"
    BY <1>6 DEF Tokens!AnswerLost, HoldersHaveRow
  <2>2. TransactionEnded(p)
    BY <2>1, EndsTransaction
  <2>3. TokenTypeOK' /\ HoldersHaveRow'
    BY <2>1, <2>2 DEF TransactionEnded, TokenTypeOK, HoldersHaveRow
  <2>4. FreshPairs'
    BY <2>1, <2>2 DEF TransactionEnded, FreshPairs
  <2>5. RefreshedOnce'
    BY <2>1, <2>2 DEF TransactionEnded, RefreshedOnce, Tokens!RefreshedOnce
  <2> QED BY <2>3, <2>4, <2>5
<1>7. ASSUME NEW p \in TokenRequests, Tokens!Login(p) PROVE Good
  BY <1>7
     DEF Tokens!Login, TokenTypeOK, HoldersHaveRow, FreshPairs, RefreshedOnce,
         Tokens!RefreshedOnce
<1>8. ASSUME NEW p \in TokenRequests, Tokens!Store(p) PROVE Good
  BY <1>8
     DEF Tokens!Store, Tokens!Idle, Tokens!None, TokenTypeOK, HoldersHaveRow, FreshPairs,
         RefreshedOnce, Tokens!RefreshedOnce
<1>9. CASE UNCHANGED Tokens!vars
  BY <1>9 DEF Tokens!vars, TokenTypeOK, HoldersHaveRow, FreshPairs, RefreshedOnce,
     Tokens!RefreshedOnce
<1> HIDE DEF Good
<1> QED
  BY <1>1, <1>2, <1>3, <1>4, <1>5, <1>6, <1>7, <1>8, <1>9 DEF Tokens!Next

(***************************************************************************)
(* load_tokens sends a refresh token once, for any number of requests and  *)
(* logins on any number of servers, and leaves no used one in the          *)
(* database, unless an answer of the provider was lost: who refreshes has  *)
(* the row from the read to the commit, and what a login stores is fresh.  *)
(***************************************************************************)
THEOREM TokensRefreshedOnce == Tokens!Spec => []RefreshedOnce
<1>1. TokenInv => RefreshedOnce
  BY DEF TokenInv
<1> QED
  BY <1>1, TokenInvInit, TokenInvNext, PTL DEF Tokens!Spec

-----------------------------------------------------------------------------
(***************************************************************************)
(* PortLock.                                                               *)
(***************************************************************************)
PortRuntime ==
    [pc : {"idle", "opened", "locked", "allocated", "up", "releasing", "unlinking"},
     port : Ports \cup {"none"}, inode : 0 .. MaxFiles]

PortTypeOK ==
    /\ fcntl \in BOOLEAN
    /\ inodes \in 0 .. MaxFiles
    /\ lockFile \in [Ports -> 0 .. MaxFiles]
    /\ flock \in [1 .. MaxFiles -> Workers \cup {"nobody"}]
    /\ rt \in [Workers -> PortRuntime]

\* A new file gets an inode that nobody has; a runtime with an inode has a port.
InodesKnown ==
    /\ \A p \in Ports : lockFile[p] <= inodes
    /\ \A w \in Workers :
         /\ rt[w].inode <= inodes
         /\ rt[w].inode # 0 => rt[w].port \in Ports
         /\ rt[w].pc \in {"opened", "unlinking"} => rt[w].inode # 0
         /\ rt[w].pc = "idle" => rt[w].inode = 0

\* Without fcntl the file of a port is the one its only owner has created.
FileIsOwners ==
    ~fcntl => \A w \in Workers : rt[w].inode # 0 =>
                /\ lockFile[rt[w].port] = rt[w].inode
                /\ \A o \in Workers : rt[o].inode = rt[w].inode => o = w

\* An inode's lock is that of a runtime which has it open and is not done with it.
FlockIsOwners ==
    \A i \in 1 .. MaxFiles : flock[i] # "nobody" =>
        /\ rt[flock[i]].inode = i
        /\ rt[flock[i]].pc \in {"locked", "allocated", "up", "releasing"}

PortInv == PortTypeOK /\ InodesKnown /\ FileIsOwners /\ FlockIsOwners

\* What the argument needs to know about the constants.
LEMMA PortConstants == MaxFiles \in Nat /\ "nobody" \notin Workers /\ Platforms \subseteq BOOLEAN
  BY ComponentsAssumption

\* The invariant is what the property asks for, and more.
LEMMA PortInvImplies == ASSUME PortInv PROVE LocksExclude
<1>1. ~fcntl => Port!AllocatedOnce
  BY DEF PortInv, InodesKnown, FileIsOwners, Port!AllocatedOnce, Port!Allocated
<1>2. DOMAIN flock = 1 .. MaxFiles
  BY DEF PortInv, PortTypeOK
<1> QED
  BY <1>1, <1>2 DEF PortInv, FlockIsOwners, LocksExclude, Port!LocksExclude, Port!Nobody

\* No file, no lock.
LEMMA PortInvInit == ASSUME Port!Init PROVE PortInv
  BY PortConstants
     DEF Port!Init, Port!Idle, Port!NoPort, Port!Nobody, PortInv, PortTypeOK, PortRuntime,
         InodesKnown, FileIsOwners, FlockIsOwners

\* A step of the runtime of w that moves it on from place to place, with its port
\* and its inode.
LEMMA PortMoves ==
    ASSUME PortInv, NEW w \in Workers,
           NEW place \in {"locked", "allocated", "up", "releasing", "unlinking"},
           Port!Goto(w, place), UNCHANGED <<fcntl, lockFile, inodes>>,
           \/ /\ UNCHANGED flock
              /\ place # "unlinking"
              /\ rt[w].pc \in {"locked", "allocated", "up"}
           \/ /\ flock' = [i \in DOMAIN flock |-> IF flock[i] = w THEN "nobody" ELSE flock[i]]
              /\ place = "unlinking" /\ rt[w].inode # 0
           \/ /\ rt[w].pc = "opened" /\ place = "locked"
              /\ flock' = [flock EXCEPT ![rt[w].inode] = w]
    PROVE  PortInv'
<1> USE PortConstants DEF PortInv
<1>1. /\ rt' \in [Workers -> PortRuntime]
      /\ rt'[w].pc = place /\ rt'[w].port = rt[w].port /\ rt'[w].inode = rt[w].inode
      /\ \A o \in Workers : o # w => rt'[o] = rt[o]
  BY DEF Port!Goto, PortTypeOK, PortRuntime
<1>2. PortTypeOK'
  BY <1>1 DEF PortTypeOK
<1>3. InodesKnown'
  BY <1>1 DEF InodesKnown
<1>4. FileIsOwners'
  BY <1>1 DEF FileIsOwners
<1>5. FlockIsOwners'
  <2>1. CASE UNCHANGED flock /\ place # "unlinking" /\ rt[w].pc \in {"locked", "allocated", "up"}
    BY <1>1, <2>1 DEF FlockIsOwners, PortTypeOK
  <2>2. CASE flock' = [i \in DOMAIN flock |-> IF flock[i] = w THEN "nobody" ELSE flock[i]]
    BY <1>1, <2>2 DEF FlockIsOwners, PortTypeOK
  <2>3. CASE /\ rt[w].pc = "opened" /\ place = "locked"
             /\ flock' = [flock EXCEPT ![rt[w].inode] = w]
    <3>1. \A i \in 1 .. MaxFiles : flock[i] # w
      BY <2>3 DEF FlockIsOwners
    <3> QED BY <1>1, <2>3, <3>1 DEF FlockIsOwners, PortTypeOK
  <2> QED BY <2>1, <2>2, <2>3
<1> QED BY <1>2, <1>3, <1>4, <1>5

\* The runtime of w has nothing any more; nobody has the file that it removes.
LEMMA PortLeaves ==
    ASSUME PortInv, NEW w \in Workers,
           rt' = [rt EXCEPT ![w] = Port!Idle], UNCHANGED <<fcntl, inodes>>,
           \/ /\ UNCHANGED flock
              /\ rt[w].pc \in {"opened", "unlinking"}
           \/ flock' = [i \in DOMAIN flock |-> IF flock[i] = w THEN "nobody" ELSE flock[i]],
           \/ UNCHANGED lockFile
           \/ lockFile' = [lockFile EXCEPT ![rt[w].port] = 0] /\ rt[w].inode # 0
    PROVE  PortInv'
<1> USE PortConstants DEF PortInv
<1>1. /\ rt' \in [Workers -> PortRuntime]
      /\ rt'[w].pc = "idle" /\ rt'[w].inode = 0
      /\ \A o \in Workers : o # w => rt'[o] = rt[o]
  BY DEF Port!Idle, Port!NoPort, PortTypeOK, PortRuntime
<1>2. PortTypeOK'
  BY <1>1 DEF PortTypeOK
<1>3. InodesKnown'
  <2>1. 0 <= inodes
    BY DEF PortTypeOK
  <2>2. \A p \in Ports : lockFile'[p] <= inodes
    BY <2>1 DEF InodesKnown, PortTypeOK
  <2> QED BY <1>1, <2>1, <2>2 DEF InodesKnown
<1>4. FileIsOwners'
  <2>1. \A o \in Workers : o # w /\ ~fcntl /\ rt[o].inode # 0 =>
            lockFile'[rt[o].port] = lockFile[rt[o].port]
    BY DEF FileIsOwners, PortTypeOK, InodesKnown
  <2> QED BY <1>1, <2>1 DEF FileIsOwners
<1>5. FlockIsOwners'
  BY <1>1 DEF FlockIsOwners, PortTypeOK
<1> QED BY <1>2, <1>3, <1>4, <1>5

\* The runtime of w gets a port, with a file that there is, a new one or none.
LEMMA PortTakes ==
    ASSUME PortInv, NEW w \in Workers, NEW p \in Ports, NEW i \in 0 .. MaxFiles,
           NEW place \in {"opened", "locked", "allocated"},
           rt[w].pc = "idle", place = "opened" => i # 0,
           rt' = [rt EXCEPT ![w] = [pc |-> place, port |-> p, inode |-> i]],
           UNCHANGED <<fcntl, flock>>,
           \/ i = 0 /\ UNCHANGED <<lockFile, inodes>>
           \/ i = lockFile[p] /\ fcntl /\ UNCHANGED <<lockFile, inodes>>
           \/ /\ i = inodes + 1 /\ lockFile[p] = 0
              /\ inodes' = i /\ lockFile' = [lockFile EXCEPT ![p] = i]
    PROVE  PortInv'
<1> USE PortConstants DEF PortInv
<1>1. /\ rt' \in [Workers -> PortRuntime]
      /\ rt'[w].pc = place /\ rt'[w].port = p /\ rt'[w].inode = i
      /\ \A o \in Workers : o # w => rt'[o] = rt[o]
  BY DEF PortTypeOK, PortRuntime
<1>2. PortTypeOK'
  BY <1>1 DEF PortTypeOK
<1>3. InodesKnown'
  <2>1. inodes' \in 0 .. MaxFiles /\ inodes <= inodes' /\ i <= inodes'
    BY DEF InodesKnown, PortTypeOK
  <2>2. \A o \in Ports : lockFile'[o] <= inodes'
    BY <2>1 DEF InodesKnown, PortTypeOK
  <2>3. \A o \in Workers : o # w => rt[o].inode <= inodes'
    BY <2>1 DEF InodesKnown, PortTypeOK, PortRuntime
  <2> QED BY <1>1, <2>1, <2>2, <2>3 DEF InodesKnown
<1>4. FileIsOwners'
  BY <1>1 DEF FileIsOwners, PortTypeOK, PortRuntime, InodesKnown
<1>5. FlockIsOwners'
  BY <1>1 DEF FlockIsOwners, PortTypeOK
<1> QED BY <1>2, <1>3, <1>4, <1>5

\* Every step of a runtime, and the death of its process, preserves the invariant.
LEMMA PortInvNext == ASSUME PortInv, [Port!Next]_Port!vars PROVE PortInv'
<1> DEFINE Good == PortInv'
<1> SUFFICES Good
  OBVIOUS
<1>1. ASSUME NEW w \in Workers, NEW p \in Ports, Port!Open(w, p) PROVE Good
  <2>1. CASE lockFile[p] # 0
    <3>1. lockFile[p] \in 0 .. MaxFiles
      BY DEF PortInv, PortTypeOK
    <3> QED BY <1>1, <2>1, <3>1, PortTakes DEF Port!Open
  <2>2. CASE lockFile[p] = 0
    <3>1. inodes + 1 \in 0 .. MaxFiles /\ inodes + 1 # 0
      BY <1>1, <2>2, PortConstants DEF Port!Open, PortInv, PortTypeOK
    <3> QED BY <1>1, <2>2, <3>1, PortTakes DEF Port!Open
  <2> QED BY <2>1, <2>2
<1>2. ASSUME NEW w \in Workers, NEW p \in Ports, Port!Create(w, p) PROVE Good
  <2>1. inodes + 1 \in 0 .. MaxFiles /\ inodes + 1 # 0
    BY <1>2, PortConstants DEF Port!Create, PortInv, PortTypeOK
  <2> QED BY <1>2, <2>1, PortTakes DEF Port!Create
<1>3. ASSUME NEW w \in Workers, Port!Fallback(w) PROVE Good
  <2>1. PICK p \in Ports :
          rt' = [rt EXCEPT ![w] = [pc |-> "allocated", port |-> p, inode |-> 0]]
    BY <1>3 DEF Port!Fallback
  <2>2. rt[w].pc = "idle" /\ UNCHANGED <<fcntl, lockFile, inodes, flock>> /\ 0 \in 0 .. MaxFiles
    BY <1>3, PortConstants DEF Port!Fallback
  <2> QED BY <2>1, <2>2, PortTakes
<1>4. ASSUME NEW w \in Workers, Port!Flock(w) PROVE Good
  BY <1>4, PortMoves DEF Port!Flock
<1>5. ASSUME NEW w \in Workers, Port!FlockTimeout(w) PROVE Good
  BY <1>5, PortLeaves DEF Port!FlockTimeout
<1>6. ASSUME NEW w \in Workers, Port!Check(w) PROVE Good
  <2>1. CASE rt[w].port \in bound
    BY <1>6, <2>1, PortMoves DEF Port!Check
  <2>2. CASE rt[w].port \notin bound
    BY <1>6, <2>2, PortMoves DEF Port!Check
  <2> QED BY <2>1, <2>2
<1>7. ASSUME NEW w \in Workers, Port!StartContainer(w) PROVE Good
  <2>1. CASE rt[w].port \in bound
    BY <1>7, <2>1, PortMoves DEF Port!StartContainer
  <2>2. CASE rt[w].port \notin bound
    BY <1>7, <2>2, PortMoves DEF Port!StartContainer
  <2> QED BY <2>1, <2>2
<1>8. ASSUME NEW w \in Workers, Port!StopContainer(w) PROVE Good
  BY <1>8, PortMoves DEF Port!StopContainer
<1>9. ASSUME NEW w \in Workers, Port!Unlock(w) PROVE Good
  <2>1. CASE rt[w].inode = 0
    BY <1>9, <2>1, PortLeaves DEF Port!Unlock, Port!Unlocked, Port!Nobody
  <2>2. CASE rt[w].inode # 0
    BY <1>9, <2>2, PortMoves DEF Port!Unlock, Port!Unlocked, Port!Nobody
  <2> QED BY <2>1, <2>2
<1>10. ASSUME NEW w \in Workers, Port!Unlink(w) PROVE Good
  <2>1. rt[w].inode # 0
    BY <1>10 DEF Port!Unlink, PortInv, InodesKnown
  <2> QED BY <1>10, <2>1, PortLeaves DEF Port!Unlink
<1>11. ASSUME NEW w \in Workers, Port!Crash(w) PROVE Good
  BY <1>11, PortLeaves DEF Port!Crash, Port!Unlocked, Port!Nobody
<1>12. CASE UNCHANGED Port!vars
  BY <1>12 DEF Port!vars, PortInv, PortTypeOK, InodesKnown, FileIsOwners, FlockIsOwners
<1> HIDE DEF Good
<1> QED
  BY <1>1, <1>2, <1>3, <1>4, <1>5, <1>6, <1>7, <1>8, <1>9, <1>10, <1>11, <1>12
     DEF Port!Next

(***************************************************************************)
(* PortLock excludes other processes as far as the platform's locks go,    *)
(* for any number of processes, ports and crashes: a file created          *)
(* exclusively belongs to one process until that process removes it; a     *)
(* flock belongs to a process that has the inode open.                     *)
(***************************************************************************)
THEOREM PortLocksExclude == Port!Spec => []LocksExclude
  BY PortInvInit, PortInvNext, PortInvImplies, PTL DEF Port!Spec

-----------------------------------------------------------------------------
(***************************************************************************)
(* LocalServers.                                                           *)
(***************************************************************************)
LocalPlaces == {"connect", "open", "closing", "killing", "closed"}
ServerRuntime == [sid : Sids, server : Nat \ {0}, pc : LocalPlaces]

\* The servers that wait in the list, or for their first answer.
InList == {warm[i] : i \in 1 .. Len(warm)}
Waiting == InList \cup making

LocalTypeOK ==
    /\ alive \in Seq(BOOLEAN)
    /\ running \in [Sids -> 0 .. Len(alive)]
    /\ warm \in Seq(Nat)
    /\ Waiting \subseteq 1 .. Len(alive)
    /\ sRt \in Seq(ServerRuntime)
    /\ \A r \in 1 .. Len(sRt) : sRt[r].server <= Len(alive)
    /\ deleting.pc # "idle" => deleting.sid \in Sids

\* A server waits once, and not in the list and in a thread at the same time.
WaitsOnce ==
    /\ \A i, j \in 1 .. Len(warm) : warm[i] = warm[j] => i = j
    /\ InList \cap making = {}

\* A server that waits belongs to no runtime and to no conversation.
WaitingUnused ==
    \A s \in Waiting :
        /\ \A r \in 1 .. Len(sRt) : sRt[r].server # s
        /\ \A c \in Sids : running[c] # s

\* The server that is listed for a conversation is used by no other one.
RunningForOne ==
    \A c \in Sids : running[c] # 0 =>
        /\ \A r \in 1 .. Len(sRt) : sRt[r].server = running[c] => sRt[r].sid = c
        /\ \A d \in Sids : running[d] = running[c] => d = c

HeldForOne ==
    \A r, o \in 1 .. Len(sRt) : sRt[r].server = sRt[o].server => sRt[r].sid = sRt[o].sid

AliveIsOwned ==
    \A s \in 1 .. Len(alive) : alive[s] =>
        \/ \E r \in 1 .. Len(sRt) : sRt[r].server = s /\ sRt[r].pc # "closed"
        \/ s \in Waiting

LocalInv ==
    LocalTypeOK /\ WaitsOnce /\ WaitingUnused /\ RunningForOne /\ HeldForOne /\ AliveIsOwned

\* What the argument needs to know about the constants.
LEMMA LocalConstants == DesiredWarm \in Nat /\ MaxServers \in Nat /\ "none" \notin Sids
  BY ComponentsAssumption

\* The invariant is what the property asks for, and more.
LEMMA LocalInvImplies == ASSUME LocalInv PROVE ServersOwned
<1>1. DOMAIN alive = 1 .. Len(alive) /\ DOMAIN sRt = 1 .. Len(sRt) /\ DOMAIN warm = 1 .. Len(warm)
  BY DEF LocalInv, LocalTypeOK
<1>2. InList = Local!ToSet(warm)
  BY <1>1 DEF InList, Local!ToSet
<1>3. ASSUME NEW s \in DOMAIN alive, alive[s]
      PROVE  \/ \E r \in Local!Holders(s) : sRt[r].pc # "closed"
             \/ s \in Local!ToSet(warm) \cup making
  BY <1>1, <1>2, <1>3 DEF LocalInv, AliveIsOwned, Local!Holders, Waiting
<1>4. \A s \in Local!ToSet(warm) \cup making : Local!Holders(s) = {}
  BY <1>1, <1>2 DEF LocalInv, WaitingUnused, Local!Holders, Waiting
<1> QED
  BY <1>1, <1>3, <1>4 DEF LocalInv, HeldForOne, ServersOwned, Local!ServersOwned

\* A list without duplicates whose head is taken, or that gets a new element.
LEMMA ListTail ==
    ASSUME warm \in Seq(Nat), warm # <<>>, warm' = Tail(warm),
           \A i, j \in 1 .. Len(warm) : warm[i] = warm[j] => i = j
    PROVE  /\ warm' \in Seq(Nat)
           /\ Head(warm) \in InList
           /\ InList' = InList \ {Head(warm)}
           /\ \A i, j \in 1 .. Len(warm') : warm'[i] = warm'[j] => i = j
<1>1. Len(warm) \in Nat /\ Len(warm) # 0 /\ warm' \in Seq(Nat) /\ Len(warm') = Len(warm) - 1
  OBVIOUS
<1>2. \A i \in 1 .. Len(warm') : warm'[i] = warm[i + 1]
  BY <1>1
<1>3. Head(warm) = warm[1]
  OBVIOUS
<1>4. \A i \in 1 .. Len(warm) : i # 1 => i - 1 \in 1 .. Len(warm') /\ (i - 1) + 1 = i
  BY <1>1
<1>5. ASSUME NEW x \in InList, x # warm[1] PROVE x \in InList'
  <2>1. PICK i \in 1 .. Len(warm) : x = warm[i]
    BY <1>5 DEF InList
  <2>2. warm'[i - 1] = x
    BY <1>2, <1>4, <1>5, <2>1
  <2> QED BY <1>4, <1>5, <2>1, <2>2 DEF InList
<1>6. ASSUME NEW x \in InList' PROVE x \in InList /\ x # warm[1]
  <2>1. PICK i \in 1 .. Len(warm') : x = warm'[i]
    BY <1>6 DEF InList
  <2>2. x = warm[i + 1] /\ i + 1 \in 1 .. Len(warm) /\ i + 1 # 1 /\ 1 \in 1 .. Len(warm)
    BY <1>1, <1>2, <2>1
  <2> QED BY <2>2 DEF InList
<1>7. \A i, j \in 1 .. Len(warm') : warm'[i] = warm'[j] => i = j
  <2> SUFFICES ASSUME NEW i \in 1 .. Len(warm'), NEW j \in 1 .. Len(warm'), warm'[i] = warm'[j]
               PROVE  i = j
    OBVIOUS
  <2>1. warm[i + 1] = warm[j + 1] /\ i + 1 \in 1 .. Len(warm) /\ j + 1 \in 1 .. Len(warm)
    BY <1>1, <1>2
  <2>2. i + 1 = j + 1
    BY <2>1
  <2> QED BY <2>2
<1>8. warm[1] \in InList
  BY <1>1 DEF InList
<1> QED BY <1>1, <1>3, <1>5, <1>6, <1>7, <1>8

\* ... a server that was not in the list is added at its end.
LEMMA ListAppend ==
    ASSUME warm \in Seq(Nat), NEW s \in Nat, warm' = Append(warm, s), s \notin InList,
           \A i, j \in 1 .. Len(warm) : warm[i] = warm[j] => i = j
    PROVE  /\ warm' \in Seq(Nat)
           /\ InList' = InList \cup {s}
           /\ \A i, j \in 1 .. Len(warm') : warm'[i] = warm'[j] => i = j
<1>1. /\ Len(warm) \in Nat /\ warm' \in Seq(Nat) /\ Len(warm') = Len(warm) + 1
      /\ warm'[Len(warm) + 1] = s /\ \A i \in 1 .. Len(warm) : warm'[i] = warm[i]
  OBVIOUS
<1>2. \A i \in 1 .. Len(warm') : i \in 1 .. Len(warm) \/ i = Len(warm) + 1
  BY <1>1
<1>3. \A i \in 1 .. Len(warm) : i \in 1 .. Len(warm') /\ warm[i] # s
  BY <1>1 DEF InList
<1>4. Len(warm) + 1 \in 1 .. Len(warm')
  BY <1>1
<1>5. InList' = InList \cup {s}
  BY <1>1, <1>2, <1>3, <1>4 DEF InList
<1> QED BY <1>1, <1>2, <1>3, <1>5

\* Two sequences in a row.
LEMMA SeqConcat ==
    ASSUME NEW S, NEW a \in Seq(S), NEW b \in Seq(S)
    PROVE  /\ a \o b \in Seq(S)
           /\ Len(a \o b) = Len(a) + Len(b)
           /\ \A i \in 1 .. Len(a) : (a \o b)[i] = a[i]
  OBVIOUS

\* A sequence with one element replaced.
LEMMA SeqAssign ==
    ASSUME NEW S, NEW a \in Seq(S), NEW i \in 1 .. Len(a), NEW x \in S
    PROVE  /\ [a EXCEPT ![i] = x] \in Seq(S)
           /\ Len([a EXCEPT ![i] = x]) = Len(a)
           /\ \A j \in 1 .. Len(a) : [a EXCEPT ![i] = x][j] = IF j = i THEN x ELSE a[j]
  OBVIOUS

\* Servers that are started come after the others.
LEMMA ServersStart ==
    ASSUME alive \in Seq(BOOLEAN), NEW n \in Nat, alive' = Local!Started(n)
    PROVE  /\ alive' \in Seq(BOOLEAN)
           /\ Len(alive') = Len(alive) + n
           /\ \A s \in 1 .. Len(alive) : alive'[s] = alive[s]
<1> DEFINE new == [i \in 1 .. n |-> TRUE]
<1>1. new \in Seq(BOOLEAN) /\ Len(new) = n
  OBVIOUS
<1>2. alive' = alive \o new
  BY DEF Local!Started
<1> HIDE DEF new
<1> QED BY <1>1, <1>2, SeqConcat

\* A server ends.
LEMMA ServerEnds ==
    ASSUME alive \in Seq(BOOLEAN), NEW s \in 1 .. Len(alive), alive' = [alive EXCEPT ![s] = FALSE]
    PROVE  /\ alive' \in Seq(BOOLEAN)
           /\ Len(alive') = Len(alive)
           /\ \A x \in 1 .. Len(alive) : alive'[x] => alive[x]
           /\ ~ alive'[s]
<1> DEFINE off == [alive EXCEPT ![s] = FALSE]
<1>1. off \in Seq(BOOLEAN) /\ Len(off) = Len(alive)
  OBVIOUS
<1>2. \A x \in 1 .. Len(alive) : x # s => off[x] = alive[x]
  OBVIOUS
<1>3. off[s] = FALSE
  OBVIOUS
<1> QED BY <1>1, <1>2, <1>3

\* What becomes of a runtime that goes on to another place.
Moved(r, place) ==
    /\ sRt' \in Seq(ServerRuntime)
    /\ Len(sRt') = Len(sRt)
    /\ \A x \in 1 .. Len(sRt) : sRt'[x].sid = sRt[x].sid /\ sRt'[x].server = sRt[x].server
    /\ \A x \in 1 .. Len(sRt) : x # r => sRt'[x].pc = sRt[x].pc
    /\ sRt'[r].pc = place

\* One runtime becomes another one, the others stay.
LEMMA RuntimeReplaced ==
    ASSUME sRt \in Seq(ServerRuntime), NEW r \in 1 .. Len(sRt), NEW new \in ServerRuntime,
           sRt' = [sRt EXCEPT ![r] = new]
    PROVE  /\ sRt' \in Seq(ServerRuntime) /\ Len(sRt') = Len(sRt)
           /\ \A x \in 1 .. Len(sRt) : sRt'[x] = IF x = r THEN new ELSE sRt[x]
  BY SeqAssign

\* A runtime goes on to another place.
LEMMA RuntimeMoves ==
    ASSUME sRt \in Seq(ServerRuntime), NEW r \in 1 .. Len(sRt), NEW place \in LocalPlaces,
           sRt' = [sRt EXCEPT ![r].pc = place]
    PROVE  Moved(r, place)
<1> DEFINE new == [sRt[r] EXCEPT !.pc = place]
<1>1. sRt[r] \in ServerRuntime
  OBVIOUS
<1>2. new \in ServerRuntime /\ new.sid = sRt[r].sid /\ new.server = sRt[r].server /\ new.pc = place
  BY <1>1 DEF ServerRuntime
<1>3. sRt' = [sRt EXCEPT ![r] = new]
  OBVIOUS
<1> HIDE DEF new
<1>4. /\ sRt' \in Seq(ServerRuntime) /\ Len(sRt') = Len(sRt)
      /\ \A x \in 1 .. Len(sRt) : sRt'[x] = IF x = r THEN new ELSE sRt[x]
  BY <1>2, <1>3, RuntimeReplaced
<1> QED BY <1>2, <1>4 DEF Moved

\* No server without a list entry is made by anything but a connect or MakeWarm:
\* servers end, entries are removed, runtimes go on, and a server that no longer
\* waits has ended.
LEMMA LocalShrinks ==
    ASSUME LocalInv,
           alive' \in Seq(BOOLEAN), Len(alive') = Len(alive),
           \A s \in 1 .. Len(alive) : alive'[s] => alive[s],
           running' \in [Sids -> 0 .. Len(alive)],
           \A c \in Sids : running'[c] \in {running[c], 0},
           sRt' \in Seq(ServerRuntime), Len(sRt') = Len(sRt),
           \A r \in 1 .. Len(sRt) :
             /\ sRt'[r].sid = sRt[r].sid /\ sRt'[r].server = sRt[r].server
             /\ sRt'[r].pc = "closed" => sRt[r].pc = "closed" \/ ~ alive'[sRt[r].server],
           warm' \in Seq(Nat), WaitsOnce',
           Waiting' \subseteq Waiting, \A s \in Waiting : s \in Waiting' \/ ~ alive'[s],
           deleting'.pc # "idle" => deleting'.sid \in Sids
    PROVE  LocalInv'
<1> USE DEF LocalInv
<1>1. LocalTypeOK'
  BY DEF LocalTypeOK
<1>2. WaitingUnused'
  <2>1. \A s \in Waiting : s # 0
    BY DEF LocalTypeOK
  <2> QED BY <2>1 DEF WaitingUnused
<1>3. RunningForOne'
  <2> SUFFICES ASSUME NEW c \in Sids, running'[c] # 0
               PROVE  /\ \A r \in 1 .. Len(sRt) : sRt'[r].server = running'[c] => sRt'[r].sid = c
                      /\ \A d \in Sids : running'[d] = running'[c] => d = c
    BY DEF RunningForOne
  <2>1. running[c] # 0 /\ running'[c] = running[c]
    OBVIOUS
  <2>2. \A d \in Sids : running'[d] = running[c] => running[d] = running[c]
    BY <2>1
  <2>3. /\ \A r \in 1 .. Len(sRt) : sRt[r].server = running[c] => sRt[r].sid = c
        /\ \A d \in Sids : running[d] = running[c] => d = c
    BY <2>1 DEF RunningForOne
  <2> QED BY <2>1, <2>2, <2>3
<1>4. HeldForOne'
  <2> SUFFICES ASSUME NEW r \in 1 .. Len(sRt), NEW o \in 1 .. Len(sRt),
                      sRt'[r].server = sRt'[o].server
               PROVE  sRt'[r].sid = sRt'[o].sid
    BY DEF HeldForOne
  <2>1. sRt[r].server = sRt[o].server
    OBVIOUS
  <2>2. sRt[r].sid = sRt[o].sid
    BY <2>1 DEF HeldForOne
  <2> QED BY <2>2
<1>5. AliveIsOwned'
  <2> SUFFICES ASSUME NEW s \in 1 .. Len(alive), alive'[s]
               PROVE  \/ \E r \in 1 .. Len(sRt) : sRt'[r].server = s /\ sRt'[r].pc # "closed"
                      \/ s \in Waiting'
    BY DEF AliveIsOwned
  <2>1. \/ \E r \in 1 .. Len(sRt) : sRt[r].server = s /\ sRt[r].pc # "closed"
        \/ s \in Waiting
    BY DEF AliveIsOwned
  <2>2. CASE s \in Waiting
    BY <2>2
  <2>3. ASSUME NEW r \in 1 .. Len(sRt), sRt[r].server = s, sRt[r].pc # "closed"
        PROVE  sRt'[r].server = s /\ sRt'[r].pc # "closed"
    BY <2>3
  <2> QED BY <2>1, <2>2, <2>3
<1> QED BY <1>1, <1>2, <1>3, <1>4, <1>5

\* _create_warm_server_in_background: the new servers are in the threads' hands.
LEMMA LocalGrows ==
    ASSUME LocalInv, NEW n \in Nat, Local!MakeWarm(n), UNCHANGED <<running, warm, deleting>>,
           sRt' \in Seq(ServerRuntime), Len(sRt') = Len(sRt),
           \A r \in 1 .. Len(sRt) :
             /\ sRt'[r].sid = sRt[r].sid /\ sRt'[r].server = sRt[r].server
             /\ sRt'[r].pc = "closed" => sRt[r].pc = "closed"
    PROVE  LocalInv'
<1> USE DEF LocalInv
<1> DEFINE new == Len(alive) + 1 .. Len(alive) + n
<1>1. /\ alive' \in Seq(BOOLEAN) /\ Len(alive') = Len(alive) + n
      /\ \A s \in 1 .. Len(alive) : alive'[s] = alive[s]
  BY ServersStart DEF Local!MakeWarm, LocalTypeOK
<1>2. Len(alive) \in Nat
  BY DEF LocalTypeOK
<1>3. making' = making \cup new
  BY DEF Local!MakeWarm
<1>4. InList' = InList /\ Waiting' = Waiting \cup new
  BY <1>3 DEF InList, Waiting
<1>5. /\ \A s \in 1 .. Len(alive) : s \notin new /\ s \in 1 .. Len(alive')
      /\ new \subseteq 1 .. Len(alive') /\ 0 \notin new
      /\ \A s \in 1 .. Len(alive') : s \in 1 .. Len(alive) \/ s \in new
  BY <1>1, <1>2
<1>6. /\ \A r \in 1 .. Len(sRt) : sRt[r].server \in 1 .. Len(alive)
      /\ \A c \in Sids : running[c] \in 0 .. Len(alive) /\ running[c] \notin new
  <2>1. \A r \in 1 .. Len(sRt) : sRt[r] \in ServerRuntime
    BY DEF LocalTypeOK
  <2>2. \A r \in 1 .. Len(sRt) : sRt[r].server \in Nat \ {0} /\ sRt[r].server <= Len(alive)
    BY <2>1 DEF ServerRuntime, LocalTypeOK
  <2>3. \A c \in Sids : running[c] \in 0 .. Len(alive)
    BY DEF LocalTypeOK
  <2> QED BY <1>2, <2>2, <2>3
<1>7. running' \in [Sids -> 0 .. Len(alive')]
  BY <1>1, <1>2 DEF LocalTypeOK
<1> HIDE DEF new
<1>8. LocalTypeOK'
  <2>1. \A r \in 1 .. Len(sRt') : sRt'[r].server <= Len(alive')
    BY <1>5, <1>6
  <2>2. Waiting' \subseteq 1 .. Len(alive')
    BY <1>4, <1>5 DEF LocalTypeOK
  <2> QED BY <1>1, <1>7, <2>1, <2>2 DEF LocalTypeOK
<1>9. WaitsOnce'
  <2>1. InList \subseteq 1 .. Len(alive)
    BY DEF LocalTypeOK, Waiting
  <2> QED BY <1>3, <1>4, <1>5, <2>1 DEF WaitsOnce
<1>10. WaitingUnused'
  BY <1>4, <1>5, <1>6 DEF WaitingUnused
<1>11. RunningForOne' /\ HeldForOne'
  BY DEF RunningForOne, HeldForOne
<1>12. AliveIsOwned'
  BY <1>1, <1>4, <1>5 DEF AliveIsOwned
<1> QED BY <1>8, <1>9, <1>10, <1>11, <1>12

\* How bounds chain.
LEMMA AtMost == \A i, j, k \in Nat : i <= j /\ j <= k => i <= k
  OBVIOUS

\* connect: the new runtime's server is a new one or one that no longer waits, or
\* the one that is listed for the conversation already.
LEMMA LocalConnects ==
    ASSUME LocalInv, NEW c \in Sids, NEW s \in 1 .. Len(alive'),
           Local!Connected(c, s),
           alive' \in Seq(BOOLEAN), Len(alive) <= Len(alive'),
           \A x \in 1 .. Len(alive) : alive'[x] = alive[x],
           \A x \in 1 .. Len(alive') : x \in 1 .. Len(alive) \/ x = s,
           warm' \in Seq(Nat), WaitsOnce', s \notin Waiting',
           Waiting' \subseteq Waiting, \A x \in Waiting : x \in Waiting' \/ x = s,
           \A r \in 1 .. Len(sRt) : sRt[r].server = s => sRt[r].sid = c,
           \A d \in Sids : running[d] = s => d = c
    PROVE  LocalInv'
<1> USE DEF LocalInv
<1> DEFINE new == [sid |-> c, server |-> s, pc |-> "connect"]
<1>1. s \in Nat \ {0} /\ Len(alive) \in Nat /\ Len(alive') \in Nat
  BY DEF LocalTypeOK
<1>2. new \in ServerRuntime /\ new.sid = c /\ new.server = s /\ new.pc = "connect"
  BY <1>1 DEF ServerRuntime, LocalPlaces
<1>3. /\ running' = [running EXCEPT ![c] = s] /\ sRt' = Append(sRt, new)
      /\ UNCHANGED <<making, deleting>>
  BY DEF Local!Connected
<1> HIDE DEF new
<1>4. /\ sRt' \in Seq(ServerRuntime) /\ Len(sRt') = Len(sRt) + 1 /\ Len(sRt) \in Nat
      /\ sRt'[Len(sRt) + 1] = new
      /\ \A r \in 1 .. Len(sRt) : sRt'[r] = sRt[r]
  BY <1>2, <1>3 DEF LocalTypeOK
<1>5. /\ \A r \in 1 .. Len(sRt') : r \in 1 .. Len(sRt) \/ r = Len(sRt) + 1
      /\ \A r \in 1 .. Len(sRt) : r \in 1 .. Len(sRt')
      /\ Len(sRt) + 1 \in 1 .. Len(sRt')
  BY <1>4
<1>6. /\ running' \in [Sids -> 0 .. Len(alive')] /\ running'[c] = s
      /\ \A d \in Sids : d # c => running'[d] = running[d]
  BY <1>1, <1>3 DEF LocalTypeOK
<1>7. LocalTypeOK'
  <2>1. \A r \in 1 .. Len(sRt') : sRt'[r].server <= Len(alive')
    <3>1. \A r \in 1 .. Len(sRt) : sRt[r] \in ServerRuntime /\ sRt[r].server <= Len(alive)
      BY DEF LocalTypeOK
    <3>2. \A r \in 1 .. Len(sRt) : sRt[r].server \in Nat /\ sRt[r].server <= Len(alive)
      BY <3>1 DEF ServerRuntime
    <3>3. \A r \in 1 .. Len(sRt) : sRt[r].server <= Len(alive')
      BY <1>1, <3>2, AtMost
    <3>4. s <= Len(alive')
      BY <1>1
    <3> SUFFICES ASSUME NEW r \in 1 .. Len(sRt')
                 PROVE  sRt'[r].server <= Len(alive')
      OBVIOUS
    <3>5. CASE r \in 1 .. Len(sRt)
      BY <1>4, <3>3, <3>5
    <3>6. CASE r = Len(sRt) + 1
      BY <1>2, <1>4, <3>4, <3>6
    <3> QED BY <1>5, <3>5, <3>6
  <2>2. Waiting' \subseteq 1 .. Len(alive')
    <3>1. \A n \in 1 .. Len(alive) : n \in 1 .. Len(alive')
      BY <1>1
    <3>2. Waiting \subseteq 1 .. Len(alive)
      BY DEF LocalTypeOK
    <3> QED BY <3>1, <3>2, Zenon
  <2> QED BY <1>3, <1>4, <1>6, <2>1, <2>2 DEF LocalTypeOK
<1>8. WaitingUnused'
  <2> SUFFICES ASSUME NEW x \in Waiting'
               PROVE  /\ \A r \in 1 .. Len(sRt') : sRt'[r].server # x
                      /\ \A d \in Sids : running'[d] # x
    BY DEF WaitingUnused
  <2>1. x \in Waiting /\ x # s
    OBVIOUS
  <2>2. /\ \A r \in 1 .. Len(sRt) : sRt[r].server # x
        /\ \A d \in Sids : running[d] # x
    BY <2>1 DEF WaitingUnused
  <2>3. \A r \in 1 .. Len(sRt') : sRt'[r].server # x
    BY <1>2, <1>4, <1>5, <2>1, <2>2
  <2>4. \A d \in Sids : running'[d] # x
    BY <1>6, <2>1, <2>2
  <2> QED BY <2>3, <2>4
<1>9. RunningForOne'
  <2>1. \A r \in 1 .. Len(sRt') : sRt'[r].server = running'[c] => sRt'[r].sid = c
    BY <1>2, <1>4, <1>5, <1>6
  <2>2. \A d \in Sids : running'[d] = running'[c] => d = c
    BY <1>6
  <2>3. ASSUME NEW e \in Sids, e # c, running'[e] # 0
        PROVE  /\ \A r \in 1 .. Len(sRt') : sRt'[r].server = running'[e] => sRt'[r].sid = e
               /\ \A d \in Sids : running'[d] = running'[e] => d = e
    <3>1. running'[e] = running[e] /\ running[e] # s
      BY <1>6, <2>3
    <3>2. \A r \in 1 .. Len(sRt) : sRt[r].server = running[e] => sRt[r].sid = e
      BY <2>3, <3>1 DEF RunningForOne
    <3>3. \A d \in Sids : running[d] = running[e] => d = e
      BY <2>3, <3>1 DEF RunningForOne
    <3>4. \A r \in 1 .. Len(sRt') : sRt'[r].server = running'[e] => sRt'[r].sid = e
      BY <1>2, <1>4, <1>5, <3>1, <3>2
    <3> QED BY <1>6, <3>1, <3>3, <3>4
  <2> QED BY <2>1, <2>2, <2>3 DEF RunningForOne
<1>10. HeldForOne'
  <2>1. ASSUME NEW r \in 1 .. Len(sRt), NEW o \in 1 .. Len(sRt), sRt[r].server = sRt[o].server
        PROVE  sRt[r].sid = sRt[o].sid
    BY <2>1 DEF HeldForOne
  <2>2. ASSUME NEW r \in 1 .. Len(sRt'), NEW o \in 1 .. Len(sRt'), sRt'[r].server = sRt'[o].server
        PROVE  sRt'[r].sid = sRt'[o].sid
    <3>1. CASE r \in 1 .. Len(sRt) /\ o \in 1 .. Len(sRt)
      BY <1>4, <2>1, <2>2, <3>1
    <3>2. CASE r = Len(sRt) + 1 \/ o = Len(sRt) + 1
      BY <1>2, <1>4, <1>5, <2>2, <3>2
    <3> QED BY <1>5, <3>1, <3>2
  <2> QED BY <2>2 DEF HeldForOne
<1>11. AliveIsOwned'
  <2> SUFFICES ASSUME NEW x \in 1 .. Len(alive'), alive'[x], x # s
               PROVE  \/ \E r \in 1 .. Len(sRt') : sRt'[r].server = x /\ sRt'[r].pc # "closed"
                      \/ x \in Waiting'
    BY <1>2, <1>4, <1>5 DEF AliveIsOwned
  <2>1. x \in 1 .. Len(alive) /\ alive[x]
    OBVIOUS
  <2> QED BY <1>4, <1>5, <2>1 DEF AliveIsOwned
<1> QED BY <1>7, <1>8, <1>9, <1>10, <1>11

\* setup has made as many warm servers as it was asked to, or fewer.
LEMMA LocalInvInit == ASSUME Local!Init PROVE LocalInv
<1>1. PICK n \in 0 .. DesiredWarm : warm = [i \in 1 .. n |-> i]
  BY DEF Local!Init
<1>2. n \in Nat
  BY LocalConstants
<1>3. warm \in Seq(Nat) /\ Len(warm) = n /\ \A i \in 1 .. n : warm[i] = i
  BY <1>1, <1>2
<1>4. alive \in Seq(BOOLEAN) /\ Len(alive) = n
  BY <1>2, <1>3 DEF Local!Init
<1>5. sRt \in Seq(ServerRuntime) /\ Len(sRt) = 0
  BY DEF Local!Init
<1>6. InList = 1 .. n /\ Waiting = 1 .. n
  BY <1>2, <1>3 DEF Local!Init, InList, Waiting
<1>7. LocalTypeOK
  BY <1>2, <1>3, <1>4, <1>5, <1>6 DEF Local!Init, Local!NotDeleting, LocalTypeOK
<1>8. WaitsOnce /\ WaitingUnused
  BY <1>2, <1>3, <1>5, <1>6 DEF Local!Init, WaitsOnce, WaitingUnused
<1>9. RunningForOne /\ HeldForOne /\ AliveIsOwned
  BY <1>4, <1>5, <1>6 DEF Local!Init, RunningForOne, HeldForOne, AliveIsOwned
<1> QED BY <1>7, <1>8, <1>9 DEF LocalInv

\* Every step of a runtime, of delete and of the threads preserves the invariant.
LEMMA LocalInvNext == ASSUME LocalInv, [Local!Next]_Local!vars PROVE LocalInv'
<1> DEFINE Good == LocalInv'
<1> SUFFICES Good
  OBVIOUS
<1> USE DEF LocalInv
<1>a. /\ alive \in Seq(BOOLEAN) /\ Len(alive) \in Nat /\ DOMAIN alive = 1 .. Len(alive)
      /\ running \in [Sids -> 0 .. Len(alive)] /\ warm \in Seq(Nat)
      /\ sRt \in Seq(ServerRuntime) /\ DOMAIN sRt = 1 .. Len(sRt)
      /\ deleting.pc # "idle" => deleting.sid \in Sids
      /\ Waiting \subseteq 1 .. Len(alive)
  BY DEF LocalTypeOK
<1>b. \A r \in 1 .. Len(sRt) : sRt[r].sid \in Sids /\ sRt[r].server \in 1 .. Len(alive)
  <2>1. \A r \in 1 .. Len(sRt) : sRt[r] \in ServerRuntime /\ sRt[r].server <= Len(alive)
    BY DEF LocalTypeOK
  <2>2. \A r \in 1 .. Len(sRt) : sRt[r].sid \in Sids /\ sRt[r].server \in Nat \ {0}
    BY <2>1 DEF ServerRuntime
  <2> QED BY <1>a, <2>1, <2>2
<1>c. \A i, j \in 1 .. Len(warm) : warm[i] = warm[j] => i = j
  BY DEF WaitsOnce
<1>d. \A c \in Sids : /\ [running EXCEPT ![c] = 0] \in [Sids -> 0 .. Len(alive)]
                      /\ \A d \in Sids : [running EXCEPT ![c] = 0][d] \in {running[d], 0}
  BY <1>a
<1>1. ASSUME NEW c \in Sids, Local!ConnectExisting(c) PROVE Good
  <2>1. running[c] \in 1 .. Len(alive) /\ running[c] # 0 /\ Local!Connected(c, running[c])
    BY <1>a, <1>1 DEF Local!ConnectExisting
  <2>2. /\ UNCHANGED <<alive, warm, making>> /\ InList' = InList /\ Waiting' = Waiting
    BY <1>1 DEF Local!ConnectExisting, Local!Connected, InList, Waiting
  <2>3. running[c] \notin Waiting
    BY DEF WaitingUnused
  <2>4. WaitsOnce'
    BY <2>2 DEF WaitsOnce
  <2>5. /\ \A r \in 1 .. Len(sRt) : sRt[r].server = running[c] => sRt[r].sid = c
        /\ \A d \in Sids : running[d] = running[c] => d = c
    BY <2>1 DEF RunningForOne
  <2> QED BY <1>a, <2>1, <2>2, <2>3, <2>4, <2>5, LocalConnects
<1>2. ASSUME NEW c \in Sids, Local!ConnectWarm(c) PROVE Good
  <2> DEFINE s == Head(warm)
  <2>1. /\ warm # <<>> /\ warm' = Tail(warm) /\ UNCHANGED <<alive, making>>
        /\ Local!Connected(c, s)
    BY <1>2 DEF Local!ConnectWarm, Local!Connected
  <2>2. /\ warm' \in Seq(Nat) /\ s \in InList /\ InList' = InList \ {s}
        /\ \A i, j \in 1 .. Len(warm') : warm'[i] = warm'[j] => i = j
    BY <1>a, <1>c, <2>1, ListTail
  <2> HIDE DEF s
  <2>3. s \in 1 .. Len(alive)
    BY <1>a, <2>2 DEF Waiting
  <2>4. WaitsOnce' /\ s \notin Waiting' /\ Waiting' = Waiting \ {s}
    BY <2>1, <2>2 DEF WaitsOnce, Waiting
  <2>5. /\ \A r \in 1 .. Len(sRt) : sRt[r].server # s
        /\ \A d \in Sids : running[d] # s
    BY <2>2 DEF WaitingUnused, Waiting
  <2>6. /\ alive' \in Seq(BOOLEAN) /\ Len(alive') = Len(alive) /\ s \in 1 .. Len(alive')
        /\ \A x \in 1 .. Len(alive) : alive'[x] = alive[x]
    BY <1>a, <2>1, <2>3
  <2>7. Waiting' \subseteq Waiting /\ \A x \in Waiting : x \in Waiting' \/ x = s
    BY <2>4
  <2>8. Len(alive) <= Len(alive')
    BY <1>a, <2>6
  <2> QED BY <2>1, <2>2, <2>4, <2>5, <2>6, <2>7, <2>8, LocalConnects
<1>3. ASSUME NEW c \in Sids, Local!ConnectNew(c) PROVE Good
  <2> DEFINE s == Len(alive) + 1
  <2>1. alive' = Local!Started(1) /\ UNCHANGED <<warm, making>> /\ Local!Connected(c, s)
    BY <1>3 DEF Local!ConnectNew, Local!Connected
  <2>2. /\ alive' \in Seq(BOOLEAN) /\ Len(alive') = s
        /\ \A x \in 1 .. Len(alive) : alive'[x] = alive[x]
    BY <1>a, <2>1, ServersStart
  <2>3. /\ s \in 1 .. Len(alive') /\ Len(alive) <= Len(alive') /\ s \notin 0 .. Len(alive)
        /\ \A x \in 1 .. Len(alive') : x \in 1 .. Len(alive) \/ x = s
        /\ s \notin 1 .. Len(alive)
    BY <1>a, <2>2
  <2> HIDE DEF s
  <2>4. InList' = InList /\ Waiting' = Waiting /\ WaitsOnce' /\ s \notin Waiting
    BY <1>a, <2>1, <2>3 DEF InList, Waiting, WaitsOnce
  <2>5. /\ \A r \in 1 .. Len(sRt) : sRt[r].server # s
        /\ \A d \in Sids : running[d] # s
    BY <1>a, <1>b, <2>3
  <2> QED BY <1>a, <2>1, <2>2, <2>3, <2>4, <2>5, LocalConnects
<1>e. ASSUME UNCHANGED <<warm, making>>
      PROVE  warm' \in Seq(Nat) /\ WaitsOnce' /\ Waiting' = Waiting
  <2>1. InList' = InList /\ Waiting' = Waiting
    BY <1>e DEF InList, Waiting
  <2> QED BY <1>a, <1>e, <2>1 DEF WaitsOnce
<1>4. ASSUME NEW r \in 1 .. Len(sRt), Local!ConnectEnd(r) PROVE Good
  <2>1. Moved(r, "open")
    BY <1>a, <1>4, RuntimeMoves DEF Local!ConnectEnd, LocalPlaces
  <2>2. UNCHANGED <<running, warm, deleting>>
    BY <1>4 DEF Local!ConnectEnd
  <2>3. CASE Len(warm) < DesiredWarm
    <3>1. DesiredWarm - Len(warm) \in Nat
      BY <1>a, <2>3, LocalConstants
    <3>2. Local!MakeWarm(DesiredWarm - Len(warm))
      BY <1>4, <2>3 DEF Local!ConnectEnd
    <3> QED BY <2>1, <2>2, <3>1, <3>2, LocalGrows DEF Moved
  <2>4. CASE ~ (Len(warm) < DesiredWarm)
    <3>1. UNCHANGED <<alive, making>>
      BY <1>4, <2>4 DEF Local!ConnectEnd
    <3> QED BY <1>a, <1>e, <2>1, <2>2, <3>1, LocalShrinks DEF Moved
  <2> QED BY <2>3, <2>4
<1>5. ASSUME NEW r \in 1 .. Len(sRt), Local!ExecuteAction(r) PROVE Good
  <2>1. Local!MakeWarm(1) /\ UNCHANGED <<running, warm, sRt, deleting>>
    BY <1>5 DEF Local!ExecuteAction
  <2> QED BY <1>a, <2>1, LocalGrows
<1>6. ASSUME NEW r \in 1 .. Len(sRt), Local!ExecuteFindsDead(r) PROVE Good
  <2>1. /\ running' = [running EXCEPT ![sRt[r].sid] = 0]
        /\ UNCHANGED <<alive, warm, making, sRt, deleting>>
    BY <1>6 DEF Local!ExecuteFindsDead
  <2>2. running' \in [Sids -> 0 .. Len(alive)] /\ \A c \in Sids : running'[c] \in {running[c], 0}
    BY <1>b, <1>d, <2>1
  <2> QED BY <1>a, <1>e, <2>1, <2>2, LocalShrinks
<1>7. ASSUME NEW r \in 1 .. Len(sRt), Local!CloseSubmit(r) PROVE Good
  <2>1. Moved(r, "closing") /\ UNCHANGED <<alive, running, warm, making, deleting>>
    BY <1>a, <1>7, RuntimeMoves DEF Local!CloseSubmit, LocalPlaces
  <2> QED BY <1>a, <1>e, <2>1, LocalShrinks DEF Moved
<1>8. ASSUME NEW r \in 1 .. Len(sRt), Local!CloseRemove(r) PROVE Good
  <2>1. Moved(r, "killing") /\ UNCHANGED <<alive, warm, making, deleting>>
    BY <1>a, <1>8, RuntimeMoves DEF Local!CloseRemove, LocalPlaces
  <2>2. running' \in [Sids -> 0 .. Len(alive)] /\ \A c \in Sids : running'[c] \in {running[c], 0}
    BY <1>b, <1>d, <1>8 DEF Local!CloseRemove
  <2> QED BY <1>a, <1>e, <2>1, <2>2, LocalShrinks DEF Moved
<1>9. ASSUME NEW r \in 1 .. Len(sRt), Local!CloseKill(r) PROVE Good
  <2>1. Moved(r, "closed") /\ UNCHANGED <<running, warm, making, deleting>>
    BY <1>a, <1>9, RuntimeMoves DEF Local!CloseKill, LocalPlaces
  <2>2. alive' = [alive EXCEPT ![sRt[r].server] = FALSE] /\ sRt[r].server \in 1 .. Len(alive)
    BY <1>b, <1>9 DEF Local!CloseKill
  <2>3. /\ alive' \in Seq(BOOLEAN) /\ Len(alive') = Len(alive)
        /\ \A x \in 1 .. Len(alive) : alive'[x] => alive[x]
        /\ ~ alive'[sRt[r].server]
    BY <1>a, <2>2, ServerEnds
  <2> QED BY <1>a, <1>e, <2>1, <2>3, LocalShrinks DEF Moved
<1>10. ASSUME NEW c \in Sids, Local!Delete(c) PROVE Good
  <2>1. /\ deleting'.sid \in Sids /\ UNCHANGED <<running, warm, making, sRt>>
        /\ UNCHANGED alive \/ (running[c] # 0 /\ alive' = [alive EXCEPT ![running[c]] = FALSE])
    BY <1>10 DEF Local!Delete
  <2>2. running[c] # 0 => running[c] \in 1 .. Len(alive)
    BY <1>a
  <2>3. /\ alive' \in Seq(BOOLEAN) /\ Len(alive') = Len(alive)
        /\ \A x \in 1 .. Len(alive) : alive'[x] => alive[x]
    BY <1>a, <2>1, <2>2, ServerEnds
  <2> QED BY <1>a, <1>e, <2>1, <2>3, LocalShrinks
<1>11. CASE Local!DeleteRemove
  <2>1. /\ UNCHANGED <<alive, warm, making, sRt>> /\ deleting.sid \in Sids
        /\ running' = [running EXCEPT ![deleting.sid] = 0]
    BY <1>a, <1>11 DEF Local!DeleteRemove
  <2>2. deleting'.pc # "idle" => deleting'.sid \in Sids
    BY <2>1, <1>11 DEF Local!DeleteRemove, Local!NotDeleting
  <2>3. running' \in [Sids -> 0 .. Len(alive)] /\ \A c \in Sids : running'[c] \in {running[c], 0}
    BY <1>d, <2>1
  <2> QED BY <1>a, <1>e, <2>1, <2>2, <2>3, LocalShrinks
<1>12. CASE Local!DeleteWarm
  <2>1. UNCHANGED <<running, making, sRt>> /\ deleting'.pc = "idle"
    BY <1>12 DEF Local!DeleteWarm, Local!NotDeleting
  <2>2. CASE \A c \in Sids : running[c] = 0
    <3>1. /\ alive' = [s \in DOMAIN alive |-> alive[s] /\ s \notin Local!ToSet(warm)]
          /\ warm' = <<>>
      BY <1>12, <2>2 DEF Local!DeleteWarm
    <3>2. Local!ToSet(warm) = InList
      BY <1>a DEF Local!ToSet, InList
    <3>3. /\ alive' \in Seq(BOOLEAN) /\ Len(alive') = Len(alive)
      BY <1>a, <3>1
    <3>4. \A s \in 1 .. Len(alive) : alive'[s] <=> alive[s] /\ s \notin InList
      BY <1>a, <3>1, <3>2
    <3>5. warm' \in Seq(Nat) /\ Len(warm') = 0 /\ InList' = {} /\ Waiting' = making
      BY <2>1, <3>1 DEF InList, Waiting
    <3>6. WaitsOnce'
      BY <3>5 DEF WaitsOnce
    <3>7. Waiting' \subseteq Waiting /\ \A s \in Waiting : s \in Waiting' \/ ~ alive'[s]
      BY <1>a, <3>4, <3>5 DEF Waiting
    <3> QED BY <1>a, <2>1, <3>3, <3>4, <3>5, <3>6, <3>7, LocalShrinks
  <2>3. CASE ~ \A c \in Sids : running[c] = 0
    <3>1. UNCHANGED <<alive, warm>>
      BY <1>12, <2>3 DEF Local!DeleteWarm
    <3> QED BY <1>a, <1>e, <2>1, <3>1, LocalShrinks
  <2> QED BY <2>2, <2>3
<1>13. ASSUME NEW s \in 1 .. Len(alive), Local!WarmReady(s) PROVE Good
  <2>1. /\ s \in making /\ making' = making \ {s} /\ warm' = Append(warm, s)
        /\ UNCHANGED <<alive, running, sRt, deleting>>
    BY <1>13 DEF Local!WarmReady
  <2>2. s \notin InList /\ s \in Nat
    BY <1>a, <2>1 DEF WaitsOnce
  <2>3. /\ warm' \in Seq(Nat) /\ InList' = InList \cup {s}
        /\ \A i, j \in 1 .. Len(warm') : warm'[i] = warm'[j] => i = j
    BY <1>a, <1>c, <2>1, <2>2, ListAppend
  <2>4. Waiting' = Waiting /\ WaitsOnce'
    BY <2>1, <2>3 DEF Waiting, WaitsOnce
  <2> QED BY <1>a, <2>1, <2>3, <2>4, LocalShrinks
<1>14. ASSUME NEW s \in 1 .. Len(alive), Local!WarmFails(s) PROVE Good
  <2>1. /\ s \in making /\ making' = making \ {s} /\ alive' = [alive EXCEPT ![s] = FALSE]
        /\ UNCHANGED <<running, warm, sRt, deleting>>
    BY <1>14 DEF Local!WarmFails
  <2>2. /\ alive' \in Seq(BOOLEAN) /\ Len(alive') = Len(alive)
        /\ \A x \in 1 .. Len(alive) : alive'[x] => alive[x]
        /\ ~ alive'[s]
    BY <1>a, <2>1, ServerEnds
  <2>3. InList' = InList /\ WaitsOnce'
    BY <2>1 DEF InList, WaitsOnce
  <2>4. Waiting' \subseteq Waiting /\ \A x \in Waiting : x \in Waiting' \/ x = s
    BY <2>1, <2>3 DEF Waiting
  <2> QED BY <1>a, <2>1, <2>2, <2>3, <2>4, LocalShrinks
<1>15. ASSUME NEW s \in 1 .. Len(alive), Local!Die(s) PROVE Good
  <2>1. /\ alive' = [alive EXCEPT ![s] = FALSE]
        /\ UNCHANGED <<running, warm, making, sRt, deleting>>
    BY <1>15 DEF Local!Die
  <2>2. /\ alive' \in Seq(BOOLEAN) /\ Len(alive') = Len(alive)
        /\ \A x \in 1 .. Len(alive) : alive'[x] => alive[x]
    BY <1>a, <2>1, ServerEnds
  <2> QED BY <1>a, <1>e, <2>1, <2>2, LocalShrinks
<1>16. CASE UNCHANGED Local!vars
  <2>1. UNCHANGED <<alive, running, warm, making, sRt, deleting>>
    BY <1>16 DEF Local!vars
  <2> QED BY <1>a, <1>e, <2>1, LocalShrinks
<1> HIDE DEF Good
<1> QED
  BY <1>a, <1>1, <1>2, <1>3, <1>4, <1>5, <1>6, <1>7, <1>8, <1>9, <1>10, <1>11, <1>12,
     <1>13, <1>14, <1>15, <1>16 DEF Local!Next

(***************************************************************************)
(* Every action execution server that runs has an owner who will stop it,  *)
(* and works for one conversation, for any number of conversations,        *)
(* runtimes and servers, although no lock protects the dictionaries: an    *)
(* entry names a server that its own conversation's runtimes use, and what *)
(* removes or overwrites it never leaves a server to nobody.               *)
(***************************************************************************)
THEOREM LocalServersOwned == Local!Spec => []ServersOwned
  BY LocalInvInit, LocalInvNext, LocalInvImplies, PTL DEF Local!Spec

-----------------------------------------------------------------------------
(***************************************************************************)
(* PowerShellSession.                                                      *)
(***************************************************************************)
ShellJob ==
    [state : {"running", "completed", "failed", "removed", "unstarted"},
     out : Nat, told : Seq(Nat)]
ShellCall == [pc : {"idle", "start", "wait", "polled", "stop"}, latest : Nat, check : BOOLEAN]

\* The types, the job of a call under way, and that every other job is over.
ShellInv ==
    /\ jobs \in Seq(ShellJob)
    /\ active \in 0 .. Len(jobs)
    /\ last \in Nat
    /\ pCall \in ShellCall
    /\ pCall.pc # "idle" => active # 0 /\ ~ closed
    /\ \A j \in 1 .. Len(jobs) : j # active => jobs[j].state \in {"removed", "unstarted"}
    /\ active # 0 => jobs[active].state \in {"running", "completed", "failed"}
    /\ OutputKept

\* The lines that observations have shown of a job.
Shown(job) == Shell!ToSet(job.told)

\* An observation adds the lines after a, up to b.
LEMMA LinesShown ==
    ASSUME NEW s \in Seq(Nat), NEW a \in Nat, NEW b \in Nat
    PROVE  /\ s \o Shell!Lines(a, b) \in Seq(Nat)
           /\ Shell!ToSet(s) \subseteq Shell!ToSet(s \o Shell!Lines(a, b))
           /\ \A n \in Nat : n > a /\ n <= b => n \in Shell!ToSet(s \o Shell!Lines(a, b))
<1> DEFINE m == IF b < a THEN 0 ELSE b - a
           new == [i \in 1 .. m |-> a + i]
           all == s \o new
<1>1. m \in Nat /\ 1 .. b - a = 1 .. m
  OBVIOUS
<1>2. Shell!Lines(a, b) = new
  BY <1>1 DEF Shell!Lines
<1>3. \A n \in Nat : n > a /\ n <= b => n - a \in 1 .. m /\ a + (n - a) = n
  OBVIOUS
<1> HIDE DEF m
<1>4. new \in Seq(Nat) /\ Len(new) = m /\ \A i \in 1 .. m : new[i] = a + i
  BY <1>1
<1> HIDE DEF new
<1>5. /\ all \in Seq(Nat) /\ Len(all) = Len(s) + m /\ Len(s) \in Nat
      /\ \A i \in 1 .. Len(s) : all[i] = s[i]
  <2>1. /\ all \in Seq(Nat) /\ Len(all) = Len(s) + Len(new)
        /\ \A i \in 1 .. Len(s) : all[i] = s[i]
    BY <1>4, SeqConcat, Zenon
  <2> QED BY <1>4, <2>1
<1>10. ASSUME NEW i \in 1 .. m PROVE all[Len(s) + i] = new[i]
  <2>1. Len(s) + i \in 1 .. Len(s) + Len(new) /\ ~ (Len(s) + i <= Len(s)) /\ Len(s) + i - Len(s) = i
    BY <1>1, <1>4, <1>5
  <2> QED BY <1>4, <2>1
<1>6. DOMAIN s = 1 .. Len(s) /\ DOMAIN all = 1 .. Len(all)
  BY <1>5
<1>7. /\ \A i \in 1 .. Len(s) : i \in 1 .. Len(all)
      /\ \A i \in 1 .. m : Len(s) + i \in 1 .. Len(all)
  BY <1>1, <1>5
<1> HIDE DEF all
<1>8. Shell!ToSet(s) \subseteq Shell!ToSet(all)
  BY <1>5, <1>6, <1>7 DEF Shell!ToSet
<1>9. ASSUME NEW n \in Nat, n > a, n <= b PROVE n \in Shell!ToSet(all)
  <2>1. n - a \in 1 .. m /\ a + (n - a) = n
    BY <1>3, <1>9
  <2>2. all[Len(s) + (n - a)] = n /\ Len(s) + (n - a) \in DOMAIN all
    BY <1>4, <1>5, <1>6, <1>7, <1>10, <2>1
  <2> QED BY <2>2 DEF Shell!ToSet
<1> QED BY <1>2, <1>5, <1>8, <1>9 DEF all

\* What OutputKept says of one job, when n lines of it count as reported.
ShowsTo(job, n) == \A i \in Nat : 1 <= i /\ i <= n => i \in Shown(job)

\* An interval, in these terms.
LEMMA Upto ==
    ASSUME NEW n \in Nat, NEW S
    PROVE  1 .. n \subseteq S <=> \A i \in Nat : 1 <= i /\ i <= n => i \in S
<1>1. \A i : i \in 1 .. n <=> i \in Nat /\ 1 <= i /\ i <= n
  OBVIOUS
<1> QED BY <1>1

\* The jobs' numbers and what they printed are numbers.
LEMMA JobTypes ==
    ASSUME NEW s \in Seq(ShellJob)
    PROVE  /\ DOMAIN s = 1 .. Len(s) /\ Len(s) \in Nat
           /\ \A j \in 1 .. Len(s) : s[j] \in ShellJob /\ s[j].out \in Nat /\ s[j].told \in Seq(Nat)
<1>1. \A j \in 1 .. Len(s) : s[j] \in ShellJob
  OBVIOUS
<1>2. \A job \in ShellJob : job.out \in Nat /\ job.told \in Seq(Nat)
  BY DEF ShellJob
<1> QED BY <1>1, <1>2

\* A job, none but this one, becomes new; the active job, the call and what counts
\* as reported may change, too.
LEMMA ShellSteps ==
    ASSUME ShellInv, active # 0, NEW new \in ShellJob,
           jobs' = [jobs EXCEPT ![active] = new],
           active' \in {0, active}, last' \in Nat, pCall' \in ShellCall,
           pCall'.pc # "idle" => active' # 0 /\ ~ closed',
           active' = active => new.state \in {"running", "completed", "failed"},
           active' # active => new.state \in {"removed", "unstarted"},
           active' = active => closed' \/ ShowsTo(new, last'),
           active' # active => closed' \/ new.state = "unstarted" \/ ShowsTo(new, new.out),
           closed => closed'
    PROVE  ShellInv'
<1>1. /\ jobs \in Seq(ShellJob) /\ last \in Nat /\ active \in 0 .. Len(jobs)
      /\ \A j \in 1 .. Len(jobs) : j # active => jobs[j].state \in {"removed", "unstarted"}
      /\ active \in 1 .. Len(jobs)
  <2>1. jobs \in Seq(ShellJob) /\ active \in 0 .. Len(jobs)
    BY DEF ShellInv
  <2>2. active \in 1 .. Len(jobs)
    BY <2>1
  <2> QED BY <2>2 DEF ShellInv
<1>2. /\ jobs' \in Seq(ShellJob) /\ Len(jobs') = Len(jobs)
      /\ \A j \in 1 .. Len(jobs) : jobs'[j] = IF j = active THEN new ELSE jobs[j]
  BY <1>1, SeqAssign
<1>3. jobs'[active] = new /\ \A j \in 1 .. Len(jobs) : j # active => jobs'[j] = jobs[j]
  BY <1>2
<1>4. \A j \in 1 .. Len(jobs) : jobs[j].out \in Nat /\ jobs'[j].out \in Nat
  BY <1>1, <1>2, JobTypes
<1>5. \A j \in 1 .. Len(jobs) : j # active =>
        closed \/ jobs[j].state = "unstarted" \/ 1 .. jobs[j].out \subseteq Shown(jobs[j])
  BY <1>1, JobTypes DEF ShellInv, OutputKept, Shell!OutputKept, Shown
<1>6. \A j \in 1 .. Len(jobs) : j # active => j # active /\ j # active'
  BY <1>1
<1>7. closed' \/ new.state = "unstarted" \/
        1 .. (IF active = active' THEN last' ELSE new.out) \subseteq Shown(new)
  <2>1. new.out \in Nat /\ last' \in Nat
    BY DEF ShellJob
  <2>2. CASE active' = active
    BY <2>1, <2>2, Upto DEF ShowsTo
  <2>3. CASE active' # active
    BY <2>1, <2>3, Upto DEF ShowsTo
  <2> QED BY <2>2, <2>3
<1>8. ASSUME NEW j \in 1 .. Len(jobs)
      PROVE  closed' \/ jobs'[j].state = "unstarted" \/
               1 .. (IF j = active' THEN last' ELSE jobs'[j].out) \subseteq Shown(jobs'[j])
  <2>1. CASE j = active
    BY <1>3, <1>7, <2>1
  <2>2. CASE j # active
    BY <1>3, <1>5, <1>6, <2>2
  <2> QED BY <2>1, <2>2
<1>9. OutputKept'
  BY <1>2, <1>8, JobTypes DEF OutputKept, Shell!OutputKept, Shown
<1>10. active' \in 0 .. Len(jobs')
  BY <1>1, <1>2
<1>11. /\ \A j \in 1 .. Len(jobs') : j # active' => jobs'[j].state \in {"removed", "unstarted"}
       /\ active' # 0 => jobs'[active'].state \in {"running", "completed", "failed"}
  BY <1>1, <1>2, <1>3, <1>6
<1> QED
  BY <1>2, <1>9, <1>10, <1>11 DEF ShellInv

\* An observation of the active job that shows it from the beginning, or from what
\* counts as reported.
LEMMA ShellTells ==
    ASSUME ShellInv, active # 0, NEW a \in Nat, NEW b \in Nat,
           a = 0 \/ (a = last /\ ~ closed)
    PROVE  /\ jobs[active] \in ShellJob
           /\ jobs[active].told \o Shell!Lines(a, b) \in Seq(Nat)
           /\ \A job : job.told = jobs[active].told \o Shell!Lines(a, b) => ShowsTo(job, b)
<1>1. active \in 1 .. Len(jobs) /\ jobs \in Seq(ShellJob) /\ last \in Nat
  BY DEF ShellInv
<1>2. jobs[active] \in ShellJob /\ jobs[active].told \in Seq(Nat)
  BY <1>1, JobTypes
<1> DEFINE s == jobs[active].told \o Shell!Lines(a, b)
<1>3. /\ s \in Seq(Nat) /\ Shown(jobs[active]) \subseteq Shell!ToSet(s)
      /\ \A n \in Nat : n > a /\ n <= b => n \in Shell!ToSet(s)
  BY <1>2, LinesShown DEF Shown
<1> HIDE DEF s
<1>4. \A i \in Nat : 1 <= i /\ i <= a => i \in Shell!ToSet(s)
  <2>1. CASE a = 0
    BY <2>1
  <2>2. CASE a = last /\ ~ closed
    <3>1. 1 .. last \subseteq Shown(jobs[active])
      BY <1>1, <2>2, JobTypes DEF ShellInv, OutputKept, Shell!OutputKept, Shown
    <3> QED BY <1>1, <1>3, <2>2, <3>1
  <2> QED BY <2>1, <2>2
<1>5. ASSUME NEW i \in Nat, 1 <= i, i <= b PROVE i \in Shell!ToSet(s)
  BY <1>3, <1>4, <1>5
<1>6. \A job : job.told = s => ShowsTo(job, b)
  BY <1>5 DEF ShowsTo, Shown
<1> QED
  BY <1>2, <1>3, <1>6 DEF s

\* The active job's output is shown, and it goes on.
LEMMA TellsOn ==
    ASSUME ShellInv, active # 0, NEW b \in Nat, ~ closed, jobs' = Shell!Tell(last, b),
           last' = b, UNCHANGED <<active, closed>>, pCall' \in ShellCall, pCall'.pc = "idle"
    PROVE  ShellInv'
<1> DEFINE s == jobs[active].told \o Shell!Lines(last, b)
           new == [jobs[active] EXCEPT !.told = s]
<1>1. last \in Nat /\ jobs[active].state \in {"running", "completed", "failed"}
  BY DEF ShellInv
<1>2. jobs[active] \in ShellJob /\ s \in Seq(Nat) /\ \A job : job.told = s => ShowsTo(job, b)
  BY <1>1, ShellTells
<1>3. jobs' = [jobs EXCEPT ![active] = new]
  BY DEF Shell!Tell
<1> HIDE DEF s
<1>4. new \in ShellJob /\ new.state = jobs[active].state /\ new.told = s
  BY <1>2 DEF ShellJob
<1> HIDE DEF new
<1> QED BY <1>1, <1>2, <1>3, <1>4, ShellSteps

\* All of the active job's output is shown, and it is removed.
LEMMA TellsAndRemoves ==
    ASSUME ShellInv, active # 0, NEW a \in {0, last}, ~ closed, jobs' = Shell!TellAndRemove(a),
           active' = 0, last' \in Nat, UNCHANGED closed, pCall' \in ShellCall, pCall'.pc = "idle"
    PROVE  ShellInv'
<1> DEFINE b == jobs[active].out
           s == jobs[active].told \o Shell!Lines(a, b)
           new == [jobs[active] EXCEPT !.told = s, !.state = "removed"]
<1>1. a \in Nat /\ active \in 1 .. Len(jobs) /\ jobs \in Seq(ShellJob)
  BY DEF ShellInv
<1>2. b \in Nat
  BY <1>1, JobTypes
<1>3. jobs' = [jobs EXCEPT ![active] = new]
  BY DEF Shell!TellAndRemove
<1>4. jobs[active] \in ShellJob /\ s \in Seq(Nat) /\ \A job : job.told = s => ShowsTo(job, b)
  <2> HIDE DEF b
  <2> QED BY <1>1, <1>2, ShellTells
<1> HIDE DEF s
<1>5. new \in ShellJob /\ new.state = "removed" /\ new.told = s /\ new.out = b
  BY <1>4 DEF ShellJob
<1> HIDE DEF new
<1> QED BY <1>4, <1>3, <1>5, ShellSteps

\* No job, no call.
LEMMA ShellInvInit == ASSUME Shell!Init PROVE ShellInv
  BY DEF Shell!Init, Shell!Idle, ShellInv, ShellCall, OutputKept, Shell!OutputKept

\* Every step of a job and of a call of execute preserves the invariant.
LEMMA ShellInvNext == ASSUME ShellInv, [Shell!Next]_Shell!vars PROVE ShellInv'
<1> DEFINE Good == ShellInv'
<1> SUFFICES Good
  OBVIOUS
<1>a. /\ jobs \in Seq(ShellJob) /\ active \in 0 .. Len(jobs) /\ last \in Nat
      /\ pCall \in ShellCall /\ Len(jobs) \in Nat /\ DOMAIN jobs = 1 .. Len(jobs)
      /\ pCall.pc # "idle" => active # 0 /\ ~ closed
      /\ \A j \in 1 .. Len(jobs) : j # active => jobs[j].state \in {"removed", "unstarted"}
      /\ active # 0 => jobs[active].state \in {"running", "completed", "failed"}
  BY DEF ShellInv
<1>b. \A j \in 1 .. Len(jobs) : jobs[j] \in ShellJob /\ jobs[j].out \in Nat
  BY <1>a, JobTypes
<1>c. /\ Shell!Idle \in ShellCall /\ Shell!Idle.pc = "idle"
      /\ pCall.pc \in {"idle", "start", "wait", "polled", "stop"} /\ pCall.latest \in Nat
      /\ pCall.check \in BOOLEAN
  BY <1>a DEF Shell!Idle, ShellCall
\* With ~ closed, the active job's lines up to last have been shown.
<1>d. active # 0 /\ ~ closed => ShowsTo(jobs[active], last)
  <2>1. active # 0 /\ ~ closed => 1 .. last \subseteq Shown(jobs[active])
    <3> SUFFICES ASSUME active # 0, ~ closed PROVE 1 .. last \subseteq Shown(jobs[active])
      OBVIOUS
    <3>1. active \in DOMAIN jobs /\ jobs[active].state # "unstarted"
      BY <1>a
    <3> QED BY <3>1 DEF ShellInv, OutputKept, Shell!OutputKept, Shown
  <2> QED BY <1>a, <2>1, Upto DEF ShowsTo
<1>1. ASSUME NEW j \in 1 .. Len(jobs), Shell!Output(j) PROVE Good
  <2> DEFINE new == [jobs[active] EXCEPT !.out = @ + 1]
  <2>1. j = active
    BY <1>a, <1>1 DEF Shell!Output
  <2>2. jobs' = [jobs EXCEPT ![active] = new] /\ UNCHANGED <<active, last, pCall, closed>>
    BY <1>1, <2>1 DEF Shell!Output
  <2>3. new \in ShellJob /\ new.state = jobs[active].state /\ new.told = jobs[active].told
    <3>1. jobs[active] \in ShellJob
      BY <1>b, <2>1
    <3> QED BY <3>1 DEF ShellJob
  <2> HIDE DEF new
  <2>4. closed \/ ShowsTo(new, last)
    BY <1>d, <2>1, <2>3, <1>a DEF ShowsTo, Shown
  <2>5. active # 0
    BY <1>a, <2>1
  <2>6. active' = active /\ last' = last /\ pCall' = pCall /\ closed' = closed
    BY <2>2
  <2>7. /\ active' \in {0, active} /\ last' \in Nat /\ pCall' \in ShellCall
        /\ pCall'.pc # "idle" => active' # 0 /\ ~ closed'
        /\ closed' \/ ShowsTo(new, last')
    BY <1>a, <2>4, <2>6
  <2>8. new.state \in {"running", "completed", "failed"} /\ jobs' = [jobs EXCEPT ![active] = new]
    BY <1>a, <2>2, <2>3, <2>5
  <2> QED BY <2>3, <2>5, <2>6, <2>7, <2>8, ShellSteps
<1>2. ASSUME NEW j \in 1 .. Len(jobs), Shell!End(j) PROVE Good
  <2>1. j = active /\ UNCHANGED <<active, last, pCall, closed>>
    BY <1>a, <1>2 DEF Shell!End
  <2>2. PICK state \in {"completed", "failed"} : jobs' = [jobs EXCEPT ![j].state = state]
    BY <1>2 DEF Shell!End
  <2> DEFINE new == [jobs[active] EXCEPT !.state = state]
  <2>3. jobs' = [jobs EXCEPT ![active] = new]
    BY <2>1, <2>2
  <2>4. new \in ShellJob /\ new.state = state /\ new.told = jobs[active].told
    BY <1>b, <2>1 DEF ShellJob
  <2> HIDE DEF new
  <2>5. closed \/ ShowsTo(new, last)
    BY <1>d, <2>1, <2>4, <1>a DEF ShowsTo, Shown
  <2>6. active # 0
    BY <1>a, <2>1
  <2>7. active' = active /\ last' = last /\ pCall' = pCall /\ closed' = closed
    BY <2>1
  <2>8. /\ active' \in {0, active} /\ last' \in Nat /\ pCall' \in ShellCall
        /\ pCall'.pc # "idle" => active' # 0 /\ ~ closed'
        /\ closed' \/ ShowsTo(new, last')
    BY <1>a, <2>5, <2>7
  <2> QED BY <2>3, <2>4, <2>6, <2>7, <2>8, ShellSteps
<1>3. CASE Shell!FindsEnded
  <2>1. /\ active # 0 /\ ~ closed /\ pCall.pc = "idle" /\ jobs' = Shell!TellAndRemove(0)
        /\ active' = 0 /\ last' = 0 /\ UNCHANGED <<pCall, closed>>
    BY <1>3 DEF Shell!FindsEnded, Shell!Called
  <2> QED BY <1>a, <2>1, TellsAndRemoves
<1>4. CASE Shell!Interact
  <2>1. /\ active # 0 /\ ~ closed /\ UNCHANGED <<jobs, active, last, closed>>
        /\ pCall' \in ShellCall
    BY <1>4, <1>a DEF Shell!Interact, Shell!Called, ShellCall
  <2> QED BY <2>1 DEF ShellInv, OutputKept, Shell!OutputKept
<1>5. CASE Shell!Refuse
  <2>1. /\ active # 0 /\ ~ closed /\ pCall.pc = "idle"
        /\ jobs' = Shell!Tell(last, jobs[active].out)
        /\ last' = jobs[active].out /\ UNCHANGED <<active, pCall, closed>>
    BY <1>5 DEF Shell!Refuse, Shell!Called
  <2>2. jobs[active].out \in Nat
    BY <1>a, <1>b, <2>1
  <2> QED BY <1>a, <2>1, <2>2, TellsOn
<1>6. CASE Shell!Stopped
  <2>1. /\ active # 0 /\ ~ closed /\ jobs' = Shell!TellAndRemove(0)
        /\ active' = 0 /\ last' = last /\ pCall' = Shell!Idle /\ UNCHANGED closed
    BY <1>6, <1>a DEF Shell!Stopped
  <2> QED BY <1>a, <1>c, <2>1, TellsAndRemoves
<1>7. CASE Shell!StartJob
  <2> DEFINE new == [state |-> "running", out |-> 0, told |-> <<>>]
             n == Len(jobs) + 1
  <2>1. /\ active = 0 /\ ~ closed /\ jobs' = Append(jobs, new)
        /\ active' = n /\ last' = 0 /\ UNCHANGED closed
        /\ pCall' = [pc |-> "start", latest |-> 0, check |-> FALSE]
    BY <1>7 DEF Shell!StartJob, Shell!Called
  <2>2. new \in ShellJob /\ new.state = "running"
    BY DEF ShellJob
  <2>3. pCall' \in ShellCall
    BY <2>1 DEF ShellCall
  <2> HIDE DEF new
  <2>4. /\ jobs' \in Seq(ShellJob) /\ Len(jobs') = n /\ jobs'[n] = new
        /\ \A j \in 1 .. Len(jobs) : jobs'[j] = jobs[j]
    BY <1>a, <2>1, <2>2
  <2>5. /\ \A j \in 1 .. Len(jobs') : j \in 1 .. Len(jobs) \/ j = n
        /\ n \in 0 .. Len(jobs') /\ n # 0 /\ \A j \in 1 .. Len(jobs) : j # n /\ j # 0
    BY <1>a, <2>4
  <2>6. \A j \in 1 .. Len(jobs) :
          closed \/ jobs[j].state = "unstarted" \/ 1 .. jobs[j].out \subseteq Shown(jobs[j])
    BY <1>a, <2>1, <2>5 DEF ShellInv, OutputKept, Shell!OutputKept, Shown
  <2>7. DOMAIN jobs' = 1 .. Len(jobs')
    BY <2>4
  <2> HIDE DEF n
  <2>8. ASSUME NEW j \in 1 .. Len(jobs')
        PROVE  closed' \/ jobs'[j].state = "unstarted" \/
                 1 .. (IF j = active' THEN last' ELSE jobs'[j].out) \subseteq Shown(jobs'[j])
    <3>1. CASE j = n
      BY <2>1, <3>1
    <3>2. CASE j \in 1 .. Len(jobs)
      BY <2>1, <2>4, <2>5, <2>6, <3>2
    <3> QED BY <2>5, <3>1, <3>2
  <2>9. OutputKept'
    BY <2>7, <2>8 DEF OutputKept, Shell!OutputKept, Shown
  <2>10. /\ \A j \in 1 .. Len(jobs') : j # active' => jobs'[j].state \in {"removed", "unstarted"}
         /\ jobs'[active'].state = "running" /\ active' \in 0 .. Len(jobs')
    BY <1>a, <2>1, <2>2, <2>4, <2>5
  <2> QED BY <2>1, <2>3, <2>4, <2>5, <2>9, <2>10 DEF ShellInv
<1>8. CASE Shell!FirstLook
  <2>1. active # 0 /\ ~ closed /\ UNCHANGED <<last, closed>> /\ active \in 1 .. Len(jobs)
    BY <1>8, <1>a DEF Shell!FirstLook
  <2>2. CASE jobs[active].state = "failed"
    <3> DEFINE new == [jobs[active] EXCEPT !.state = "unstarted"]
    <3>1. jobs' = [jobs EXCEPT ![active] = new] /\ active' = 0 /\ pCall' = Shell!Idle
      BY <1>8, <2>2 DEF Shell!FirstLook
    <3>2. new \in ShellJob /\ new.state = "unstarted"
      BY <1>b, <2>1 DEF ShellJob
    <3> HIDE DEF new
    <3> QED BY <1>a, <1>c, <2>1, <3>1, <3>2, ShellSteps
  <2>3. CASE jobs[active].state # "failed"
    <3>1. pCall' = [pCall EXCEPT !.pc = "wait"] /\ UNCHANGED <<jobs, active>>
      BY <1>8, <2>3 DEF Shell!FirstLook
    <3>2. pCall' \in ShellCall
      BY <1>a, <3>1 DEF ShellCall
    <3> QED BY <2>1, <3>1, <3>2 DEF ShellInv, OutputKept, Shell!OutputKept
  <2> QED BY <2>2, <2>3
<1>9. CASE Shell!Poll
  <2>1. active # 0 /\ ~ closed /\ UNCHANGED <<jobs, active, last, closed>>
    BY <1>9, <1>a DEF Shell!Poll
  <2>2. jobs[active].out \in Nat
    BY <1>a, <1>b, <2>1
  <2>3. pCall' \in ShellCall
    BY <1>9, <1>c, <2>2 DEF Shell!Poll, ShellCall
  <2> QED BY <2>1, <2>3 DEF ShellInv, OutputKept, Shell!OutputKept
<1>10. CASE Shell!LookAtState
  <2>1. active # 0 /\ ~ closed /\ UNCHANGED <<jobs, active, last, closed>>
    BY <1>10, <1>a DEF Shell!LookAtState
  <2>2. pCall' \in ShellCall
    BY <1>10, <1>a DEF Shell!LookAtState, ShellCall
  <2> QED BY <2>1, <2>2 DEF ShellInv, OutputKept, Shell!OutputKept
<1>11. CASE Shell!Finish
  <2>1. /\ active # 0 /\ ~ closed /\ jobs' = Shell!TellAndRemove(last)
        /\ active' = 0 /\ last' \in {0, last} /\ pCall' = Shell!Idle /\ UNCHANGED closed
    BY <1>11, <1>a DEF Shell!Finish
  <2> QED BY <1>a, <1>c, <2>1, TellsAndRemoves
<1>12. CASE Shell!GiveUp
  <2>1. /\ active # 0 /\ ~ closed /\ jobs' = Shell!Tell(last, pCall.latest)
        /\ last' = pCall.latest /\ pCall' = Shell!Idle /\ UNCHANGED <<active, closed>>
    BY <1>12, <1>a DEF Shell!GiveUp
  <2> QED BY <1>c, <2>1, TellsOn
<1>13. CASE Shell!Close
  <2>1. closed' = TRUE /\ active' = 0 /\ pCall.pc = "idle" /\ UNCHANGED pCall /\ last' \in {0, last}
    BY <1>13 DEF Shell!Close
  <2>2. CASE active = 0
    <3>1. jobs' = jobs
      BY <1>13, <2>2 DEF Shell!Close
    <3> QED BY <2>1, <2>2, <3>1 DEF ShellInv, OutputKept, Shell!OutputKept
  <2>3. CASE active # 0
    <3> DEFINE new == [jobs[active] EXCEPT !.state = "removed"]
    <3>1. jobs' = [jobs EXCEPT ![active] = new]
      BY <1>13, <2>3 DEF Shell!Close
    <3>2. jobs[active] \in ShellJob
      BY <1>a, <1>b, <2>3
    <3>3. new \in ShellJob /\ new.state = "removed"
      BY <3>2 DEF ShellJob
    <3> HIDE DEF new
    <3>4. last' \in Nat /\ pCall' \in ShellCall /\ pCall'.pc = "idle" /\ active' # active /\ closed'
      BY <1>a, <2>1, <2>3
    <3> QED BY <2>1, <2>3, <3>1, <3>3, <3>4, ShellSteps
  <2> QED BY <2>2, <2>3
<1>14. CASE UNCHANGED Shell!vars
  BY <1>14 DEF Shell!vars, ShellInv, OutputKept, Shell!OutputKept
<1> HIDE DEF Good
<1> QED
  BY <1>a, <1>1, <1>2, <1>3, <1>4, <1>5, <1>6, <1>7, <1>8, <1>9, <1>10, <1>11, <1>12,
     <1>13, <1>14 DEF Shell!Next

(***************************************************************************)
(* No output of a PowerShell job is lost between the observations, for any *)
(* number of jobs, lines and calls and however the job's prints and end    *)
(* fall between the reads of execute: each observation goes on where the   *)
(* last one that counts ended.                                             *)
(***************************************************************************)
THEOREM ShellOutputKept == Shell!Spec => []OutputKept
<1>1. ShellInv => OutputKept
  BY DEF ShellInv
<1> QED
  BY <1>1, ShellInvInit, ShellInvNext, PTL DEF Shell!Spec

=============================================================================
