------------------------- MODULE EventStreamProofs -------------------------
(***************************************************************************)
(* Proofs about EventStream, for any number of threads, events, crashes    *)
(* and failures and any page size; and about the searches that run beside  *)
(* it, EventSearch.                                                        *)
(***************************************************************************)
EXTENDS EventSearch, WellFoundedInduction, TLAPS

(***************************************************************************)
(* A bounded non-empty set of naturals has the maximum that                *)
(* _calculate_cur_id computes.                                             *)
(***************************************************************************)
LEMMA MaxOfBounded ==
    ASSUME NEW S \in SUBSET Nat, S # {},
           NEW b \in Nat, \A i \in S : i < b
    PROVE  Max(S) \in S /\ \A i \in S : i <= Max(S)
<1> DEFINE R == OpToRel(<, Nat)
           U == {n \in Nat : \A i \in S : i <= n}
<1>1. \A x, y \in Nat : <<x, y>> \in R <=> x < y
  BY DEF OpToRel
<1>2. U # {}
  <2>1. b \in U
    OBVIOUS
  <2> QED
    BY <2>1
<1>3. PICK m \in U : \A n \in U : ~(<<n, m>> \in R)
  <2>1. U \subseteq Nat
    OBVIOUS
  <2>2. IsWellFoundedOn(R, Nat)
    BY NatLessThanWellFounded
  <2> HIDE DEF U, R
  <2> QED
    BY WFMin, <1>2, <2>1, <2>2
<1>4. \A n \in U : m <= n
  <2>1. m \in Nat /\ U \subseteq Nat
    OBVIOUS
  <2> HIDE DEF U, R
  <2>2. \A n \in U : ~(n < m)
    BY <1>1, <1>3, <2>1
  <2> QED
    BY <2>1, <2>2
<1>5. m \in S
  <2> SUFFICES ASSUME m \notin S PROVE FALSE
    OBVIOUS
  <2>1. \A i \in S : i <= m /\ i # m
    OBVIOUS
  <2>2. m > 0
    <3>1. PICK i \in S : TRUE
      OBVIOUS
    <3>2. i \in Nat /\ m \in Nat /\ i <= m /\ i # m
      BY <2>1, <3>1
    <3> QED
      BY <3>2
  <2>3. m - 1 \in U
    BY <2>1, <2>2
  <2> QED
    BY <1>4, <2>3
<1>6. m \in S /\ \A i \in S : m >= i
  BY <1>5
<1>7. Max(S) \in S /\ \A i \in S : Max(S) >= i
  BY <1>6, Zenon DEF Max
<1> QED
  BY <1>7

(***************************************************************************)
(* The id that a restart hands out next is above every id on disk, and not *)
(* above the one the process had reached.                                  *)
(***************************************************************************)
LEMMA CalculateCurIdBounds ==
    ASSUME NEW ids \in SUBSET Nat,
           NEW b \in Nat, \A i \in ids : i < b
    PROVE  /\ CalculateCurId(ids) \in Nat
           /\ \A i \in ids : i < CalculateCurId(ids)
           /\ CalculateCurId(ids) <= b
<1>1. CASE ids = {}
  <2>1. CalculateCurId(ids) = 0
    BY <1>1 DEF CalculateCurId
  <2> QED
    BY <1>1, <2>1
<1>2. CASE ids # {}
  <2>1. Max(ids) \in ids /\ \A i \in ids : i <= Max(ids)
    BY <1>2, MaxOfBounded
  <2>2. CalculateCurId(ids) = Max(ids) + 1
    BY <1>2 DEF CalculateCurId
  <2>3. Max(ids) \in Nat /\ Max(ids) < b
    BY <2>1
  <2> HIDE DEF CalculateCurId
  <2> QED
    BY <2>1, <2>2, <2>3
<1> QED
  BY <1>1, <1>2

-----------------------------------------------------------------------------
(***************************************************************************)
(* The invariant of the log.                                               *)
(***************************************************************************)
\* The invariant of the log holds for a new EventStream.
LEMMA LogInvInit == Init => LogInv
<1> SUFFICES ASSUME Init PROVE LogInv
  OBVIOUS
<1> USE SizesAssumption, ThreadsAssumption DEF Init
<1>1. TypeOK
  BY DEF TypeOK, Contents, Entry
<1>2. LockInv /\ RefInv
  BY DEF LockInv, RefInv
<1>3. IdInv
  BY DEF IdInv
<1>4. QueueInv
  BY DEF QueueInv, PersistBeforePublish, PublishedOnce
<1> QED
  BY <1>1, <1>2, <1>3, <1>4 DEF LogInv

\* Every step keeps the types.
LEMMA TypeStep == LogInv /\ [Next]_vars => TypeOK'
<1> SUFFICES ASSUME LogInv, [Next]_vars PROVE TypeOK'
  OBVIOUS
<1> USE SizesAssumption, ThreadsAssumption
<1>0. TypeOK /\ RefInv /\ IdInv
  BY DEF LogInv
<1>a. ASSUME NEW t \in Threads, pc[t] # "idle"
      PROVE  /\ mine[t].id \in Nat /\ mine[t].content \in Contents
             /\ [id |-> mine[t].id, content |-> mine[t].content] \in Entry
             /\ pages[mine[t].page] \in Seq(Entry)
  <2>1. mine[t].id \in Nat /\ mine[t].content \in Contents
    BY <1>0, <1>a DEF TypeOK, IdInv
  <2>2. mine[t].page \in 1 .. Len(pages) /\ pages \in Seq(Seq(Entry))
    BY <1>0, <1>a DEF TypeOK, RefInv
  <2> QED
    BY <2>1, <2>2 DEF Entry
<1>1. ASSUME NEW t \in Threads, AddEventTakeId(t) PROVE TypeOK'
  <2>1. adds' \in 0 .. MaxAdds /\ lock' \in Threads \cup {NoThread}
    BY <1>0, <1>1 DEF TypeOK, AddEventTakeId
  <2>2. mine' \in [Threads -> [id : Nat, content : Nat, page : Nat]]
    <3>1. curId \in Nat /\ adds + 1 \in Nat /\ Len(pages) \in Nat
      BY <1>0 DEF TypeOK
    <3> QED
      BY <1>0, <1>1, <3>1 DEF TypeOK, AddEventTakeId
  <2>3. pc' \in [Threads -> {"idle", "locked", "write", "page", "put"}]
    BY <1>0, <1>1 DEF TypeOK, AddEventTakeId, Goto
  <2> QED
    BY <1>0, <1>1, <2>1, <2>2, <2>3, SMTT(30) DEF TypeOK, AddEventTakeId
<1>2. ASSUME NEW t \in Threads, AddEventToPage(t) PROVE TypeOK'
  <2> DEFINE e == [id |-> mine[t].id, content |-> mine[t].content]
             page == Append(pages[mine[t].page], e)
             kept == [pages EXCEPT ![mine[t].page] = page]
  <2>1. e \in Entry
    BY <1>a, <1>2 DEF AddEventToPage, Goto
  <2>2. mine[t].page \in 1 .. Len(pages) /\ pages \in Seq(Seq(Entry))
    BY <1>0, <1>2 DEF TypeOK, RefInv, AddEventToPage, Goto
  <2>3. page \in Seq(Entry)
    BY <2>1, <2>2
  <2>4. kept \in Seq(Seq(Entry)) /\ Append(kept, <<>>) \in Seq(Seq(Entry))
    BY <2>2, <2>3
  <2>5. pages' \in Seq(Seq(Entry))
    BY <1>2, <2>4 DEF AddEventToPage
  <2> QED
    <3>1. pc' \in [Threads -> {"idle", "locked", "write", "page", "put"}]
      BY <1>0, <1>2 DEF TypeOK, AddEventToPage, Goto
    <3>2. curId' \in Nat /\ lock' \in Threads \cup {NoThread}
      <4>1. curId' = curId + 1 /\ lock' = NoThread
        BY <1>2 DEF AddEventToPage
      <4> QED
        BY <1>0, <4>1, SMTT(30) DEF TypeOK
    <3>3. UNCHANGED <<files, pageFiles, mine, queue, adds, crashes>>
      BY <1>2 DEF AddEventToPage
    <3> QED
      BY <1>0, <2>5, <3>1, <3>2, <3>3 DEF TypeOK
<1>3. ASSUME NEW t \in Threads, AddEventSerializeFails(t) PROVE TypeOK'
  BY <1>0, <1>3, SMTT(30) DEF TypeOK, AddEventSerializeFails, Goto
<1>4. ASSUME NEW t \in Threads, AddEventWriteFile(t) PROVE TypeOK'
  <2>1. mine[t].id \in Nat /\ mine[t].content \in Contents
    BY <1>a, <1>4 DEF AddEventWriteFile, Goto
  <2>2. /\ files' = [i \in DOMAIN files' |-> files'[i]]
        /\ DOMAIN files' \subseteq Nat
        /\ \A i \in DOMAIN files' : files'[i] \in Contents
    BY <1>0, <1>4, <2>1 DEF TypeOK, AddEventWriteFile, Write
  <2> QED
    BY <1>0, <1>4, <2>2 DEF TypeOK, AddEventWriteFile, Goto
<1>5. ASSUME NEW t \in Threads, StoreCachePage(t) PROVE TypeOK'
  <2> DEFINE page == pages[mine[t].page]
  <2>1. page \in Seq(Entry)
    BY <1>a, <1>5 DEF StoreCachePage, Goto
  <2>2. Len(page) >= CacheSize => page[1].id \in Nat
    <3> HIDE DEF page
    <3>1. Len(page) >= CacheSize => page[1] \in Entry
      BY <2>1
    <3> QED
      BY <3>1 DEF Entry
  <2>3. /\ pageFiles' = [s \in DOMAIN pageFiles' |-> pageFiles'[s]]
        /\ DOMAIN pageFiles' \subseteq Nat
        /\ \A s \in DOMAIN pageFiles' : pageFiles'[s] \in Seq(Entry)
    <3>1. CASE Len(page) < CacheSize
      BY <1>0, <1>5, <3>1 DEF TypeOK, StoreCachePage
    <3>2. CASE ~(Len(page) < CacheSize)
      <4>1. pageFiles' = Write(pageFiles, page[1].id, page)
        BY <1>5, <3>2 DEF StoreCachePage
      <4>2. page[1].id \in Nat
        BY <2>1, <2>2, <3>2
      <4> HIDE DEF page
      <4> QED
        BY <1>0, <2>1, <4>1, <4>2 DEF TypeOK, Write
    <3> QED
      BY <3>1, <3>2
  <2> QED
    BY <1>0, <1>5, <2>3 DEF TypeOK, StoreCachePage, Goto
<1>6. ASSUME NEW t \in Threads, AddEventWriteFails(t) PROVE TypeOK'
  BY <1>0, <1>6 DEF TypeOK, AddEventWriteFails, Goto
<1>7. ASSUME NEW t \in Threads, AddEventPut(t) PROVE TypeOK'
  <2>1. queue' \in Seq(Entry)
    <3>1. [id |-> mine[t].id, content |-> mine[t].content] \in Entry
      BY <1>a, <1>7 DEF AddEventPut, Goto
    <3>2. queue \in Seq(Entry)
      BY <1>0 DEF TypeOK
    <3> QED
      BY <1>7, <3>1, <3>2 DEF AddEventPut
  <2> QED
    BY <1>0, <1>7, <2>1 DEF TypeOK, AddEventPut, Goto
<1>8. ASSUME Restart PROVE TypeOK'
  <2>1. CalculateCurId(DOMAIN files) \in Nat
    BY <1>0, CalculateCurIdBounds DEF TypeOK, IdInv
  <2> QED
    <3>1. pages' \in Seq(Seq(Entry)) /\ queue' \in Seq(Entry)
      BY <1>8 DEF Restart
    <3>2. curId' \in Nat
      BY <1>8, <2>1 DEF Restart
    <3>3. crashes' \in 0 .. MaxCrashes
      BY <1>0, <1>8 DEF TypeOK, Restart
    <3> QED
      BY <1>0, <1>8, <3>1, <3>2, <3>3 DEF TypeOK, Restart
<1>9. ASSUME UNCHANGED vars PROVE TypeOK'
  BY <1>0, <1>9 DEF TypeOK, vars
<1> QED
  BY <1>1, <1>2, <1>3, <1>4, <1>5, <1>6, <1>7, <1>8, <1>9 DEF Next, AddEvent

(***************************************************************************)
(* The lock: only the thread in the critical section holds it.             *)
(***************************************************************************)
LEMMA LockStep == LogInv /\ [Next]_vars => LockInv'
<1> SUFFICES ASSUME LogInv, [Next]_vars PROVE LockInv'
  OBVIOUS
<1> USE ThreadsAssumption DEF Goto
<1>0. LockInv /\ pc \in [Threads -> {"idle", "locked", "write", "page", "put"}]
  BY DEF LogInv, TypeOK
<1>1. ASSUME NEW t \in Threads, AddEventTakeId(t) PROVE LockInv'
  BY <1>0, <1>1 DEF LockInv, AddEventTakeId
<1>2. ASSUME NEW t \in Threads, AddEventToPage(t) PROVE LockInv'
  BY <1>0, <1>2 DEF LockInv, AddEventToPage
<1>3. ASSUME NEW t \in Threads, AddEventSerializeFails(t) PROVE LockInv'
  BY <1>0, <1>3 DEF LockInv, AddEventSerializeFails
<1>4. ASSUME NEW t \in Threads, AddEventWriteFile(t) PROVE LockInv'
  BY <1>0, <1>4 DEF LockInv, AddEventWriteFile
<1>5. ASSUME NEW t \in Threads, StoreCachePage(t) PROVE LockInv'
  BY <1>0, <1>5 DEF LockInv, StoreCachePage
<1>6. ASSUME NEW t \in Threads, AddEventWriteFails(t) PROVE LockInv'
  BY <1>0, <1>6 DEF LockInv, AddEventWriteFails
<1>7. ASSUME NEW t \in Threads, AddEventPut(t) PROVE LockInv'
  BY <1>0, <1>7 DEF LockInv, AddEventPut
<1>8. ASSUME Restart PROVE LockInv'
  BY <1>0, <1>8 DEF LockInv, Restart
<1>9. ASSUME UNCHANGED vars PROVE LockInv'
  BY <1>0, <1>9 DEF LockInv, vars
<1> QED
  BY <1>1, <1>2, <1>3, <1>4, <1>5, <1>6, <1>7, <1>8, <1>9 DEF Next, AddEvent

(***************************************************************************)
(* The page lists only grow, so a thread's page stays one of them.         *)
(***************************************************************************)
LEMMA RefStep == LogInv /\ [Next]_vars => RefInv'
<1> SUFFICES ASSUME LogInv, [Next]_vars PROVE RefInv'
  OBVIOUS
<1> USE DEF Goto
<1>0. /\ RefInv /\ pages \in Seq(Seq(Entry))
      /\ pc \in [Threads -> {"idle", "locked", "write", "page", "put"}]
      /\ mine \in [Threads -> [id : Nat, content : Nat, page : Nat]]
  BY DEF LogInv, TypeOK
<1>1. ASSUME NEW t \in Threads, AddEventTakeId(t) PROVE RefInv'
  BY <1>0, <1>1 DEF RefInv, AddEventTakeId
<1>2. ASSUME NEW t \in Threads, AddEventToPage(t) PROVE RefInv'
  <2>1. Len(pages') >= Len(pages) /\ Len(pages') \in Nat
    <3> DEFINE page == Append(pages[mine[t].page],
                              [id |-> mine[t].id, content |-> mine[t].content])
               kept == [pages EXCEPT ![mine[t].page] = page]
    <3>1. Len(kept) = Len(pages) /\ Len(Append(kept, <<>>)) = Len(pages) + 1
      BY <1>0
    <3>2. pages' = kept \/ pages' = Append(kept, <<>>)
      BY <1>2 DEF AddEventToPage
    <3> QED
      BY <1>0, <3>1, <3>2
  <2>2. pc[t] = "locked" /\ pc' = [pc EXCEPT ![t] = "write"] /\ mine' = mine
    BY <1>2 DEF AddEventToPage
  <2> QED
    BY <1>0, <2>1, <2>2 DEF RefInv
<1>3. ASSUME NEW t \in Threads, AddEventSerializeFails(t) PROVE RefInv'
  BY <1>0, <1>3 DEF RefInv, AddEventSerializeFails
<1>4. ASSUME NEW t \in Threads, AddEventWriteFile(t) PROVE RefInv'
  BY <1>0, <1>4 DEF RefInv, AddEventWriteFile
<1>5. ASSUME NEW t \in Threads, StoreCachePage(t) PROVE RefInv'
  BY <1>0, <1>5 DEF RefInv, StoreCachePage
<1>6. ASSUME NEW t \in Threads, AddEventWriteFails(t) PROVE RefInv'
  BY <1>0, <1>6 DEF RefInv, AddEventWriteFails
<1>7. ASSUME NEW t \in Threads, AddEventPut(t) PROVE RefInv'
  BY <1>0, <1>7 DEF RefInv, AddEventPut
<1>8. ASSUME Restart PROVE RefInv'
  BY <1>0, <1>8 DEF RefInv, Restart
<1>9. ASSUME UNCHANGED vars PROVE RefInv'
  BY <1>0, <1>9 DEF RefInv, vars
<1> QED
  BY <1>1, <1>2, <1>3, <1>4, <1>5, <1>6, <1>7, <1>8, <1>9 DEF Next, AddEvent

(***************************************************************************)
(* The ids.                                                                *)
(***************************************************************************)
LEMMA IdStep == LogInv /\ [Next]_vars => IdInv'
<1> SUFFICES ASSUME LogInv, [Next]_vars PROVE IdInv'
  OBVIOUS
<1> USE SizesAssumption DEF Goto
<1>0. /\ IdInv /\ LockInv /\ adds \in Nat /\ curId \in Nat
      /\ DOMAIN files \subseteq Nat
      /\ pc \in [Threads -> {"idle", "locked", "write", "page", "put"}]
      /\ mine \in [Threads -> [id : Nat, content : Nat, page : Nat]]
      /\ NoThread \notin Threads
  BY ThreadsAssumption DEF LogInv, TypeOK
<1>1. ASSUME NEW t \in Threads, AddEventTakeId(t) PROVE IdInv'
  <2>1. /\ pc[t] = "idle" /\ pc' = [pc EXCEPT ![t] = "locked"]
        /\ lock = NoThread /\ adds < MaxAdds /\ adds' = adds + 1
        /\ UNCHANGED <<files, curId>>
    BY <1>1 DEF AddEventTakeId
  <2>2. /\ mine'[t].id = curId /\ mine'[t].content = adds + 1
        /\ \A u \in Threads : u # t => mine'[u] = mine[u] /\ pc'[u] = pc[u]
    BY <1>0, <1>1 DEF AddEventTakeId
  <2>3. \A u \in Threads : pc[u] # "locked"
    BY <1>0, <2>1 DEF LockInv
  <2>4. mine'[t].content \in Contents
    BY <1>0, <2>1, <2>2 DEF Contents
  <2>5. \A u \in Threads : pc[u] # "idle" => mine[u].id < curId
    BY <1>0, <2>3 DEF IdInv
  <2>6. curId \notin DOMAIN files
    BY <1>0 DEF IdInv
  <2> QED
    BY <1>0, <2>1, <2>2, <2>3, <2>4, <2>5, <2>6 DEF IdInv
<1>2. ASSUME NEW t \in Threads, AddEventToPage(t) PROVE IdInv'
  <2>1. /\ pc[t] = "locked" /\ pc' = [pc EXCEPT ![t] = "write"]
        /\ curId' = curId + 1 /\ UNCHANGED <<files, mine, adds>>
    BY <1>2 DEF AddEventToPage
  <2> QED
    BY <1>0, <2>1 DEF IdInv, LockInv
<1>3. ASSUME NEW t \in Threads, AddEventSerializeFails(t) PROVE IdInv'
  BY <1>0, <1>3 DEF IdInv, LockInv, AddEventSerializeFails
<1>4. ASSUME NEW t \in Threads, AddEventWriteFile(t) PROVE IdInv'
  <2>1. /\ pc[t] = "write" /\ pc' = [pc EXCEPT ![t] = "page"]
        /\ UNCHANGED <<curId, mine, adds>>
    BY <1>4 DEF AddEventWriteFile
  <2>2. /\ DOMAIN files' = DOMAIN files \cup {mine[t].id}
        /\ files'[mine[t].id] = mine[t].content
        /\ \A i \in DOMAIN files : i # mine[t].id => files'[i] = files[i]
    BY <1>4 DEF AddEventWriteFile, Write
  <2> QED
    BY <1>0, <2>1, <2>2 DEF IdInv
<1>5. ASSUME NEW t \in Threads, StoreCachePage(t) PROVE IdInv'
  BY <1>0, <1>5 DEF IdInv, StoreCachePage
<1>6. ASSUME NEW t \in Threads, AddEventWriteFails(t) PROVE IdInv'
  BY <1>0, <1>6 DEF IdInv, AddEventWriteFails
<1>7. ASSUME NEW t \in Threads, AddEventPut(t) PROVE IdInv'
  BY <1>0, <1>7 DEF IdInv, AddEventPut
<1>8. ASSUME Restart PROVE IdInv'
  <2>1. /\ CalculateCurId(DOMAIN files) \in Nat
        /\ \A i \in DOMAIN files : i < CalculateCurId(DOMAIN files)
        /\ CalculateCurId(DOMAIN files) <= curId
    BY <1>0, CalculateCurIdBounds DEF IdInv
  <2>2. curId' = CalculateCurId(DOMAIN files) /\ UNCHANGED <<files, adds>>
    BY <1>8 DEF Restart
  <2>3. \A u \in Threads : pc'[u] = "idle"
    BY <1>8 DEF Restart
  <2> HIDE DEF CalculateCurId
  <2> QED
    BY <1>0, <2>1, <2>2, <2>3 DEF IdInv
<1>9. ASSUME UNCHANGED vars PROVE IdInv'
  BY <1>0, <1>9 DEF IdInv, vars
<1> QED
  BY <1>1, <1>2, <1>3, <1>4, <1>5, <1>6, <1>7, <1>8, <1>9 DEF Next, AddEvent

(***************************************************************************)
(* The queue.                                                              *)
(***************************************************************************)
LEMMA QueueStep == LogInv /\ [Next]_vars => QueueInv'
<1> SUFFICES ASSUME LogInv, [Next]_vars PROVE QueueInv'
  OBVIOUS
<1> USE DEF Goto, PersistBeforePublish, PublishedOnce
<1>0. /\ IdInv /\ QueueInv /\ curId \in Nat /\ queue \in Seq(Entry)
      /\ pc \in [Threads -> {"idle", "locked", "write", "page", "put"}]
      /\ mine \in [Threads -> [id : Nat, content : Nat, page : Nat]]
  BY DEF LogInv, TypeOK
<1>1. ASSUME NEW t \in Threads, AddEventTakeId(t) PROVE QueueInv'
  BY <1>0, <1>1 DEF IdInv, QueueInv, AddEventTakeId
<1>2. ASSUME NEW t \in Threads, AddEventToPage(t) PROVE QueueInv'
  <2>1. /\ pc[t] = "locked" /\ pc' = [pc EXCEPT ![t] = "write"]
        /\ UNCHANGED <<files, mine, queue>>
    BY <1>2 DEF AddEventToPage
  <2> QED
    BY <1>0, <2>1 DEF QueueInv
<1>3. ASSUME NEW t \in Threads, AddEventSerializeFails(t) PROVE QueueInv'
  BY <1>0, <1>3 DEF QueueInv, AddEventSerializeFails
<1>4. ASSUME NEW t \in Threads, AddEventWriteFile(t) PROVE QueueInv'
  BY <1>0, <1>4 DEF IdInv, QueueInv, AddEventWriteFile, Write
<1>5. ASSUME NEW t \in Threads, StoreCachePage(t) PROVE QueueInv'
  BY <1>0, <1>5 DEF QueueInv, StoreCachePage
<1>6. ASSUME NEW t \in Threads, AddEventWriteFails(t) PROVE QueueInv'
  BY <1>0, <1>6 DEF QueueInv, AddEventWriteFails
<1>7. ASSUME NEW t \in Threads, AddEventPut(t) PROVE QueueInv'
  <2> DEFINE e == [id |-> mine[t].id, content |-> mine[t].content]
  <2>1. /\ Len(queue') = Len(queue) + 1 /\ Len(queue) \in Nat
        /\ \A k \in 1 .. Len(queue) : queue'[k] = queue[k]
        /\ queue'[Len(queue) + 1] = e
    <3>1. queue' = Append(queue, e)
      BY <1>7 DEF AddEventPut
    <3> HIDE DEF e
    <3> QED
      BY <1>0, <3>1
  <2>2. /\ pc[t] = "put" /\ pc' = [pc EXCEPT ![t] = "idle"]
        /\ UNCHANGED <<files, mine>>
    BY <1>7 DEF AddEventPut
  <2>3. e.id = mine[t].id /\ e.content = mine[t].content
    OBVIOUS
  <2> HIDE DEF e
  <2>a. \A k \in 1 .. Len(queue') : k \in 1 .. Len(queue) \/ k = Len(queue) + 1
    BY <2>1
  <2>b. \A k \in 1 .. Len(queue) : queue[k].id # e.id
    BY <1>0, <2>2, <2>3 DEF QueueInv
  <2>c. e.id \in DOMAIN files /\ files[e.id] = e.content
    BY <1>0, <2>2, <2>3 DEF IdInv
  <2>4. PersistBeforePublish' /\ PublishedOnce'
    <3>1. PersistBeforePublish'
      BY <1>0, <2>1, <2>2, <2>a, <2>c DEF QueueInv
    <3>2. PublishedOnce'
      BY <1>0, <2>1, <2>a, <2>b DEF QueueInv
    <3> QED
      BY <3>1, <3>2
  <2>5. ASSUME NEW u \in Threads, pc'[u] # "idle", NEW k \in 1 .. Len(queue')
        PROVE  queue'[k].id # mine'[u].id
    <3>1. u # t /\ pc[u] # "idle"
      BY <1>0, <2>2, <2>5
    <3>2. mine[u].id # e.id
      BY <1>0, <2>2, <2>3, <3>1 DEF IdInv
    <3>3. \A j \in 1 .. Len(queue) : queue[j].id # mine[u].id
      BY <1>0, <3>1 DEF QueueInv
    <3> QED
      BY <2>1, <2>2, <2>5, <2>a, <3>2, <3>3
  <2> QED
    BY <2>4, <2>5 DEF QueueInv
<1>8. ASSUME Restart PROVE QueueInv'
  <2>1. queue' = <<>> /\ \A u \in Threads : pc'[u] = "idle"
    BY <1>8 DEF Restart
  <2>2. Len(queue') = 0
    BY <2>1
  <2> QED
    BY <2>1, <2>2 DEF QueueInv
<1>9. ASSUME UNCHANGED vars PROVE QueueInv'
  BY <1>0, <1>9 DEF QueueInv, vars
<1> QED
  BY <1>1, <1>2, <1>3, <1>4, <1>5, <1>6, <1>7, <1>8, <1>9 DEF Next, AddEvent

(***************************************************************************)
(* The invariant of the log holds in every reachable state, whatever the   *)
(* threads, failures and restarts of add_event do.                         *)
(***************************************************************************)
THEOREM LogInvariant == Spec => []LogInv
<1>1. Init => LogInv
  BY LogInvInit
<1>2. LogInv /\ [Next]_vars => LogInv'
  BY TypeStep, LockStep, RefStep, IdStep, QueueStep DEF LogInv
<1> QED
  BY <1>1, <1>2, PTL DEF Spec

(***************************************************************************)
(* Type correctness of the stream's state.                                 *)
(***************************************************************************)
THEOREM TypeCorrect == Spec => []TypeOK
<1>1. LogInv => TypeOK
  BY DEF LogInv
<1> QED
  BY <1>1, LogInvariant, PTL

(***************************************************************************)
(* add_event persists before it publishes: what subscribers are handed can *)
(* be read back, for any threads, failures and restarts.                   *)
(***************************************************************************)
THEOREM PersistedBeforePublished == Spec => []PersistBeforePublish
<1>1. LogInv => PersistBeforePublish
  BY DEF LogInv, QueueInv
<1> QED
  BY <1>1, LogInvariant, PTL

(***************************************************************************)
(* No id is put on the queue twice.                                        *)
(***************************************************************************)
THEOREM IdsPublishedOnce == Spec => []PublishedOnce
<1>1. LogInv => PublishedOnce
  BY DEF LogInv, QueueInv
<1> QED
  BY <1>1, LogInvariant, PTL

(***************************************************************************)
(* What a step of add_event, or a restart, does to files and queue.        *)
(***************************************************************************)
LEMMA FilesAndQueueStep ==
    ASSUME LogInv, [Next]_vars
    PROVE  \/ UNCHANGED <<files, queue>>
           \/ \E t \in Threads :
                 /\ mine[t].id \in 0 .. MaxAdds /\ mine[t].content \in Contents
                 /\ mine[t].id \notin DOMAIN files
                 /\ files' = Write(files, mine[t].id, mine[t].content)
                 /\ UNCHANGED queue
           \/ \E t \in Threads :
                 /\ mine[t].id \in 0 .. MaxAdds
                 /\ mine[t].id \in DOMAIN files
                 /\ \A k \in 1 .. Len(queue) : queue[k].id # mine[t].id
                 /\ queue' = Append(queue, [id |-> mine[t].id,
                                            content |-> files[mine[t].id]])
                 /\ UNCHANGED files
           \/ queue' = <<>> /\ UNCHANGED files
<1>0. IdInv /\ QueueInv /\ TypeOK
  BY DEF LogInv
<1>a. ASSUME NEW t \in Threads, pc[t] \in {"write", "page", "put"}
      PROVE  mine[t].id \in 0 .. MaxAdds /\ mine[t].content \in Contents
  BY <1>0, <1>a, SizesAssumption DEF IdInv, TypeOK
<1>1. ASSUME NEW t \in Threads, AddEventWriteFile(t)
      PROVE  /\ mine[t].id \in 0 .. MaxAdds /\ mine[t].content \in Contents
             /\ mine[t].id \notin DOMAIN files
             /\ files' = Write(files, mine[t].id, mine[t].content)
             /\ UNCHANGED queue
  BY <1>0, <1>1, <1>a DEF AddEventWriteFile, Goto, IdInv
<1>2. ASSUME NEW t \in Threads, AddEventPut(t)
      PROVE  /\ mine[t].id \in 0 .. MaxAdds
             /\ mine[t].id \in DOMAIN files
             /\ \A k \in 1 .. Len(queue) : queue[k].id # mine[t].id
             /\ queue' = Append(queue, [id |-> mine[t].id,
                                        content |-> files[mine[t].id]])
             /\ UNCHANGED files
  <2>1. pc[t] = "put"
    BY <1>2 DEF AddEventPut, Goto
  <2>2. files[mine[t].id] = mine[t].content /\ mine[t].id \in DOMAIN files
    BY <1>0, <2>1 DEF IdInv
  <2>3. /\ queue' = Append(queue, [id |-> mine[t].id, content |-> mine[t].content])
        /\ UNCHANGED files
    BY <1>2 DEF AddEventPut
  <2>4. \A k \in 1 .. Len(queue) : queue[k].id # mine[t].id
    BY <1>0, <2>1 DEF QueueInv
  <2> QED
    BY <1>a, <2>1, <2>2, <2>3, <2>4
<1>3. ASSUME Restart PROVE queue' = <<>> /\ UNCHANGED files
  BY <1>3 DEF Restart
<1>4. ASSUME NEW t \in Threads,
             \/ AddEventTakeId(t) \/ AddEventToPage(t) \/ AddEventSerializeFails(t)
             \/ StoreCachePage(t) \/ AddEventWriteFails(t)
      PROVE  UNCHANGED <<files, queue>>
  BY <1>4 DEF AddEventTakeId, AddEventToPage, AddEventSerializeFails,
              StoreCachePage, AddEventWriteFails
<1>5. ASSUME UNCHANGED vars PROVE UNCHANGED <<files, queue>>
  BY <1>5 DEF vars
<1> QED
  BY <1>1, <1>2, <1>3, <1>4, <1>5, Zenon DEF Next, AddEvent

(***************************************************************************)
(* An event file is never rewritten or lost.                               *)
(***************************************************************************)
THEOREM FilesWrittenOnce == Spec => WriteOnce
<1> DEFINE Kept == \A i \in DOMAIN files : i \in DOMAIN files' /\ files'[i] = files[i]
<1>1. LogInv /\ [Next]_vars => [Kept]_files
  <2> SUFFICES ASSUME LogInv, [Next]_vars, files' # files PROVE Kept
    OBVIOUS
  <2>1. PICK t \in Threads :
          /\ mine[t].id \notin DOMAIN files
          /\ files' = Write(files, mine[t].id, mine[t].content)
    BY FilesAndQueueStep
  <2> QED
    BY <2>1 DEF Write
<1> QED
  BY <1>1, LogInvariant, PTL DEF Spec, WriteOnce

(***************************************************************************)
(* EventStream implements EventLog: every step of add_event is a step of   *)
(* the write-once log or leaves it alone.                                  *)
(***************************************************************************)
THEOREM Refinement == Spec => ImplementsEventLog
<1>1. Init => Log!Init
  BY DEF Init, Log!Init
<1>2. LogInv /\ [Next]_vars => [Log!Next]_(Log!vars)
  <2> SUFFICES ASSUME LogInv, [Next]_vars PROVE [Log!Next]_(Log!vars)
    OBVIOUS
  <2>1. ASSUME NEW t \in Threads,
               mine[t].id \in 0 .. MaxAdds, mine[t].content \in Contents,
               mine[t].id \notin DOMAIN files,
               files' = Write(files, mine[t].id, mine[t].content),
               UNCHANGED queue
        PROVE  Log!Persist(mine[t].id, mine[t].content)
    BY <2>1 DEF Log!Persist, Write
  <2>2. ASSUME NEW t \in Threads,
               mine[t].id \in DOMAIN files,
               \A k \in 1 .. Len(queue) : queue[k].id # mine[t].id,
               queue' = Append(queue, [id |-> mine[t].id,
                                       content |-> files[mine[t].id]]),
               UNCHANGED files
        PROVE  Log!Publish(mine[t].id)
    BY <2>2 DEF Log!Publish
  <2>3. ASSUME queue' = <<>>, UNCHANGED files PROVE Log!Restart
    BY <2>3 DEF Log!Restart
  <2> QED
    BY FilesAndQueueStep, <2>1, <2>2, <2>3, Zenon DEF Log!Next, Log!vars
<1> QED
  BY <1>1, <1>2, LogInvariant, PTL DEF Spec, ImplementsEventLog, Log!Spec

-----------------------------------------------------------------------------
(***************************************************************************)
(* The pages.  AppendToLast is the effect of the critical section on the   *)
(* page lists, for the thread that holds the lock.                         *)
(***************************************************************************)
LEMMA AppendToLast ==
    ASSUME LogInv, ShapeInv, NEW t \in Threads, AddEventToPage(t)
    PROVE  \E q \in Seq(Entry) :
             /\ Len(q) = Len(pages[Len(pages)]) + 1
             /\ \A k \in 1 .. Len(q) - 1 : q[k] = pages[Len(pages)][k]
             /\ q[Len(q)] = [id |-> curId, content |-> mine[t].content]
             /\ \A n \in 1 .. Len(pages) - 1 : pages'[n] = pages[n]
             /\ pages'[Len(pages)] = q
             /\ IF Len(q) = CacheSize
                 THEN Len(pages') = Len(pages) + 1 /\ pages'[Len(pages) + 1] = <<>>
                 ELSE Len(pages') = Len(pages)
<1> DEFINE e == [id |-> mine[t].id, content |-> mine[t].content]
           q == Append(pages[mine[t].page], e)
           kept == [pages EXCEPT ![mine[t].page] = q]
<1>1. pc[t] = "locked"
  BY DEF AddEventToPage, Goto
<1>2. mine[t].page = Len(pages) /\ mine[t].id = curId
  BY <1>1 DEF ShapeInv, LogInv, IdInv
<1>3. e \in Entry
  BY <1>1 DEF LogInv, TypeOK, IdInv, Entry
<1>4. pages \in Seq(Seq(Entry)) /\ Len(pages) \in Nat /\ Len(pages) >= 1
  BY DEF LogInv, TypeOK, RefInv
<1>5. pages[Len(pages)] \in Seq(Entry)
  BY <1>4
<1>6. /\ q \in Seq(Entry)
      /\ Len(q) = Len(pages[Len(pages)]) + 1
      /\ \A k \in 1 .. Len(q) - 1 : q[k] = pages[Len(pages)][k]
      /\ q[Len(q)] = e
  BY <1>2, <1>3, <1>5
<1>7. pages' = IF Len(q) = CacheSize THEN Append(kept, <<>>) ELSE kept
  BY DEF AddEventToPage
<1> HIDE DEF q
<1>8. /\ kept \in Seq(Seq(Entry))
      /\ Len(kept) = Len(pages)
      /\ \A n \in 1 .. Len(pages) - 1 : kept[n] = pages[n]
      /\ kept[Len(pages)] = q
  BY <1>2, <1>4, <1>6
<1> HIDE DEF kept
<1>9. /\ \A n \in 1 .. Len(pages) - 1 : pages'[n] = pages[n]
      /\ pages'[Len(pages)] = q
      /\ IF Len(q) = CacheSize
          THEN Len(pages') = Len(pages) + 1 /\ pages'[Len(pages) + 1] = <<>>
          ELSE Len(pages') = Len(pages)
  BY <1>4, <1>7, <1>8
<1> QED
  BY <1>2, <1>6, <1>9

\* Pages stay full but for the last, with consecutive ids, when no id is skipped.
LEMMA ShapeStep ==
    ASSUME LogInv, ShapeInv, [Next]_vars, "serialize" \notin Fails
    PROVE  ShapeInv'
<1>0. /\ LockInv /\ RefInv /\ curId \in Nat /\ pages \in Seq(Seq(Entry))
      /\ CacheSize \in Nat \ {0} /\ NoThread \notin Threads
      /\ pc \in [Threads -> {"idle", "locked", "write", "page", "put"}]
      /\ mine \in [Threads -> [id : Nat, content : Nat, page : Nat]]
  BY SizesAssumption, ThreadsAssumption DEF LogInv, TypeOK
<1>1. ASSUME NEW t \in Threads, AddEventTakeId(t) PROVE ShapeInv'
  <2>1. UNCHANGED <<pages, curId>>
    BY <1>1 DEF AddEventTakeId
  <2>2. \A u \in Threads : pc'[u] = "locked" => mine'[u].page = Len(pages)
    <3>1. lock = NoThread /\ pc' = [pc EXCEPT ![t] = "locked"]
      BY <1>1 DEF AddEventTakeId, Goto
    <3>2. mine'[t].page = Len(pages)
      BY <1>0, <1>1 DEF AddEventTakeId
    <3> QED
      BY <1>0, <3>1, <3>2 DEF LockInv
  <2> QED
    BY <2>1, <2>2 DEF ShapeInv
<1>2. ASSUME NEW t \in Threads, AddEventToPage(t) PROVE ShapeInv'
  <2> DEFINE P == Len(pages)
             p == pages[P]
  <2>1. PICK q \in Seq(Entry) :
             /\ Len(q) = Len(p) + 1
             /\ \A k \in 1 .. Len(q) - 1 : q[k] = p[k]
             /\ q[Len(q)] = [id |-> curId, content |-> mine[t].content]
             /\ \A n \in 1 .. P - 1 : pages'[n] = pages[n]
             /\ pages'[P] = q
             /\ IF Len(q) = CacheSize
                 THEN Len(pages') = P + 1 /\ pages'[P + 1] = <<>>
                 ELSE Len(pages') = P
    BY <1>2, AppendToLast
  <2>2. curId' = curId + 1
    BY <1>2 DEF AddEventToPage
  <2>3. P \in Nat /\ P >= 1 /\ p \in Seq(Entry) /\ Len(p) \in Nat
    BY <1>0 DEF RefInv
  <2>4. Len(p) < CacheSize
    BY DEF ShapeInv
  <2>5. /\ \A k \in 1 .. Len(q) : q[k].id = q[1].id + k - 1 /\ q[k].id < curId'
        /\ q[1].id + Len(q) = curId'
    <3>1. q[Len(q)].id = curId
      BY <2>1
    <3>2. CASE Len(p) = 0
      <4>1. Len(q) = 1
        BY <2>1, <3>2
      <4> QED
        BY <1>0, <2>2, <3>1, <4>1
    <3>3. CASE Len(p) > 0
      <4>1. p[1].id + Len(p) = curId
        BY <3>3 DEF ShapeInv
      <4>2. \A k \in 1 .. Len(p) : p[k].id = p[1].id + k - 1 /\ p[k].id < curId
        BY <2>3 DEF ShapeInv
      <4>3. q[1] = p[1] /\ \A k \in 1 .. Len(p) : q[k] = p[k]
        BY <2>1, <2>3, <3>3
      <4>4. p[1] \in Entry
        BY <2>3, <3>3
      <4>5. p[1].id \in Nat
        BY <4>4 DEF Entry
      <4>6. Len(q) = Len(p) + 1
        BY <2>1
      <4>7. \A k \in 1 .. Len(q) : k \in 1 .. Len(p) \/ k = Len(q)
        BY <2>3, <4>6
      <4> HIDE DEF p
      <4>8. \A k \in 1 .. Len(p) : q[k].id = q[1].id + k - 1 /\ q[k].id < curId + 1
        <5> SUFFICES ASSUME NEW k \in 1 .. Len(p)
                     PROVE  q[k].id = q[1].id + k - 1 /\ q[k].id < curId + 1
          OBVIOUS
        <5> DEFINE a == p[k].id
                   b == p[1].id
        <5>1. q[k].id = a /\ q[1].id = b
          BY <4>3
        <5>2. a = b + k - 1 /\ a < curId /\ b \in Nat /\ k \in Nat /\ curId \in Nat
          BY <1>0, <2>3, <4>2, <4>5
        <5> HIDE DEF a, b
        <5>3. a < curId + 1
          BY <5>2
        <5> QED
          BY <5>1, <5>2, <5>3
      <4>9. q[1].id + Len(q) = curId + 1 /\ q[Len(q)].id = q[1].id + Len(q) - 1
        <5> DEFINE b == p[1].id
                   m == Len(p)
        <5>1. q[1].id = b /\ Len(q) = m + 1 /\ b + m = curId
          BY <4>1, <4>3, <4>6
        <5>2. b \in Nat /\ m \in Nat
          BY <2>3, <4>5
        <5> HIDE DEF b, m
        <5>3. b + (m + 1) = curId + 1 /\ curId = b + (m + 1) - 1
          BY <5>1, <5>2
        <5> QED
          BY <3>1, <5>1, <5>3
      <4> QED
        BY <1>0, <2>2, <3>1, <4>7, <4>8, <4>9
    <3> QED
      BY <2>3, <3>2, <3>3
  <2>6. \A n \in 1 .. P - 1 :
          /\ Len(pages[n]) = CacheSize
          /\ \A k \in 1 .. Len(pages[n]) :
               pages[n][k].id = pages[n][1].id + k - 1 /\ pages[n][k].id < curId'
    <3>1. ASSUME NEW n \in 1 .. P - 1, NEW k \in 1 .. Len(pages[n])
          PROVE  pages[n][k].id = pages[n][1].id + k - 1 /\ pages[n][k].id < curId
      <4>1. n \in 1 .. Len(pages)
        BY <2>3
      <4>2. \A j \in 1 .. Len(pages) : \A i \in 1 .. Len(pages[j]) :
              pages[j][i].id = pages[j][1].id + i - 1 /\ pages[j][i].id < curId
        BY Zenon DEF ShapeInv
      <4> QED
        BY <4>1, <4>2, Zenon
    <3>2. ASSUME NEW n \in 1 .. P - 1, NEW k \in 1 .. Len(pages[n])
          PROVE  pages[n][k].id \in Nat
      <4>1. pages[n] \in Seq(Entry)
        BY <1>0, <2>3
      <4>2. pages[n][k] \in Entry
        BY <4>1
      <4> QED
        BY <4>2 DEF Entry
    <3>3. \A n \in 1 .. P - 1 : Len(pages[n]) = CacheSize
      BY <2>3 DEF ShapeInv
    <3>4. \A x \in Nat : x < curId => x < curId'
      BY <1>0, <2>2
    <3> HIDE DEF P
    <3> QED
      BY <3>1, <3>2, <3>3, <3>4
  <2>7. \A u \in Threads : pc'[u] # "locked"
    <3>1. pc[t] = "locked" /\ pc' = [pc EXCEPT ![t] = "write"]
      BY <1>2 DEF AddEventToPage, Goto
    <3> QED
      BY <1>0, <3>1 DEF LockInv
  <2>8. CASE Len(q) = CacheSize
    <3>1. Len(pages') = P + 1 /\ pages'[P + 1] = <<>>
      BY <2>1, <2>8
    <3>2. \A n \in 1 .. Len(pages') : n \in 1 .. P - 1 \/ n = P \/ n = P + 1
      BY <2>3, <3>1
    <3>3. Len(pages'[P + 1]) = 0
      BY <3>1
    <3>4. \A n \in 1 .. Len(pages') : n < Len(pages') => Len(pages'[n]) = CacheSize
      BY <2>1, <2>3, <2>6, <2>8, <3>1, <3>2
    <3>5. \A n \in 1 .. Len(pages') : \A k \in 1 .. Len(pages'[n]) :
            pages'[n][k].id = pages'[n][1].id + k - 1 /\ pages'[n][k].id < curId'
      <4> SUFFICES ASSUME NEW n \in 1 .. Len(pages'), NEW k \in 1 .. Len(pages'[n])
                   PROVE  pages'[n][k].id = pages'[n][1].id + k - 1 /\ pages'[n][k].id < curId'
        OBVIOUS
      <4>1. CASE n \in 1 .. P - 1
        <5>1. pages'[n] = pages[n]
          BY <2>1, <4>1
        <5> HIDE DEF P
        <5> QED
          BY <2>6, <4>1, <5>1
      <4>2. CASE n = P
        BY <2>1, <2>5, <4>2
      <4>3. CASE n = P + 1
        BY <3>3, <4>3
      <4> QED
        BY <3>2, <4>1, <4>2, <4>3
    <3>6. Len(pages'[Len(pages')]) = 0
      BY <3>1, <3>3
    <3> HIDE DEF P, p
    <3> QED
      BY <1>0, <2>7, <3>4, <3>5, <3>6, SMTT(30) DEF ShapeInv
  <2>9. CASE Len(q) # CacheSize
    <3>1. Len(pages') = P /\ Len(q) < CacheSize
      BY <1>0, <2>1, <2>3, <2>4, <2>9
    <3>2. \A n \in 1 .. Len(pages') : n \in 1 .. P - 1 \/ n = P
      BY <2>3, <3>1
    <3>3. \A n \in 1 .. Len(pages') : n < Len(pages') => Len(pages'[n]) = CacheSize
      BY <2>1, <2>3, <2>6, <3>1, <3>2
    <3>4. \A n \in 1 .. Len(pages') : \A k \in 1 .. Len(pages'[n]) :
            pages'[n][k].id = pages'[n][1].id + k - 1 /\ pages'[n][k].id < curId'
      <4> SUFFICES ASSUME NEW n \in 1 .. Len(pages'), NEW k \in 1 .. Len(pages'[n])
                   PROVE  pages'[n][k].id = pages'[n][1].id + k - 1 /\ pages'[n][k].id < curId'
        OBVIOUS
      <4>1. CASE n \in 1 .. P - 1
        <5>1. pages'[n] = pages[n]
          BY <2>1, <4>1
        <5> HIDE DEF P
        <5> QED
          BY <2>6, <4>1, <5>1
      <4>2. CASE n = P
        BY <2>1, <2>5, <4>2
      <4> QED
        BY <3>2, <4>1, <4>2
    <3>5. /\ Len(pages'[Len(pages')]) < CacheSize
          /\ pages'[Len(pages')][1].id + Len(pages'[Len(pages')]) = curId'
      BY <2>1, <2>5, <3>1
    <3> HIDE DEF P, p
    <3> QED
      BY <2>7, <3>3, <3>4, <3>5 DEF ShapeInv
  <2> QED
    BY <2>8, <2>9
<1>3. ASSUME NEW t \in Threads,
             AddEventWriteFile(t) \/ StoreCachePage(t) \/ AddEventWriteFails(t) \/ AddEventPut(t)
      PROVE  ShapeInv'
  <2>1. UNCHANGED <<pages, curId, mine>>
    BY <1>3 DEF AddEventWriteFile, StoreCachePage, AddEventWriteFails, AddEventPut
  <2>2. \A u \in Threads : pc'[u] = "locked" => pc[u] = "locked"
    BY <1>0, <1>3 DEF AddEventWriteFile, StoreCachePage, AddEventWriteFails, AddEventPut, Goto
  <2> QED
    BY <2>1, <2>2 DEF ShapeInv
<1>4. ASSUME Restart PROVE ShapeInv'
  <2>1. pages' = <<<<>>>> /\ \A u \in Threads : pc'[u] = "idle"
    BY <1>4 DEF Restart
  <2>2. Len(pages') = 1 /\ Len(pages'[1]) = 0
    BY <2>1
  <2> QED
    BY <1>0, <2>1, <2>2 DEF ShapeInv
<1>5. ASSUME UNCHANGED vars PROVE ShapeInv'
  BY <1>5 DEF ShapeInv, vars
<1>6. ASSUME NEW t \in Threads, AddEventSerializeFails(t) PROVE FALSE
  BY <1>6 DEF AddEventSerializeFails
<1> QED
  BY <1>1, <1>2, <1>3, <1>4, <1>5, <1>6 DEF Next, AddEvent

(***************************************************************************)
(* What a step does to the page files: they stay, or a full page with      *)
(* consecutive ids is written under its first id.                          *)
(***************************************************************************)
LEMMA PageFilesStep ==
    ASSUME LogInv, ShapeInv, [Next]_vars
    PROVE  \/ UNCHANGED pageFiles
           \/ \E n \in 1 .. Len(pages) :
                 /\ Len(pages[n]) = CacheSize
                 /\ \A k \in 1 .. CacheSize : pages[n][k].id = pages[n][1].id + k - 1
                 /\ pageFiles' = Write(pageFiles, pages[n][1].id, pages[n])
<1>1. ASSUME NEW t \in Threads, StoreCachePage(t), pageFiles' # pageFiles
      PROVE  \E n \in 1 .. Len(pages) :
                 /\ Len(pages[n]) = CacheSize
                 /\ \A k \in 1 .. CacheSize : pages[n][k].id = pages[n][1].id + k - 1
                 /\ pageFiles' = Write(pageFiles, pages[n][1].id, pages[n])
  <2> DEFINE n == mine[t].page
  <2>1. n \in 1 .. Len(pages) /\ pages \in Seq(Seq(Entry)) /\ CacheSize \in Nat
    BY <1>1, SizesAssumption DEF LogInv, RefInv, TypeOK, StoreCachePage, Goto
  <2>2. ~(Len(pages[n]) < CacheSize) /\ pageFiles' = Write(pageFiles, pages[n][1].id, pages[n])
    BY <1>1 DEF StoreCachePage
  <2>3. Len(pages[n]) = CacheSize
    <3>1. n = Len(pages) \/ n < Len(pages)
      BY <2>1
    <3> QED
      BY <2>1, <2>2, <3>1 DEF ShapeInv
  <2>4. \A k \in 1 .. CacheSize : pages[n][k].id = pages[n][1].id + k - 1
    BY <2>1, <2>3 DEF ShapeInv
  <2> QED
    BY <2>1, <2>2, <2>3, <2>4
<1>2. ASSUME NEW t \in Threads,
             \/ AddEventTakeId(t) \/ AddEventToPage(t) \/ AddEventSerializeFails(t)
             \/ AddEventWriteFile(t) \/ AddEventWriteFails(t) \/ AddEventPut(t)
      PROVE  UNCHANGED pageFiles
  BY <1>2 DEF AddEventTakeId, AddEventToPage, AddEventSerializeFails,
              AddEventWriteFile, AddEventWriteFails, AddEventPut
<1>3. ASSUME Restart \/ UNCHANGED vars PROVE UNCHANGED pageFiles
  BY <1>3 DEF Restart, vars
<1> QED
  BY <1>1, <1>2, <1>3, Zenon DEF Next, AddEvent

\* Every stored page stays indexable.
LEMMA PositionsStep ==
    ASSUME LogInv, ShapeInv, PagePositions, [Next]_vars
    PROVE  PagePositions'
<1>1. CASE UNCHANGED pageFiles
  BY <1>1 DEF PagePositions
<1>2. ASSUME NEW n \in 1 .. Len(pages),
             Len(pages[n]) = CacheSize,
             \A k \in 1 .. CacheSize : pages[n][k].id = pages[n][1].id + k - 1,
             pageFiles' = Write(pageFiles, pages[n][1].id, pages[n])
      PROVE  PagePositions'
  BY <1>2 DEF PagePositions, Write
<1> QED
  BY <1>1, <1>2, PageFilesStep

(***************************************************************************)
(* The page files can be indexed by id, as _CachePage.get_event does, as   *)
(* long as serialising an event inside the lock does not raise.            *)
(***************************************************************************)
THEOREM PagesIndexable ==
    ASSUME "serialize" \notin Fails
    PROVE  Spec => []PagePositions
<1>1. Init => ShapeInv /\ PagePositions
  BY SizesAssumption DEF Init, ShapeInv, PagePositions
<1>2. LogInv /\ ShapeInv /\ PagePositions /\ [Next]_vars => ShapeInv' /\ PagePositions'
  BY ShapeStep, PositionsStep
<1> QED
  BY <1>1, <1>2, LogInvariant, PTL DEF Spec

(***************************************************************************)
(* Coherence of pages and files in one life of the process.                *)
(***************************************************************************)
\* Agrees(e) and e.id < curId, after a step, for the entry e of the state before.
AgreesNext(e) ==
    /\ e.id \in DOMAIN files' => files'[e.id] = e.content
    /\ \A t \in Threads :
          pc'[t] = "write" /\ mine'[t].id = e.id => e.content = mine'[t].content
    /\ e.id < curId'

\* An entry that is below cur_id keeps agreeing with the files and the writers.
LEMMA AgreesStep ==
    ASSUME LogInv, Next, crashes' = crashes,
           NEW e \in Entry, e.id < curId, Agrees(e)
    PROVE  AgreesNext(e)
<1>0. /\ IdInv /\ curId \in Nat /\ e.id \in Nat /\ crashes \in Nat
      /\ pc \in [Threads -> {"idle", "locked", "write", "page", "put"}]
      /\ mine \in [Threads -> [id : Nat, content : Nat, page : Nat]]
  BY SizesAssumption DEF LogInv, TypeOK, Entry
<1> USE DEF Goto, Agrees, AgreesNext
<1>1. ASSUME NEW t \in Threads, AddEventTakeId(t) PROVE AgreesNext(e)
  BY <1>0, <1>1 DEF AddEventTakeId
<1>2. ASSUME NEW t \in Threads, AddEventToPage(t) PROVE AgreesNext(e)
  <2>1. /\ pc[t] = "locked" /\ pc' = [pc EXCEPT ![t] = "write"]
        /\ curId' = curId + 1 /\ UNCHANGED <<files, mine>>
    BY <1>2 DEF AddEventToPage
  <2>2. mine[t].id # e.id
    BY <1>0, <2>1 DEF IdInv
  <2> QED
    BY <1>0, <2>1, <2>2
<1>3. ASSUME NEW t \in Threads, AddEventSerializeFails(t) PROVE AgreesNext(e)
  BY <1>0, <1>3 DEF AddEventSerializeFails
<1>4. ASSUME NEW t \in Threads, AddEventWriteFile(t) PROVE AgreesNext(e)
  BY <1>0, <1>4 DEF AddEventWriteFile, Write
<1>5. ASSUME NEW t \in Threads,
             StoreCachePage(t) \/ AddEventWriteFails(t) \/ AddEventPut(t)
      PROVE  AgreesNext(e)
  BY <1>0, <1>5 DEF StoreCachePage, AddEventWriteFails, AddEventPut
<1>6. ASSUME Restart PROVE FALSE
  BY <1>0, <1>6 DEF Restart
<1> QED
  BY <1>1, <1>2, <1>3, <1>4, <1>5, <1>6 DEF Next, AddEvent

\* The entry that the critical section appends agrees with its own writer.
LEMMA AgreesNew ==
    ASSUME LogInv, NEW t \in Threads, AddEventToPage(t)
    PROVE  AgreesNext([id |-> curId, content |-> mine[t].content])
<1>1. /\ pc[t] = "locked" /\ pc' = [pc EXCEPT ![t] = "write"]
      /\ curId' = curId + 1 /\ UNCHANGED <<files, mine>>
  BY DEF AddEventToPage, Goto
<1>2. mine[t].id = curId /\ curId \notin DOMAIN files /\ curId \in Nat
  BY <1>1 DEF LogInv, TypeOK, IdInv
<1>3. \A u \in Threads : pc'[u] = "write" /\ mine[u].id = curId => u = t
  <2>1. \A u \in Threads : pc'[u] = "write" => pc[u] # "idle"
    BY <1>1 DEF LogInv, TypeOK
  <2> QED
    BY <1>1, <1>2, <2>1 DEF LogInv, IdInv
<1> QED
  BY <1>1, <1>2, <1>3 DEF AgreesNext

\* add_event does not restart the process.
LEMMA AddingIsNoCrash == ASSUME NEW t \in Threads, AddEvent(t) PROVE crashes' = crashes
  BY DEF AddEvent, AddEventTakeId, AddEventToPage, AddEventSerializeFails,
         AddEventWriteFile, StoreCachePage, AddEventWriteFails, AddEventPut

\* Every entry of the new pages and page files was one before, or is the new one.
LEMMA CoherenceStep ==
    ASSUME LogInv, ShapeInv, CoherenceInv, [Next]_vars, crashes' = crashes
    PROVE  CoherenceInv'
<1>0. /\ pages \in Seq(Seq(Entry)) /\ Len(pages) >= 1
      /\ \A s \in DOMAIN pageFiles : pageFiles[s] \in Seq(Entry)
  BY DEF LogInv, TypeOK, RefInv
<1>1. CASE UNCHANGED vars
  BY <1>1 DEF CoherenceInv, Agrees, vars
<1>2. CASE Next
  <2>1. ASSUME NEW n \in 1 .. Len(pages), NEW k \in 1 .. Len(pages[n])
        PROVE  AgreesNext(pages[n][k])
    <3>1. pages[n] \in Seq(Entry)
      BY <1>0
    <3>2. pages[n][k] \in Entry
      BY <3>1
    <3>3. pages[n][k].id < curId /\ Agrees(pages[n][k])
      BY DEF ShapeInv, CoherenceInv
    <3> QED
      BY <1>2, <3>2, <3>3, AgreesStep
  <2>2. ASSUME NEW s \in DOMAIN pageFiles, NEW k \in 1 .. Len(pageFiles[s])
        PROVE  AgreesNext(pageFiles[s][k])
    <3>1. pageFiles[s] \in Seq(Entry)
      BY <1>0
    <3>2. pageFiles[s][k] \in Entry
      BY <3>1
    <3>3. pageFiles[s][k].id < curId /\ Agrees(pageFiles[s][k])
      BY DEF CoherenceInv
    <3> QED
      BY <1>2, <3>2, <3>3, AgreesStep
  <2>3. ASSUME NEW n \in 1 .. Len(pages'), NEW k \in 1 .. Len(pages'[n])
        PROVE  AgreesNext(pages'[n][k])
    <3>1. CASE UNCHANGED pages
      BY <2>1, <3>1
    <3>2. ASSUME NEW t \in Threads, AddEventToPage(t) PROVE AgreesNext(pages'[n][k])
      <4> DEFINE P == Len(pages)
                 p == pages[P]
      <4>1. PICK q \in Seq(Entry) :
               /\ Len(q) = Len(p) + 1
               /\ \A j \in 1 .. Len(q) - 1 : q[j] = p[j]
               /\ q[Len(q)] = [id |-> curId, content |-> mine[t].content]
               /\ \A j \in 1 .. P - 1 : pages'[j] = pages[j]
               /\ pages'[P] = q
               /\ IF Len(q) = CacheSize
                   THEN Len(pages') = P + 1 /\ pages'[P + 1] = <<>>
                   ELSE Len(pages') = P
        BY <3>2, AppendToLast
      <4>2. P \in Nat /\ P >= 1 /\ p \in Seq(Entry) /\ Len(p) \in Nat
        BY <1>0
      <4>3. CASE n \in 1 .. P - 1
        <5>1. pages'[n] = pages[n] /\ n \in 1 .. P
          BY <4>1, <4>2, <4>3
        <5> QED
          BY <2>1, <5>1
      <4>4. CASE n = P
        <5>1. CASE k \in 1 .. Len(p)
          <6>1. pages'[n][k] = p[k]
            BY <4>1, <4>2, <4>4, <5>1
          <6>2. AgreesNext(p[k])
            BY <2>1, <4>2, <5>1
          <6> QED
            BY <6>1, <6>2
        <5>2. CASE k = Len(q)
          <6>1. pages'[n][k] = [id |-> curId, content |-> mine[t].content]
            BY <4>1, <4>4, <5>2
          <6> QED
            BY <3>2, <6>1, AgreesNew
        <5>3. k \in 1 .. Len(p) \/ k = Len(q)
          BY <4>1, <4>2, <4>4
        <5> QED
          BY <5>1, <5>2, <5>3
      <4>5. CASE n = P + 1
        <5>1. Len(pages'[n]) = 0
          BY <4>1, <4>2, <4>5
        <5> QED
          BY <5>1
      <4>6. n \in 1 .. P - 1 \/ n = P \/ n = P + 1
        BY <4>1, <4>2
      <4> QED
        BY <4>3, <4>4, <4>5, <4>6
    <3>3. ~Restart
      BY SizesAssumption DEF LogInv, TypeOK, Restart
    <3> QED
      BY <1>2, <3>1, <3>2, <3>3 DEF Next, AddEvent, AddEventTakeId,
           AddEventSerializeFails, AddEventWriteFile, StoreCachePage,
           AddEventWriteFails, AddEventPut
  <2>4. ASSUME NEW s \in DOMAIN pageFiles', NEW k \in 1 .. Len(pageFiles'[s])
        PROVE  AgreesNext(pageFiles'[s][k])
    <3>1. CASE UNCHANGED pageFiles
      BY <2>2, <3>1
    <3>2. ASSUME NEW n \in 1 .. Len(pages),
                 pageFiles' = Write(pageFiles, pages[n][1].id, pages[n])
          PROVE  AgreesNext(pageFiles'[s][k])
      <4>1. \/ pageFiles'[s] = pages[n]
            \/ s \in DOMAIN pageFiles /\ pageFiles'[s] = pageFiles[s]
        BY <3>2 DEF Write
      <4> QED
        BY <2>1, <2>2, <4>1
    <3> QED
      BY <3>1, <3>2, PageFilesStep
  <2> QED
    BY <2>3, <2>4 DEF CoherenceInv, Agrees, AgreesNext
<1> QED
  BY <1>1, <1>2

(***************************************************************************)
(* While the process lives, a stored page never contradicts an event file: *)
(* search_events answers the same with and without its cache.              *)
(***************************************************************************)
THEOREM PagesAgreeWithFiles ==
    ASSUME "serialize" \notin Fails, MaxCrashes = 0
    PROVE  Spec => []PagesCoherent
<1>1. Init => ShapeInv /\ CoherenceInv
  BY SizesAssumption DEF Init, ShapeInv, CoherenceInv
<1>2. LogInv /\ ShapeInv /\ CoherenceInv /\ [Next]_vars => ShapeInv' /\ CoherenceInv'
  <2>1. ASSUME LogInv, Next PROVE crashes' = crashes
    <3>1. ~Restart
      BY <2>1, SizesAssumption DEF LogInv, TypeOK, Restart
    <3> QED BY <2>1, <3>1, AddingIsNoCrash DEF Next
  <2>2. ASSUME LogInv, [Next]_vars PROVE crashes' = crashes
    BY <2>1, <2>2 DEF vars
  <2> QED BY <2>2, ShapeStep, CoherenceStep
<1>3. CoherenceInv => PagesCoherent
  BY DEF CoherenceInv, Agrees, PagesCoherent
<1> QED
  BY <1>1, <1>2, <1>3, LogInvariant, PTL DEF Spec

-----------------------------------------------------------------------------
(***************************************************************************)
(* search_events returns exactly what was asked for, for any number of     *)
(* searches and writers, any arguments and any page size: the proof of     *)
(* SearchExact.  An event that was read once stays right: what a reader    *)
(* holds, in the page it loaded or in what it yielded, is only compared    *)
(* with events that never change any more, so that the writers' steps do   *)
(* not disturb it, however old the page is.                                *)
(***************************************************************************)

\* The events that a page or a file may show: they are below cur_id and agree
\* with the file of their id, written or about to be written.
Good == {e \in Entry : e.id < curId /\ Agrees(e)}

NoSearch == [limit |-> NoLimit]

HeldPage == [events : Seq(Entry), start : Int, end : Int]

Reader ==
    [pc : {"idle", "scan", "done"}, q : Searches \cup {NoSearch}, lo : Nat, hi : Nat,
     index : Int, page : HeldPage, out : Seq(Entry), before : SUBSET Nat]

\* A page that is not empty is full of good events, each one at its offset.
PageHeld(page, good) ==
    page.events # <<>> =>
        /\ page.end = page.start + CacheSize
        /\ Len(page.events) = CacheSize
        /\ \A k \in 1 .. CacheSize :
              page.events[k].id = page.start + k - 1 /\ page.events[k] \in good

\* The ids that the loop has tried.
Passed(s, i) == IF s.q.reverse THEN s.index < i ELSE i < s.index

\* The range is the one asked for, and the loop does not leave it at its beginning.
RangeOK(s) ==
    /\ s.q \in Searches
    /\ s.lo = s.q.start
    /\ s.q.end # NoEnd => s.hi = s.q.end + 1
    /\ IF s.q.reverse THEN s.index < s.hi ELSE s.lo <= s.index

\* What was yielded was tried, wanted, and is a good event.
Yielded(s, good) ==
    \A k \in 1 .. Len(s.out) :
        /\ Wanted(s, s.out[k].id) /\ s.out[k].content \in s.q.filter
        /\ s.out[k] \in good
        /\ Passed(s, s.out[k].id)

Ordered(s) ==
    \A j, k \in 1 .. Len(s.out) :
        j < k => IF s.q.reverse THEN s.out[j].id > s.out[k].id ELSE s.out[j].id < s.out[k].id

\* What was there in the beginning, is wanted and was tried, was yielded.
Found(s, disk) ==
    \A i \in s.before :
        /\ i \in DOMAIN disk
        /\ s.q.end = NoEnd => i < s.hi
        /\ Wanted(s, i) /\ disk[i] \in s.q.filter /\ Passed(s, i) =>
              \E k \in 1 .. Len(s.out) : s.out[k].id = i

\* A search ends at the end of its range, or just behind the last event of its limit.
Stopped(s) ==
    /\ s.pc = "scan" => s.q.limit = NoLimit \/ Len(s.out) < s.q.limit
    /\ s.q.limit = NoLimit \/ Len(s.out) <= s.q.limit
    /\ s.pc = "done" =>
          \/ ~ InRange(s)
          \/ /\ s.q.limit # NoLimit /\ Len(s.out) = s.q.limit
             /\ s.index = IF s.q.reverse THEN s.out[Len(s.out)].id - 1
                                         ELSE s.out[Len(s.out)].id + 1

ReaderOK(s, good, disk) ==
    /\ s \in Reader
    /\ s.pc = "idle" => s.out = <<>> /\ s.q = NoSearch
    /\ s.pc # "idle" =>
          /\ RangeOK(s) /\ PageHeld(s.page, good)
          /\ Yielded(s, good) /\ Ordered(s) /\ Found(s, disk) /\ Stopped(s)

StreamInv == LogInv /\ ShapeInv /\ PagePositions /\ CoherenceInv

SearchInv ==
    /\ StreamInv
    /\ rd \in [Readers -> Reader]
    /\ \A r \in Readers : ReaderOK(rd[r], Good, files)

-----------------------------------------------------------------------------
(***************************************************************************)
(* The writers.                                                            *)
(***************************************************************************)
\* A step of add_event keeps the stream's invariants.
LEMMA StreamStep ==
    ASSUME StreamInv, NEW t \in Threads, AddEvent(t), "serialize" \notin Fails
    PROVE  StreamInv'
<1>1. [Next]_vars /\ crashes' = crashes
  BY AddingIsNoCrash DEF Next
<1>2. LogInv'
  BY <1>1, TypeStep, LockStep, RefStep, IdStep, QueueStep DEF StreamInv, LogInv
<1>3. ShapeInv'
  BY <1>1, ShapeStep DEF StreamInv
<1>4. PagePositions'
  BY <1>1, PositionsStep DEF StreamInv
<1>5. CoherenceInv'
  BY <1>1, CoherenceStep DEF StreamInv
<1> QED BY <1>2, <1>3, <1>4, <1>5 DEF StreamInv

\* A good event stays one, whatever is written.
LEMMA GoodStays ==
    ASSUME StreamInv, NEW t \in Threads, AddEvent(t)
    PROVE  Good \subseteq Good'
<1> SUFFICES ASSUME NEW e \in Good PROVE e \in Good'
  OBVIOUS
<1>1. e \in Entry /\ e.id < curId /\ Agrees(e)
  BY DEF Good
<1>2. Next /\ crashes' = crashes
  BY AddingIsNoCrash DEF Next
<1>3. AgreesNext(e)
  BY <1>1, <1>2, AgreesStep DEF StreamInv
<1> QED BY <1>1, <1>3 DEF Good, AgreesNext, Agrees

\* An event file stays as it is.
LEMMA FilesStay ==
    ASSUME StreamInv, NEW t \in Threads, AddEvent(t)
    PROVE  \A i \in DOMAIN files : i \in DOMAIN files' /\ files'[i] = files[i]
<1>1. [Next]_vars
  BY DEF Next
<1>2. LogInv
  BY DEF StreamInv
<1> QED BY <1>1, <1>2, FilesAndQueueStep DEF Write

\* What a reader holds is right after that as it was before.
LEMMA ReaderStays ==
    ASSUME NEW s, NEW good, NEW disk, ReaderOK(s, good, disk),
           NEW more, good \subseteq more,
           NEW later, \A i \in DOMAIN disk : i \in DOMAIN later /\ later[i] = disk[i]
    PROVE  ReaderOK(s, more, later)
<1>1. PageHeld(s.page, good) => PageHeld(s.page, more)
  BY DEF PageHeld
<1>2. Yielded(s, good) => Yielded(s, more)
  BY DEF Yielded
<1>3. Found(s, disk) => Found(s, later)
  BY DEF Found
<1> QED BY <1>1, <1>2, <1>3 DEF ReaderOK

\* A step of add_event leaves every search right.
LEMMA WriterKeeps ==
    ASSUME SearchInv, NEW t \in Threads, AddEvent(t), UNCHANGED rd, "serialize" \notin Fails
    PROVE  SearchInv'
<1>1. StreamInv'
  BY StreamStep DEF SearchInv
<1>2. /\ Good \subseteq Good'
      /\ \A i \in DOMAIN files : i \in DOMAIN files' /\ files'[i] = files[i]
  BY GoodStays, FilesStay DEF SearchInv
<1>3. ASSUME NEW r \in Readers PROVE ReaderOK(rd[r], Good', files')
  <2>1. ReaderOK(rd[r], Good, files)
    BY DEF SearchInv
  <2> QED BY <1>2, <2>1, ReaderStays
<1> QED BY <1>1, <1>3 DEF SearchInv

-----------------------------------------------------------------------------
(***************************************************************************)
(* The readers.                                                            *)
(***************************************************************************)
\* The arguments of a search.
LEMMA SearchFields ==
    ASSUME NEW q \in Searches
    PROVE  /\ q.start \in Nat /\ q.end \in Nat \cup {NoEnd} /\ q.reverse \in BOOLEAN
           /\ q.limit \in Nat /\ q.filter \subseteq Contents
  BY SearchesAssumption

\* The types of what a reader holds.
LEMMA ReaderFields ==
    ASSUME NEW s \in Reader
    PROVE  /\ s.pc \in {"idle", "scan", "done"} /\ s.lo \in Nat /\ s.hi \in Nat
           /\ s.index \in Int /\ s.page \in HeldPage /\ s.out \in Seq(Entry)
           /\ s.before \subseteq Nat
  BY DEF Reader

\* What holds of the entry at a place of a sequence of entries.
LEMMA EntryAt ==
    ASSUME NEW out \in Seq(Entry), NEW k \in 1 .. Len(out)
    PROVE  out[k].id \in Nat /\ out[k].content \in Contents
<1>1. out[k] \in Entry
  OBVIOUS
<1> QED BY <1>1 DEF Entry

\* What the remainder by the page size is.
LEMMA Remainder ==
    ASSUME NEW i \in Nat, NEW c \in Nat \ {0}
    PROVE  i % c \in Nat /\ i % c < c
  OBVIOUS

\* The first id of a page, and the page's end, enclose the index.
LEMMA FirstOfPage ==
    ASSUME NEW i \in Nat, NEW c \in Nat, NEW m \in Nat, m < c
    PROVE  i - m \in Int /\ i - m <= i /\ i < i - m + c
  OBVIOUS

\* _load_cache_page_for_index: the page covers the index, and holds good events.
LEMMA LoadedPage ==
    ASSUME StreamInv, NEW i \in Nat
    PROVE  LET page == LoadCachePageForIndex(i)
           IN  page \in HeldPage /\ Covers(page, i) /\ PageHeld(page, Good)
<1> DEFINE page == LoadCachePageForIndex(i)
           first == i - (i % CacheSize)
           evs == IF first \in DOMAIN pageFiles THEN pageFiles[first] ELSE <<>>
<1>1. CacheSize \in Nat \ {0}
  BY SizesAssumption
<1>2. i % CacheSize \in Nat /\ i % CacheSize < CacheSize
  BY <1>1, Remainder
<1>3. first \in Int /\ first <= i /\ i < first + CacheSize
  BY <1>1, <1>2, FirstOfPage
<1>4. page = [events |-> evs, start |-> first, end |-> first + CacheSize]
  BY DEF LoadCachePageForIndex
<1> HIDE DEF page, first
<1>5. evs \in Seq(Entry)
  <2>1. \A x \in DOMAIN pageFiles : pageFiles[x] \in Seq(Entry)
    BY DEF StreamInv, LogInv, TypeOK
  <2> QED BY <2>1
<1>6. evs # <<>> =>
        /\ Len(evs) = CacheSize
        /\ \A k \in 1 .. CacheSize : evs[k].id = first + k - 1 /\ evs[k] \in Good
  <2> SUFFICES ASSUME evs # <<>>
               PROVE  /\ Len(evs) = CacheSize
                      /\ \A k \in 1 .. CacheSize : evs[k].id = first + k - 1 /\ evs[k] \in Good
    OBVIOUS
  <2>1. first \in DOMAIN pageFiles /\ evs = pageFiles[first]
    OBVIOUS
  <2> HIDE DEF evs
  <2>2. Len(evs) = CacheSize /\ \A k \in 1 .. CacheSize : evs[k].id = first + k - 1
    BY <2>1 DEF StreamInv, PagePositions
  <2>3. \A k \in 1 .. Len(evs) : evs[k].id < curId /\ Agrees(evs[k])
    BY <2>1 DEF StreamInv, CoherenceInv
  <2>4. \A k \in 1 .. Len(evs) : evs[k] \in Entry
    BY <1>5
  <2> QED BY <2>2, <2>3, <2>4 DEF Good
<1> HIDE DEF evs
<1>7. page \in HeldPage
  BY <1>1, <1>3, <1>4, <1>5 DEF HeldPage
<1>8. Covers(page, i)
  BY <1>3, <1>4 DEF Covers
<1>9. PageHeld(page, Good)
  BY <1>4, <1>6 DEF PageHeld
<1> QED BY <1>7, <1>8, <1>9 DEF page

\* The offset of an index in the page that covers it.
LEMMA Offset ==
    ASSUME NEW i \in Nat, NEW a \in Int, NEW c \in Nat, a <= i, i < a + c
    PROVE  i - a + 1 \in 1 .. c /\ a + (i - a + 1) - 1 = i
  OBVIOUS

\* The event at an index is a good one, whether it comes from the page or from the
\* file, and there is one if there is a file.
LEMMA LookedUp ==
    ASSUME StreamInv, NEW i \in Nat, NEW page \in HeldPage, Covers(page, i), PageHeld(page, Good)
    PROVE  \/ Lookup(page, i) = <<>> /\ i \notin DOMAIN files
           \/ \E e \in Good : /\ e.id = i /\ Lookup(page, i) = <<e>>
                              /\ i \in DOMAIN files => files[i] = e.content
<1>1. CASE page.events # <<>>
  <2> DEFINE k == i - page.start + 1
             e == page.events[k]
  <2>1. page.end = page.start + CacheSize /\ page.start \in Int /\ CacheSize \in Nat
    BY <1>1, SizesAssumption DEF PageHeld, HeldPage
  <2>2. page.start <= i /\ i < page.start + CacheSize
    BY <2>1 DEF Covers
  <2>3. k \in 1 .. CacheSize /\ page.start + k - 1 = i
    BY <2>1, <2>2, Offset
  <2>4. Lookup(page, i) = <<e>>
    BY <1>1 DEF Lookup
  <2> HIDE DEF k
  <2>5. e.id = i /\ e \in Good
    BY <1>1, <2>3 DEF PageHeld
  <2> HIDE DEF e
  <2>6. i \in DOMAIN files => files[i] = e.content
    BY <2>5 DEF Good, Agrees
  <2> QED BY <2>4, <2>5, <2>6
<1>2. CASE page.events = <<>> /\ i \in DOMAIN files
  <2> DEFINE e == [id |-> i, content |-> files[i]]
  <2>1. Lookup(page, i) = <<e>>
    BY <1>2 DEF Lookup
  <2>2. e.id = i /\ e.content = files[i]
    OBVIOUS
  <2>3. e \in Entry
    BY <1>2 DEF Entry, StreamInv, LogInv, TypeOK
  <2> HIDE DEF e
  <2>4. i < curId /\ \A t \in Threads : pc[t] = "write" => mine[t].id # i
    BY <1>2 DEF StreamInv, LogInv, IdInv
  <2>5. e \in Good
    BY <2>2, <2>3, <2>4 DEF Good, Agrees
  <2> QED BY <2>1, <2>2, <2>5
<1>3. CASE page.events = <<>> /\ i \notin DOMAIN files
  BY <1>3 DEF Lookup
<1> QED BY <1>1, <1>2, <1>3

\* The reader after a turn of the loop.
Turned(s, page, out, place) ==
    [s EXCEPT !.page = page, !.out = out, !.index = NextIndex(s, TRUE), !.pc = place]

\* What a turn changes of a reader, and what it leaves.
LEMMA TurnedFields ==
    ASSUME NEW s \in Reader, NEW page \in HeldPage, NEW out \in Seq(Entry),
           NEW place \in {"scan", "done"}
    PROVE  LET v == Turned(s, page, out, place)
           IN  /\ v \in Reader /\ v.q = s.q /\ v.lo = s.lo /\ v.hi = s.hi
               /\ v.before = s.before /\ v.page = page /\ v.out = out /\ v.pc = place
               /\ v.index = IF s.q.reverse THEN s.index - 1 ELSE s.index + 1
<1>1. NextIndex(s, TRUE) \in Int
  BY ReaderFields DEF NextIndex
<1> DEFINE v == Turned(s, page, out, place)
<1>2. v \in Reader
  BY <1>1 DEF Turned, Reader
<1>3. /\ v.q = s.q /\ v.lo = s.lo /\ v.hi = s.hi /\ v.before = s.before
      /\ v.page = page /\ v.out = out /\ v.pc = place /\ v.index = NextIndex(s, TRUE)
  BY DEF Turned, Reader
<1> QED BY <1>2, <1>3 DEF NextIndex

\* One more id is passed.
LEMMA PassedOn ==
    ASSUME NEW s \in Reader, NEW v \in Reader, v.q = s.q,
           v.index = IF s.q.reverse THEN s.index - 1 ELSE s.index + 1
    PROVE  /\ \A i \in Nat : Passed(v, i) <=> Passed(s, i) \/ i = s.index
           /\ ~ Passed(s, s.index)
<1>1. s.index \in Int /\ v.index \in Int
  BY ReaderFields
<1> QED BY <1>1 DEF Passed

\* A turn leaves the range as it was.
LEMMA RangeOn ==
    ASSUME NEW s \in Reader, NEW v \in Reader, RangeOK(s), InRange(s),
           v.q = s.q, v.lo = s.lo, v.hi = s.hi,
           v.index = IF s.q.reverse THEN s.index - 1 ELSE s.index + 1
    PROVE  RangeOK(v)
<1>1. s.index \in Int /\ s.lo \in Nat /\ s.hi \in Nat
  BY ReaderFields
<1> QED BY <1>1 DEF RangeOK, InRange

\* An id of the range is wanted.
LEMMA InRangeIsWanted ==
    ASSUME NEW s \in Reader, RangeOK(s), InRange(s)
    PROVE  s.index \in Nat /\ Wanted(s, s.index)
<1>1. /\ s.index \in Int /\ s.lo \in Nat /\ s.hi \in Nat /\ s.q.start \in Nat
      /\ s.q.end \in Nat \cup {NoEnd}
  BY ReaderFields, SearchFields DEF RangeOK
<1> QED BY <1>1 DEF RangeOK, InRange, Wanted

\* A turn that yields nothing: there is no file yet, or the filter refuses it.
LEMMA TurnWithout ==
    ASSUME NEW s, NEW good, NEW disk, ReaderOK(s, good, disk), s.pc = "scan", InRange(s),
           NEW page \in HeldPage, PageHeld(page, good),
           s.index \in DOMAIN disk => disk[s.index] \notin s.q.filter
    PROVE  ReaderOK(Turned(s, page, s.out, "scan"), good, disk)
<1> DEFINE v == Turned(s, page, s.out, "scan")
<1>1. /\ s \in Reader /\ RangeOK(s) /\ Yielded(s, good) /\ Ordered(s)
      /\ Found(s, disk) /\ Stopped(s)
  BY DEF ReaderOK
<1>2. s.out \in Seq(Entry) /\ s.before \subseteq Nat /\ s.index \in Int
  BY <1>1, ReaderFields
<1>3. /\ v \in Reader /\ v.q = s.q /\ v.lo = s.lo /\ v.hi = s.hi
      /\ v.before = s.before /\ v.page = page /\ v.out = s.out /\ v.pc = "scan"
      /\ v.index = IF s.q.reverse THEN s.index - 1 ELSE s.index + 1
  BY <1>1, <1>2, TurnedFields
<1> HIDE DEF v
<1>4. \A i \in Nat : Passed(v, i) <=> Passed(s, i) \/ i = s.index
  BY <1>1, <1>3, PassedOn
<1>5. RangeOK(v)
  BY <1>1, <1>3, RangeOn
<1>6. Yielded(v, good)
  <2>1. \A k \in 1 .. Len(s.out) : s.out[k].id \in Nat
    BY <1>2, EntryAt
  <2> QED BY <1>1, <1>3, <1>4, <2>1 DEF Yielded, Wanted
<1>7. Ordered(v)
  BY <1>1, <1>3 DEF Ordered
<1>8. Found(v, disk)
  <2> SUFFICES ASSUME NEW i \in s.before
               PROVE  /\ i \in DOMAIN disk
                      /\ v.q.end = NoEnd => i < v.hi
                      /\ Wanted(v, i) /\ disk[i] \in v.q.filter /\ Passed(v, i) =>
                            \E k \in 1 .. Len(v.out) : v.out[k].id = i
    BY <1>3 DEF Found
  <2>1. /\ i \in DOMAIN disk /\ (s.q.end = NoEnd => i < s.hi)
        /\ Wanted(s, i) /\ disk[i] \in s.q.filter /\ Passed(s, i) =>
              \E k \in 1 .. Len(s.out) : s.out[k].id = i
    BY <1>1 DEF Found
  <2>2. Passed(v, i) => Passed(s, i) \/ i = s.index
    BY <1>2, <1>4
  <2>3. Wanted(v, i) => Wanted(s, i)
    BY <1>3 DEF Wanted
  <2> QED BY <1>3, <2>1, <2>2, <2>3
<1>9. Stopped(v)
  BY <1>1, <1>3 DEF Stopped
<1> QED BY <1>3, <1>5, <1>6, <1>7, <1>8, <1>9 DEF ReaderOK, v

\* The results with one more.
LEMMA OneMore ==
    ASSUME NEW out \in Seq(Entry), NEW e \in Entry
    PROVE  /\ Append(out, e) \in Seq(Entry) /\ Len(out) \in Nat
           /\ Len(Append(out, e)) = Len(out) + 1
           /\ Append(out, e)[Len(out) + 1] = e
           /\ \A k \in 1 .. Len(out) : Append(out, e)[k] = out[k]
           /\ \A k \in 1 .. Len(out) + 1 : k \in 1 .. Len(out) \/ k = Len(out) + 1
           /\ \A j, k \in 1 .. Len(out) + 1 : j < k => j \in 1 .. Len(out)
  OBVIOUS

\* A turn that yields the event at the index: it comes behind all that were yielded.
LEMMA TurnWith ==
    ASSUME NEW s, NEW good \in SUBSET Entry, NEW disk, ReaderOK(s, good, disk),
           s.pc = "scan", InRange(s),
           NEW page \in HeldPage, PageHeld(page, good),
           NEW e \in good, e.id = s.index, e.content \in s.q.filter
    PROVE  LET out == Append(s.out, e)
               place == IF Enough(s, Len(out)) THEN "done" ELSE "scan"
           IN  ReaderOK(Turned(s, page, out, place), good, disk)
<1> DEFINE out == Append(s.out, e)
           place == IF Enough(s, Len(out)) THEN "done" ELSE "scan"
           v == Turned(s, page, out, place)
           n == Len(s.out)
<1>1. /\ s \in Reader /\ RangeOK(s) /\ Yielded(s, good) /\ Ordered(s)
      /\ Found(s, disk) /\ Stopped(s)
  BY DEF ReaderOK
<1>2. s.out \in Seq(Entry) /\ s.before \subseteq Nat /\ s.index \in Int
  BY <1>1, ReaderFields
<1>3. /\ out \in Seq(Entry) /\ n \in Nat /\ Len(out) = n + 1 /\ out[n + 1] = e
      /\ \A k \in 1 .. n : out[k] = s.out[k]
      /\ \A k \in 1 .. n + 1 : k \in 1 .. n \/ k = n + 1
      /\ \A j, k \in 1 .. n + 1 : j < k => j \in 1 .. n
  BY <1>2, OneMore
<1>4. place \in {"scan", "done"} /\ (place = "done" <=> Enough(s, n + 1))
  BY <1>3
<1> HIDE DEF out, place, n
<1>5. /\ v \in Reader /\ v.q = s.q /\ v.lo = s.lo /\ v.hi = s.hi
      /\ v.before = s.before /\ v.page = page /\ v.out = out /\ v.pc = place
      /\ v.index = IF s.q.reverse THEN s.index - 1 ELSE s.index + 1
  BY <1>1, <1>3, <1>4, TurnedFields
<1> HIDE DEF v
<1>6. /\ \A i \in Nat : Passed(v, i) <=> Passed(s, i) \/ i = s.index
      /\ ~ Passed(s, s.index)
  BY <1>1, <1>5, PassedOn
<1>7. RangeOK(v)
  BY <1>1, <1>5, RangeOn
<1>8. s.index \in Nat /\ Wanted(s, s.index)
  BY <1>1, InRangeIsWanted
<1>9. \A k \in 1 .. n : s.out[k].id \in Nat
  BY <1>2, EntryAt DEF n
<1>10. Yielded(v, good)
  <2> SUFFICES ASSUME NEW k \in 1 .. n + 1
               PROVE  /\ Wanted(v, out[k].id) /\ out[k].content \in v.q.filter
                      /\ out[k] \in good /\ Passed(v, out[k].id)
    BY <1>3, <1>5 DEF Yielded
  <2>1. CASE k = n + 1
    BY <1>3, <1>5, <1>6, <1>8, <2>1 DEF Wanted
  <2>2. CASE k \in 1 .. n
    <3>1. /\ Wanted(s, s.out[k].id) /\ s.out[k].content \in s.q.filter
          /\ s.out[k] \in good /\ Passed(s, s.out[k].id)
      BY <1>1, <2>2 DEF Yielded, n
    <3> QED BY <1>3, <1>5, <1>6, <1>9, <2>2, <3>1 DEF Wanted
  <2> QED BY <1>3, <2>1, <2>2
<1>11. Ordered(v)
  <2> SUFFICES ASSUME NEW j \in 1 .. n + 1, NEW k \in 1 .. n + 1, j < k
               PROVE  IF s.q.reverse THEN out[j].id > out[k].id ELSE out[j].id < out[k].id
    BY <1>3, <1>5 DEF Ordered
  <2>1. j \in 1 .. n /\ out[j] = s.out[j]
    BY <1>3
  <2>2. CASE k \in 1 .. n
    BY <1>1, <1>3, <2>1, <2>2 DEF Ordered, n
  <2>3. CASE k = n + 1
    <3>1. Passed(s, s.out[j].id)
      BY <1>1, <2>1 DEF Yielded, n
    <3> QED BY <1>2, <1>3, <1>9, <2>1, <2>3, <3>1 DEF Passed
  <2> QED BY <1>3, <2>2, <2>3
<1>12. Found(v, disk)
  <2> SUFFICES ASSUME NEW i \in s.before
               PROVE  /\ i \in DOMAIN disk
                      /\ v.q.end = NoEnd => i < v.hi
                      /\ Wanted(v, i) /\ disk[i] \in v.q.filter /\ Passed(v, i) =>
                            \E k \in 1 .. n + 1 : out[k].id = i
    BY <1>3, <1>5 DEF Found
  <2>1. /\ i \in DOMAIN disk /\ (s.q.end = NoEnd => i < s.hi)
        /\ Wanted(s, i) /\ disk[i] \in s.q.filter /\ Passed(s, i) =>
              \E k \in 1 .. n : s.out[k].id = i
    BY <1>1 DEF Found, n
  <2>2. Passed(v, i) => Passed(s, i) \/ i = s.index
    BY <1>2, <1>6
  <2>3. Wanted(v, i) => Wanted(s, i)
    BY <1>5 DEF Wanted
  <2>4. n + 1 \in 1 .. n + 1 /\ \A k \in 1 .. n : k \in 1 .. n + 1
    BY <1>3
  <2>5. CASE i = s.index
    BY <1>3, <1>5, <2>1, <2>4, <2>5
  <2>6. CASE i # s.index
    BY <1>3, <1>5, <2>1, <2>2, <2>3, <2>4, <2>6
  <2> QED BY <2>5, <2>6
<1>13. Stopped(v)
  <2>1. s.q.limit \in Nat
    BY <1>1, SearchFields DEF RangeOK
  <2>2. s.q.limit = NoLimit \/ n < s.q.limit
    BY <1>1 DEF Stopped, n
  <2>3. place = "scan" => s.q.limit = NoLimit \/ n + 1 < s.q.limit
    BY <1>3, <1>4, <2>1 DEF Enough
  <2>4. s.q.limit = NoLimit \/ n + 1 <= s.q.limit
    BY <1>3, <2>1, <2>2
  <2>5. place = "done" => s.q.limit # NoLimit /\ n + 1 = s.q.limit
    BY <1>3, <1>4, <2>1, <2>2 DEF Enough
  <2>6. v.index = IF v.q.reverse THEN out[Len(out)].id - 1 ELSE out[Len(out)].id + 1
    BY <1>3, <1>5
  <2> QED BY <1>3, <1>5, <2>3, <2>4, <2>5, <2>6 DEF Stopped
<1>14. v.pc # "idle"
  BY <1>4, <1>5
<1> QED BY <1>5, <1>7, <1>10, <1>11, <1>12, <1>13, <1>14 DEF ReaderOK, v, out, place

\* The readers do not touch the stream.
LEMMA StreamUnchanged ==
    ASSUME StreamInv, UNCHANGED vars
    PROVE  StreamInv' /\ Good' = Good /\ files' = files
<1> USE DEF vars
<1>1. LogInv'
  BY DEF StreamInv, LogInv, TypeOK, LockInv, RefInv, IdInv, QueueInv,
         PersistBeforePublish, PublishedOnce
<1>2. ShapeInv' /\ PagePositions'
  BY DEF StreamInv, ShapeInv, PagePositions
<1>3. CoherenceInv'
  BY DEF StreamInv, CoherenceInv, Agrees
<1>4. Good' = Good
  BY DEF Good, Agrees
<1> QED BY <1>1, <1>2, <1>3, <1>4 DEF StreamInv

\* A step of one reader.
LEMMA OneReader ==
    ASSUME SearchInv, NEW r \in Readers, NEW v \in Reader, ReaderOK(v, Good, files),
           rd' = [rd EXCEPT ![r] = v], UNCHANGED vars
    PROVE  SearchInv'
<1>1. StreamInv' /\ Good' = Good /\ files' = files
  BY StreamUnchanged DEF SearchInv
<1>2. rd' \in [Readers -> Reader] /\ \A x \in Readers : rd'[x] = IF x = r THEN v ELSE rd[x]
  BY DEF SearchInv
<1>3. \A x \in Readers : ReaderOK(rd'[x], Good, files)
  BY <1>2 DEF SearchInv
<1> QED BY <1>1, <1>2, <1>3 DEF SearchInv

\* The head of search_events.
LEMMA BeginKeeps ==
    ASSUME SearchInv, NEW r \in Readers, NEW q \in Searches, SearchBegin(r, q)
    PROVE  SearchInv'
<1> DEFINE hi == IF q.end = NoEnd THEN curId ELSE q.end + 1
           v == [pc |-> "scan", q |-> q, lo |-> q.start, hi |-> hi,
                 index |-> IF q.reverse THEN hi - 1 ELSE q.start,
                 page |-> DummyPage, out |-> <<>>, before |-> DOMAIN files]
<1>1. rd' = [rd EXCEPT ![r] = v] /\ UNCHANGED vars
  BY DEF SearchBegin
<1>2. /\ q.start \in Nat /\ q.end \in Nat \cup {NoEnd} /\ q.reverse \in BOOLEAN
      /\ q.limit \in Nat
  BY SearchFields
<1>3. curId \in Nat /\ DOMAIN files \subseteq Nat /\ \A i \in DOMAIN files : i < curId
  BY DEF SearchInv, StreamInv, LogInv, TypeOK, IdInv
<1>4. hi \in Nat /\ (q.end = NoEnd => hi = curId) /\ (q.end # NoEnd => hi = q.end + 1)
  BY <1>2, <1>3
<1> HIDE DEF hi
<1>5. DummyPage \in HeldPage /\ PageHeld(DummyPage, Good)
  BY DEF DummyPage, HeldPage, PageHeld
<1>6. hi - 1 \in Int /\ hi - 1 < hi /\ q.start \in Int
  BY <1>2, <1>4
<1>7. v \in Reader
  BY <1>2, <1>3, <1>4, <1>5, <1>6 DEF Reader
<1>8. /\ v.pc = "scan" /\ v.q = q /\ v.lo = q.start /\ v.hi = hi /\ v.page = DummyPage
      /\ v.out = <<>> /\ v.before = DOMAIN files
      /\ v.index = IF q.reverse THEN hi - 1 ELSE q.start
  OBVIOUS
<1> HIDE DEF v
<1>9. RangeOK(v)
  BY <1>2, <1>4, <1>6, <1>8 DEF RangeOK
<1>10. Len(v.out) = 0 /\ \A k \in 1 .. Len(v.out) : FALSE
  BY <1>8
<1>11. Yielded(v, Good) /\ Ordered(v)
  BY <1>10 DEF Yielded, Ordered
<1>12. Found(v, files)
  <2> SUFFICES ASSUME NEW i \in DOMAIN files, Wanted(v, i) PROVE ~ Passed(v, i)
    BY <1>3, <1>4, <1>8 DEF Found
  <2>1. q.start <= i /\ i < hi /\ i \in Nat
    BY <1>2, <1>3, <1>4, <1>8 DEF Wanted
  <2> QED BY <1>2, <1>4, <1>8, <2>1 DEF Passed
<1>13. Stopped(v)
  BY <1>2, <1>8, <1>10 DEF Stopped, NoLimit
<1>14. ReaderOK(v, Good, files)
  BY <1>5, <1>7, <1>8, <1>9, <1>11, <1>12, <1>13 DEF ReaderOK
<1> QED BY <1>1, <1>7, <1>14, OneReader

\* One turn of the loop over range(start_id, end_id, step).
LEMMA StepKeeps ==
    ASSUME SearchInv, NEW r \in Readers, SearchStep(r)
    PROVE  SearchInv'
<1> DEFINE s == rd[r]
           page == IF Covers(s.page, s.index) THEN s.page ELSE LoadCachePageForIndex(s.index)
           event == Lookup(page, s.index)
           out == IF event # <<>> /\ event[1].content \in s.q.filter
                    THEN Append(s.out, event[1]) ELSE s.out
           place == IF out # s.out /\ Enough(s, Len(out)) THEN "done" ELSE "scan"
<1>1. /\ s.pc = "scan" /\ InRange(s) /\ UNCHANGED vars
      /\ rd' = [rd EXCEPT ![r] = Turned(s, page, out, place)]
  BY DEF SearchStep, Turned, NextIndex
<1>2. ReaderOK(s, Good, files) /\ StreamInv
  BY DEF SearchInv
<1>3. s \in Reader /\ RangeOK(s) /\ PageHeld(s.page, Good)
  BY <1>1, <1>2 DEF ReaderOK
<1> HIDE DEF s
<1>4. s.index \in Nat /\ s.page \in HeldPage /\ s.out \in Seq(Entry)
  BY <1>1, <1>3, InRangeIsWanted, ReaderFields
<1>5. page \in HeldPage /\ Covers(page, s.index) /\ PageHeld(page, Good)
  <2>1. CASE Covers(s.page, s.index)
    BY <1>3, <1>4, <2>1
  <2>2. CASE ~ Covers(s.page, s.index)
    <3> DEFINE loaded == LoadCachePageForIndex(s.index)
    <3>1. loaded \in HeldPage /\ Covers(loaded, s.index) /\ PageHeld(loaded, Good)
      BY <1>2, <1>4, LoadedPage
    <3> HIDE DEF loaded
    <3>2. page = loaded
      BY <2>2 DEF loaded
    <3> QED BY <3>1, <3>2
  <2> QED BY <2>1, <2>2
<1> HIDE DEF page
<1>6. \/ event = <<>> /\ s.index \notin DOMAIN files
      \/ \E e \in Good : /\ e.id = s.index /\ event = <<e>>
                         /\ s.index \in DOMAIN files => files[s.index] = e.content
  BY <1>2, <1>4, <1>5, LookedUp
<1> HIDE DEF event
<1>7. ReaderOK(Turned(s, page, out, place), Good, files)
  <2>1. CASE event = <<>> /\ s.index \notin DOMAIN files
    <3>1. out = s.out /\ place = "scan"
      BY <2>1
    <3> HIDE DEF out, place
    <3>2. ReaderOK(Turned(s, page, s.out, "scan"), Good, files)
      BY <1>1, <1>2, <1>5, <2>1, TurnWithout
    <3> QED BY <3>1, <3>2
  <2>2. ASSUME NEW e \in Good, e.id = s.index, event = <<e>>,
               s.index \in DOMAIN files => files[s.index] = e.content
        PROVE  ReaderOK(Turned(s, page, out, place), Good, files)
    <3>1. event # <<>> /\ event[1] = e
      BY <2>2
    <3>2. CASE e.content \notin s.q.filter
      <4>1. out = s.out /\ place = "scan"
        BY <3>1, <3>2
      <4> HIDE DEF out, place
      <4>2. ReaderOK(Turned(s, page, s.out, "scan"), Good, files)
        BY <1>1, <1>2, <1>5, <2>2, <3>2, TurnWithout
      <4> QED BY <4>1, <4>2
    <3>3. CASE e.content \in s.q.filter
      <4> DEFINE more == Append(s.out, e)
                 next == IF Enough(s, Len(more)) THEN "done" ELSE "scan"
      <4>1. Good \subseteq Entry
        BY DEF Good
      <4>2. Len(more) # Len(s.out)
        BY <1>4, <4>1, OneMore
      <4>3. out = more
        BY <3>1, <3>3
      <4>4. place = next
        BY <4>2, <4>3
      <4> HIDE DEF out, place
      <4>5. ReaderOK(Turned(s, page, more, next), Good, files)
        BY <1>1, <1>2, <1>5, <2>2, <3>3, <4>1, TurnWith
      <4> HIDE DEF more, next
      <4> QED BY <4>3, <4>4, <4>5
    <3> QED BY <3>2, <3>3
  <2> QED BY <1>6, <2>1, <2>2
<1> HIDE DEF out, place
<1>8. Turned(s, page, out, place) \in Reader
  BY <1>7 DEF ReaderOK
<1> QED BY <1>1, <1>7, <1>8, OneReader

\* The range is exhausted.
LEMMA EndKeeps ==
    ASSUME SearchInv, NEW r \in Readers, SearchEnd(r)
    PROVE  SearchInv'
<1> DEFINE s == rd[r]
           v == [s EXCEPT !.pc = "done"]
<1>1. s.pc = "scan" /\ ~ InRange(s) /\ UNCHANGED vars
  BY DEF SearchEnd
<1>2. rd' = [rd EXCEPT ![r] = v]
  BY DEF SearchEnd
<1>3. s \in Reader /\ ReaderOK(s, Good, files)
  BY DEF SearchInv
<1> HIDE DEF s
<1>4. v \in Reader
  BY <1>3 DEF Reader
<1>5. /\ v.pc = "done" /\ v.q = s.q /\ v.lo = s.lo /\ v.hi = s.hi /\ v.page = s.page
      /\ v.index = s.index /\ v.out = s.out /\ v.before = s.before
  BY <1>3 DEF Reader
<1> HIDE DEF v
<1>6. ReaderOK(v, Good, files)
  <2>1. /\ RangeOK(s) /\ PageHeld(s.page, Good) /\ Yielded(s, Good) /\ Ordered(s)
        /\ Found(s, files) /\ Stopped(s)
    BY <1>1, <1>3 DEF ReaderOK
  <2>2. RangeOK(v) /\ Ordered(v)
    BY <1>5, <2>1 DEF RangeOK, Ordered
  <2>3. Yielded(v, Good) /\ Found(v, files)
    BY <1>5, <2>1 DEF Yielded, Found, Wanted, Passed
  <2>4. Stopped(v)
    BY <1>1, <1>5, <2>1 DEF Stopped, InRange
  <2> QED BY <1>4, <1>5, <2>1, <2>2, <2>3, <2>4 DEF ReaderOK
<1> QED BY <1>1, <1>2, <1>4, <1>6, OneReader

-----------------------------------------------------------------------------
\* No search runs in the beginning.
LEMMA SearchInvInit == SearchInit => SearchInv
<1> SUFFICES ASSUME SearchInit PROVE SearchInv
  OBVIOUS
<1>1. Init /\ rd = [r \in Readers |-> IdleReader]
  BY DEF SearchInit
<1>2. LogInv
  BY <1>1, LogInvInit
<1>3. ShapeInv /\ PagePositions /\ CoherenceInv
  BY <1>1, SizesAssumption DEF Init, ShapeInv, PagePositions, CoherenceInv
<1>4. DummyPage \in HeldPage
  BY DEF DummyPage, HeldPage
<1>5. IdleReader \in Reader
  BY <1>4 DEF IdleReader, Reader, NoSearch
<1>6. IdleReader.pc = "idle" /\ IdleReader.out = <<>> /\ IdleReader.q = NoSearch
  BY DEF IdleReader, NoSearch
<1>7. ReaderOK(IdleReader, Good, files)
  BY <1>5, <1>6 DEF ReaderOK
<1> QED BY <1>1, <1>2, <1>3, <1>5, <1>7 DEF SearchInv, StreamInv

\* Every step keeps the invariant, one case per action.
LEMMA SearchInvNext ==
    ASSUME SearchInv, [SearchNext]_<<vars, rd>>, "serialize" \notin Fails
    PROVE  SearchInv'
<1>1. CASE UNCHANGED <<vars, rd>>
  <2>1. UNCHANGED vars /\ rd' = rd
    BY <1>1
  <2> QED BY <2>1, StreamUnchanged DEF SearchInv
<1>2. ASSUME NEW r \in Readers, NEW q \in Searches, SearchBegin(r, q) PROVE SearchInv'
  BY <1>2, BeginKeeps
<1>3. ASSUME NEW r \in Readers, SearchStep(r) PROVE SearchInv'
  BY <1>3, StepKeeps
<1>4. ASSUME NEW r \in Readers, SearchEnd(r) PROVE SearchInv'
  BY <1>4, EndKeeps
<1>5. ASSUME NEW t \in Threads, AddEvent(t), UNCHANGED rd PROVE SearchInv'
  BY <1>5, WriterKeeps
<1> QED BY <1>1, <1>2, <1>3, <1>4, <1>5 DEF SearchNext

\* What the readers hold is what SearchExact asks for.
LEMMA SearchInvImplies == ASSUME SearchInv PROVE SearchExact
<1>1. SearchSound
  <2> SUFFICES ASSUME NEW r \in Readers
               PROVE  LET s == rd[r]
                      IN  /\ Ordered(s)
                          /\ \A k \in 1 .. Len(s.out) :
                                /\ Wanted(s, s.out[k].id)
                                /\ s.out[k].content \in s.q.filter
                                /\ s.out[k].id \in DOMAIN files =>
                                      files[s.out[k].id] = s.out[k].content
                          /\ s.q.limit = NoLimit \/ Len(s.out) <= s.q.limit
    BY DEF SearchSound, Ordered
  <2> DEFINE s == rd[r]
  <2>1. ReaderOK(s, Good, files)
    BY DEF SearchInv
  <2> HIDE DEF s
  <2>2. CASE s.pc = "idle"
    <3>1. s.out = <<>> /\ s.q.limit = NoLimit
      BY <2>1, <2>2 DEF ReaderOK, NoSearch
    <3>2. Len(s.out) = 0
      BY <3>1
    <3> QED BY <3>1, <3>2 DEF Ordered, s
  <2>3. CASE s.pc # "idle"
    <3>1. Ordered(s) /\ Yielded(s, Good) /\ Stopped(s)
      BY <2>1, <2>3 DEF ReaderOK
    <3>2. \A k \in 1 .. Len(s.out) :
             s.out[k].id \in DOMAIN files => files[s.out[k].id] = s.out[k].content
      BY <3>1 DEF Yielded, Good, Agrees
    <3> QED BY <3>1, <3>2 DEF Yielded, Stopped, s
  <2> QED BY <2>2, <2>3
<1>2. SearchComplete
  <2> SUFFICES ASSUME NEW r \in Readers, rd[r].pc = "done", NEW i \in rd[r].before,
                      Wanted(rd[r], i), files[i] \in rd[r].q.filter
               PROVE  LET s == rd[r]
                      IN  \/ \E k \in 1 .. Len(s.out) : s.out[k].id = i
                          \/ /\ s.q.limit # NoLimit
                             /\ Len(s.out) = s.q.limit
                             /\ IF s.q.reverse THEN i < s.out[Len(s.out)].id
                                               ELSE i > s.out[Len(s.out)].id
    BY DEF SearchComplete, Done
  <2> DEFINE s == rd[r]
  <2>1. ReaderOK(s, Good, files) /\ s.pc = "done" /\ i \in s.before
        /\ Wanted(s, i) /\ files[i] \in s.q.filter
    BY DEF SearchInv
  <2> HIDE DEF s
  <2>2. s \in Reader /\ RangeOK(s) /\ Found(s, files) /\ Stopped(s)
    BY <2>1 DEF ReaderOK
  <2>3. /\ s.lo \in Nat /\ s.hi \in Nat /\ s.index \in Int /\ i \in Nat
        /\ s.out \in Seq(Entry) /\ s.q.limit \in Nat /\ s.q.end \in Nat \cup {NoEnd}
    BY <2>1, <2>2, ReaderFields, SearchFields DEF RangeOK
  <2>4. CASE Passed(s, i)
    BY <2>1, <2>2, <2>4 DEF Found, s
  <2>5. CASE ~ Passed(s, i)
    <3>1. s.lo <= i /\ i < s.hi
      BY <2>1, <2>2, <2>3 DEF Wanted, RangeOK, Found
    <3>2. InRange(s)
      BY <2>2, <2>3, <2>5, <3>1 DEF InRange, Passed, RangeOK
    <3>3. /\ s.q.limit # NoLimit /\ Len(s.out) = s.q.limit
          /\ s.index = IF s.q.reverse THEN s.out[Len(s.out)].id - 1
                                      ELSE s.out[Len(s.out)].id + 1
      BY <2>1, <2>2, <3>2 DEF Stopped
    <3>4. Len(s.out) \in 1 .. Len(s.out)
      BY <2>3, <3>3 DEF NoLimit
    <3>5. s.out[Len(s.out)].id \in Nat
      BY <2>3, <3>4, EntryAt
    <3>6. IF s.q.reverse THEN i < s.out[Len(s.out)].id ELSE i > s.out[Len(s.out)].id
      BY <2>3, <2>5, <3>3, <3>5 DEF Passed
    <3> QED BY <3>3, <3>6 DEF s
  <2> QED BY <2>4, <2>5
<1> QED BY <1>1, <1>2 DEF SearchExact

(***************************************************************************)
(* A search returns exactly what was asked for, whatever writers do and    *)
(* pages they store meanwhile, however many searches run and however the   *)
(* range, the filter, the limit and the direction are chosen.  Pages can   *)
(* be indexed only if serialising an event does not fail (PagesIndexable): *)
(* that is the one hypothesis.                                             *)
(***************************************************************************)
THEOREM SearchIsExact ==
    ASSUME "serialize" \notin Fails
    PROVE  SearchSpec => []SearchExact
<1>1. SearchInv /\ [SearchNext]_<<vars, rd>> => SearchInv'
  BY SearchInvNext
<1>2. SearchInv => SearchExact
  BY SearchInvImplies
<1> QED BY <1>1, <1>2, SearchInvInit, PTL DEF SearchSpec

=============================================================================
