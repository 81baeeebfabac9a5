---------------------------- MODULE EventStream ----------------------------
(***************************************************************************)
(* The writing side of openhands/events/stream.py: EventStream.add_event   *)
(* called by several threads at once (the web server, the controller's     *)
(* pool thread, the runtime's, the memory's), the event files and cache    *)
(* pages it leaves in the FileStore, the queue it hands events to, and a   *)
(* restart of the process, which recomputes cur_id from the files.         *)
(*                                                                         *)
(* add_event is cut where other threads can observe a difference: taking   *)
(* the lock and the id, the critical section, the event file, the cache    *)
(* page, the queue.  One FileStore operation is one step.  An event is its *)
(* id and a content, which is the number of the add_event call that made   *)
(* it, so that two events never have the same content.                     *)
(***************************************************************************)
EXTENDS Naturals, Sequences, FiniteSets, FiniteSetsExt

CONSTANTS
    Threads,     \* threads that call add_event
    NoThread,    \* the lock is free
    CacheSize,   \* EventStore.cache_size, 25 in the code
    MaxAdds,     \* bound on the number of add_event calls
    MaxCrashes,  \* bound on the number of process restarts
    Fails        \* the parts of add_event that may raise

ASSUME ThreadsAssumption == NoThread \notin Threads
ASSUME SizesAssumption ==
    /\ CacheSize \in Nat \ {0}
    /\ MaxAdds \in Nat
    /\ MaxCrashes \in Nat
ASSUME FailsAssumption == Fails \subseteq {"serialize", "write"}

VARIABLES
    files,      \* event files: id -> content
    pageFiles,  \* cache page files: first id -> contents of the page
    curId,      \* EventStore._cur_id
    lock,       \* EventStream._lock
    pages,      \* the page lists; the last one is _write_page_cache
    pc,         \* where each thread is in add_event
    mine,       \* each thread's event and its current_write_page
    queue,      \* EventStream._queue, as everything put on it since the start
    adds,       \* add_event calls so far: also the content of the next event
    crashes     \* restarts so far

vars == <<files, pageFiles, curId, lock, pages, pc, mine, queue, adds, crashes>>

Contents == 1 .. MaxAdds
Entry    == [id : Nat, content : Contents]

(***************************************************************************)
(* _calculate_cur_id: one more than the highest id that has a file.        *)
(* CountFiles, and the other operators commented "mutant", are deliberate  *)
(* mistakes that the properties must notice; no specification uses them.   *)
(***************************************************************************)
\* mutant: the length of the listing is taken for the next id.
CountFiles(ids) == Cardinality(ids)

CalculateCurId(ids) == IF ids = {} THEN 0 ELSE Max(ids) + 1

Init ==
    /\ files = [i \in {} |-> 0]
    /\ pageFiles = [i \in {} |-> <<>>]
    /\ curId = 0
    /\ lock = NoThread
    /\ pages = <<<<>>>>
    /\ pc = [t \in Threads |-> "idle"]
    /\ mine = [t \in Threads |-> [id |-> 0, content |-> 0, page |-> 0]]
    /\ queue = <<>>
    /\ adds = 0
    /\ crashes = 0

Goto(t, from, to) ==
    /\ pc[t] = from
    /\ pc' = [pc EXCEPT ![t] = to]

(***************************************************************************)
(* A partial function with one more (or a changed) argument: what          *)
(* file_store.write does to a directory.                                   *)
(***************************************************************************)
Write(dir, name, contents) ==
    [n \in DOMAIN dir \cup {name} |-> IF n = name THEN contents ELSE dir[n]]

\* mutant: add_event without the lock.
TakeIdWithoutLock(t) ==
    /\ Goto(t, "idle", "locked")
    /\ adds < MaxAdds
    /\ lock' = t
    /\ adds' = adds + 1
    /\ mine' = [mine EXCEPT ![t] =
                  [id |-> curId, content |-> adds + 1, page |-> Len(pages)]]
    /\ UNCHANGED <<files, pageFiles, curId, pages, queue, crashes>>

\* "with self._lock" and "event._id = self.cur_id".
AddEventTakeId(t) ==
    /\ Goto(t, "idle", "locked")
    /\ lock = NoThread
    /\ adds < MaxAdds
    /\ lock' = t
    /\ adds' = adds + 1
    /\ mine' = [mine EXCEPT ![t] =
                  [id |-> curId, content |-> adds + 1, page |-> Len(pages)]]
    /\ UNCHANGED <<files, pageFiles, curId, pages, queue, crashes>>

\* mutant: a new page is only started once the old one is over-full.
ToPageTooLate(t) ==
    LET page == Append(pages[mine[t].page],
                       [id |-> mine[t].id, content |-> mine[t].content])
        kept == [pages EXCEPT ![mine[t].page] = page]
    IN  /\ Goto(t, "locked", "write")
        /\ curId' = curId + 1
        /\ pages' = IF Len(page) > CacheSize THEN Append(kept, <<>>) ELSE kept
        /\ lock' = NoThread
        /\ UNCHANGED <<files, pageFiles, mine, queue, adds, crashes>>

\* The rest of the critical section: cur_id += 1, the event goes on the
\* current page, and a page that is now full is replaced by a new one.
AddEventToPage(t) ==
    LET page == Append(pages[mine[t].page],
                       [id |-> mine[t].id, content |-> mine[t].content])
        kept == [pages EXCEPT ![mine[t].page] = page]
    IN  /\ Goto(t, "locked", "write")
        /\ curId' = curId + 1
        /\ pages' = IF Len(page) = CacheSize THEN Append(kept, <<>>) ELSE kept
        /\ lock' = NoThread
        /\ UNCHANGED <<files, pageFiles, mine, queue, adds, crashes>>

\* event_to_dict or event_from_dict raises inside the critical section, after
\* cur_id += 1: the id is lost, the page does not get the event, the lock is
\* released and the caller sees the exception.
AddEventSerializeFails(t) ==
    /\ "serialize" \in Fails
    /\ Goto(t, "locked", "idle")
    /\ curId' = curId + 1
    /\ lock' = NoThread
    /\ UNCHANGED <<files, pageFiles, pages, mine, queue, adds, crashes>>

\* mutant: the thread that filled the page returns early.
WriteFileEarlyReturn(t) ==
    /\ Goto(t, "write", IF Len(pages[mine[t].page]) = CacheSize THEN "idle" ELSE "page")
    /\ files' = Write(files, mine[t].id, mine[t].content)
    /\ UNCHANGED <<pageFiles, curId, lock, pages, mine, queue, adds, crashes>>

\* file_store.write of the event file, outside the lock.
AddEventWriteFile(t) ==
    /\ Goto(t, "write", "page")
    /\ files' = Write(files, mine[t].id, mine[t].content)
    /\ UNCHANGED <<pageFiles, curId, lock, pages, mine, queue, adds, crashes>>

\* _store_cache_page(current_write_page): it looks at the page as it is now,
\* with what other threads have appended since, and returns if it is not full.
StoreCachePage(t) ==
    LET page == pages[mine[t].page]
    IN  /\ Goto(t, "page", "put")
        /\ pageFiles' = IF Len(page) < CacheSize
                          THEN pageFiles
                          ELSE Write(pageFiles, page[1].id, page)
        /\ UNCHANGED <<files, curId, lock, pages, mine, queue, adds, crashes>>

\* mutant: the exception is logged and add_event goes on.
WriteFailureSwallowed(t) ==
    /\ "write" \in Fails
    /\ \/ Goto(t, "write", "put")
       \/ Goto(t, "page", "put") /\ Len(pages[mine[t].page]) = CacheSize
    /\ UNCHANGED <<files, pageFiles, curId, lock, pages, mine, queue, adds, crashes>>

\* file_store.write raises, for the event file or for the page file, and
\* add_event with it: the event is on its page in memory, on disk or not, and
\* never on the queue.
AddEventWriteFails(t) ==
    /\ "write" \in Fails
    /\ \/ Goto(t, "write", "idle")
       \/ Goto(t, "page", "idle") /\ Len(pages[mine[t].page]) = CacheSize
    /\ UNCHANGED <<files, pageFiles, curId, lock, pages, mine, queue, adds, crashes>>

\* self._queue.put(event).
AddEventPut(t) ==
    /\ Goto(t, "put", "idle")
    /\ queue' = Append(queue, [id |-> mine[t].id, content |-> mine[t].content])
    /\ UNCHANGED <<files, pageFiles, curId, lock, pages, mine, adds, crashes>>

\* The process dies and EventStream(sid, file_store) is built again: only the
\* FileStore survives; cur_id is recomputed and the write page starts empty.
Restart ==
    /\ crashes < MaxCrashes
    /\ crashes' = crashes + 1
    /\ curId' = CalculateCurId(DOMAIN files)
    /\ lock' = NoThread
    /\ pages' = <<<<>>>>
    /\ pc' = [t \in Threads |-> "idle"]
    /\ queue' = <<>>
    /\ UNCHANGED <<files, pageFiles, mine, adds>>

AddEvent(t) ==
    \/ AddEventTakeId(t)
    \/ AddEventToPage(t)
    \/ AddEventSerializeFails(t)
    \/ AddEventWriteFile(t)
    \/ StoreCachePage(t)
    \/ AddEventWriteFails(t)
    \/ AddEventPut(t)

Next == (\E t \in Threads : AddEvent(t)) \/ Restart

Spec == Init /\ [][Next]_vars

\* No thread is suspended for ever inside add_event.
Fairness == \A t \in Threads : WF_vars(AddEvent(t) /\ pc[t] # "idle")

-----------------------------------------------------------------------------
(***************************************************************************)
(* Properties                                                              *)
(***************************************************************************)
\* The types of the variables; a page holds what event_to_dict returned.
TypeOK ==
    /\ files = [i \in DOMAIN files |-> files[i]]
    /\ DOMAIN files \subseteq Nat
    /\ \A i \in DOMAIN files : files[i] \in Contents
    /\ pageFiles = [s \in DOMAIN pageFiles |-> pageFiles[s]]
    /\ DOMAIN pageFiles \subseteq Nat
    /\ \A s \in DOMAIN pageFiles : pageFiles[s] \in Seq(Entry)
    /\ curId \in Nat
    /\ lock \in Threads \cup {NoThread}
    /\ pages \in Seq(Seq(Entry))
    /\ pc \in [Threads -> {"idle", "locked", "write", "page", "put"}]
    /\ mine \in [Threads -> [id : Nat, content : Nat, page : Nat]]
    /\ queue \in Seq(Entry)
    /\ adds \in 0 .. MaxAdds
    /\ crashes \in 0 .. MaxCrashes

\* An event file, once written, is never written again with another event nor
\* lost: neither racing add_event calls nor the cur_id that a restart computes
\* from the directory listing can hand out an id that is already on disk.
WriteOnce ==
    [][\A i \in DOMAIN files : i \in DOMAIN files' /\ files'[i] = files[i]]_files

\* Subscribers only hear of events that can already be read back: everything
\* on the queue has its event file, with the same content.  The controller
\* relies on it when a handler searches the stream for the event it handles.
PersistBeforePublish ==
    \A k \in 1 .. Len(queue) :
        /\ queue[k].id \in DOMAIN files
        /\ files[queue[k].id] = queue[k].content

\* No two events on the queue have the same id, whatever the interleaving of
\* the threads that took the ids and the ones that put the events.
PublishedOnce ==
    \A j, k \in 1 .. Len(queue) : queue[j].id = queue[k].id => j = k

\* A stored page can be indexed the way _CachePage.get_event does it: it is
\* full and the event at offset k of the page starting at s has id s + k.
PagePositions ==
    \A s \in DOMAIN pageFiles :
        /\ Len(pageFiles[s]) = CacheSize
        /\ \A k \in 1 .. CacheSize : pageFiles[s][k].id = s + k - 1

\* A stored page and the event files never disagree about an event, so that
\* search_events gives the same answer with and without the cache.
PagesCoherent ==
    \A s \in DOMAIN pageFiles : \A k \in 1 .. Len(pageFiles[s]) :
        LET e == pageFiles[s][k]
        IN  e.id \in DOMAIN files => files[e.id] = e.content

\* Every id that add_event takes reaches the subscribers' queue, whoever holds
\* the lock meanwhile, when nothing raises and the process does not die: no id
\* is lost between the critical section and the queue.  (There are finitely
\* many events, so that all of them are on the queue infinitely often.)
EveryEventPublished ==
    []<>(\A i \in 0 .. curId - 1 : \E k \in 1 .. Len(queue) : queue[k].id = i)

\* The stream implements the write-once log of EventLog: its log is the event
\* files, its published events are the queue.
Log == INSTANCE EventLog WITH
         Ids <- 0 .. MaxAdds, log <- files, published <- queue

ImplementsEventLog == Log!Spec

-----------------------------------------------------------------------------
(***************************************************************************)
(* The inductive invariants behind these properties (EventStreamProofs).   *)
(***************************************************************************)
LockInv == \A t \in Threads : pc[t] = "locked" <=> lock = t

\* A thread inside add_event refers to one of the page lists.
RefInv ==
    /\ Len(pages) >= 1
    /\ \A t \in Threads : pc[t] # "idle" => mine[t].page \in 1 .. Len(pages)

\* An id is below cur_id once the lock is released, belongs to one call, and
\* is on disk exactly from the step that writes the file onwards.
IdInv ==
    /\ \A i \in DOMAIN files : i < curId
    /\ curId <= adds
    /\ \A t \in Threads :
          /\ pc[t] = "locked" => mine[t].id = curId /\ curId < adds
          /\ pc[t] \in {"write", "page", "put"} => mine[t].id < curId
          /\ pc[t] # "idle" => mine[t].content \in Contents
          /\ pc[t] \in {"locked", "write"} => mine[t].id \notin DOMAIN files
          /\ pc[t] \in {"page", "put"} =>
                mine[t].id \in DOMAIN files /\ files[mine[t].id] = mine[t].content
    /\ \A t, u \in Threads :
          pc[t] # "idle" /\ pc[u] # "idle" /\ mine[t].id = mine[u].id => t = u

\* What is on the queue is on disk, once, and not in the hands of a thread.
QueueInv ==
    /\ PersistBeforePublish
    /\ PublishedOnce
    /\ \A t \in Threads : pc[t] # "idle" =>
          \A k \in 1 .. Len(queue) : queue[k].id # mine[t].id

\* The inductive invariant of the log: it holds whatever fails and crashes.
LogInv == TypeOK /\ LockInv /\ RefInv /\ IdInv /\ QueueInv

\* The shape of the page lists: all but the last are full, ids are consecutive
\* in each and the last one ends just below cur_id.
ShapeInv ==
    /\ \A n \in 1 .. Len(pages) : n < Len(pages) => Len(pages[n]) = CacheSize
    /\ Len(pages[Len(pages)]) < CacheSize
    /\ \A n \in 1 .. Len(pages) : \A k \in 1 .. Len(pages[n]) :
          /\ pages[n][k].id = pages[n][1].id + k - 1
          /\ pages[n][k].id < curId
    /\ Len(pages[Len(pages)]) > 0 =>
          pages[Len(pages)][1].id + Len(pages[Len(pages)]) = curId
    /\ \A t \in Threads : pc[t] = "locked" => mine[t].page = Len(pages)

\* An entry of a page agrees with the file of its id and with the thread that
\* is about to write that file.
Agrees(e) ==
    /\ e.id \in DOMAIN files => files[e.id] = e.content
    /\ \A t \in Threads : pc[t] = "write" /\ mine[t].id = e.id => e.content = mine[t].content

CoherenceInv ==
    /\ \A n \in 1 .. Len(pages) : \A k \in 1 .. Len(pages[n]) : Agrees(pages[n][k])
    /\ \A s \in DOMAIN pageFiles : \A k \in 1 .. Len(pageFiles[s]) :
          pageFiles[s][k].id < curId /\ Agrees(pageFiles[s][k])

\* The inductive invariant of the pages; the first part needs that serialising
\* an event does not fail, the second one that the process does not restart.
PageInv == ShapeInv /\ PagePositions /\ (MaxCrashes = 0 => CoherenceInv)

=============================================================================
