---------------------------- MODULE EventSearch ----------------------------
(***************************************************************************)
(* EventStore.search_events (openhands/events/event_store.py) running      *)
(* beside the writers of EventStream: a generator that walks the ids of a  *)
(* range, forwards or backwards, takes each event from the cache page that *)
(* covers its id or else from the event file, applies a filter and stops   *)
(* at a limit.  One id is one step, so writers run between any two ids.    *)
(* The model is one life of the process: what a restart does to the pages  *)
(* is seen in EventStream alone.                                           *)
(***************************************************************************)
EXTENDS EventStream, Integers

CONSTANTS
    Readers,   \* concurrent searches
    Searches   \* their arguments: [start, end, reverse, limit, filter]

NoEnd   == -1  \* end_id = None
NoLimit == 0   \* limit = None

ASSUME SearchesAssumption ==
    \A q \in Searches :
        /\ q.start \in Nat
        /\ q.end \in Nat \cup {NoEnd}
        /\ q.reverse \in BOOLEAN
        /\ q.limit \in Nat
        /\ q.filter \subseteq Contents

VARIABLE rd  \* the state of each search

(***************************************************************************)
(* _CachePage: the contents of a page file, or no events at all when the   *)
(* file was missing; _DUMMY_PAGE covers no index.                          *)
(***************************************************************************)
DummyPage == [events |-> <<>>, start |-> 1, end |-> -1]

Covers(page, index) == page.start <= index /\ index < page.end

LoadCachePageForIndex(index) ==
    LET first == index - (index % CacheSize)
    IN  [events |-> IF first \in DOMAIN pageFiles THEN pageFiles[first] ELSE <<>>,
         start  |-> first,
         end    |-> first + CacheSize]

\* The event at an index, from the page or from its file, as a sequence that
\* is empty when neither has it (FileNotFoundError).
Lookup(page, index) ==
    IF page.events # <<>> THEN <<page.events[index - page.start + 1]>>
    ELSE IF index \in DOMAIN files THEN <<[id |-> index, content |-> files[index]]>>
    ELSE <<>>

IdleReader ==
    [pc |-> "idle", q |-> [limit |-> NoLimit], lo |-> 0, hi |-> 0, index |-> 0,
     page |-> DummyPage, out |-> <<>>, before |-> {}]

SearchInit == Init /\ rd = [r \in Readers |-> IdleReader]

\* The head of search_events: the range, from inclusive to exclusive.  before
\* is a history variable: the ids that are on disk when the search starts.
SearchBegin(r, q) ==
    LET hi == IF q.end = NoEnd THEN curId ELSE q.end + 1
    IN  /\ rd[r].pc \in {"idle", "done"}
        /\ rd' = [rd EXCEPT ![r] =
                    [pc |-> "scan", q |-> q, lo |-> q.start, hi |-> hi,
                     index |-> IF q.reverse THEN hi - 1 ELSE q.start,
                     page |-> DummyPage, out |-> <<>>, before |-> DOMAIN files]]
        /\ UNCHANGED vars

InRange(s) == s.lo <= s.index /\ s.index < s.hi

\* mutant: the loop returns one result late.
EnoughLate(s, results) == s.q.limit # NoLimit /\ s.q.limit < results

\* "if limit and limit <= num_results: return", after a result was yielded.
Enough(s, results) == s.q.limit # NoLimit /\ s.q.limit <= results

\* mutant: an id that has no file yet is tried again.
NextIndexRetry(s, found) ==
    IF ~found THEN s.index ELSE IF s.q.reverse THEN s.index - 1 ELSE s.index + 1

\* The step of the range: every id is tried once, found or not.
NextIndex(s, found) == IF s.q.reverse THEN s.index - 1 ELSE s.index + 1

\* One turn of the loop over range(start_id, end_id, step).
SearchStep(r) ==
    LET s     == rd[r]
        page  == IF Covers(s.page, s.index) THEN s.page
                 ELSE LoadCachePageForIndex(s.index)
        event == Lookup(page, s.index)
        out   == IF event # <<>> /\ event[1].content \in s.q.filter
                   THEN Append(s.out, event[1]) ELSE s.out
    IN  /\ s.pc = "scan"
        /\ InRange(s)
        /\ rd' = [rd EXCEPT ![r] =
                    [s EXCEPT !.page = page, !.out = out,
                       !.index = NextIndex(s, event # <<>>),
                       !.pc = IF out # s.out /\ Enough(s, Len(out))
                                THEN "done" ELSE "scan"]]
        /\ UNCHANGED vars

\* The range is exhausted.
SearchEnd(r) ==
    /\ rd[r].pc = "scan"
    /\ ~InRange(rd[r])
    /\ rd' = [rd EXCEPT ![r].pc = "done"]
    /\ UNCHANGED vars

SearchNext ==
    \/ \E r \in Readers, q \in Searches : SearchBegin(r, q)
    \/ \E r \in Readers : SearchStep(r) \/ SearchEnd(r)
    \/ \E t \in Threads : AddEvent(t) /\ UNCHANGED rd

\* The consumer of the search_events generator goes on asking for events.
SearchFairness ==
    \A r \in Readers : WF_<<vars, rd>>(SearchStep(r) \/ SearchEnd(r))

SearchSpec == SearchInit /\ [][SearchNext]_<<vars, rd>> /\ SearchFairness

-----------------------------------------------------------------------------
Done(r) == rd[r].pc = "done"

Wanted(s, i) == s.q.start <= i /\ (s.q.end = NoEnd \/ i <= s.q.end)

\* Everything a search yields was asked for: in the requested order without
\* repetition, inside the range, passing the filter, at most limit of them,
\* and equal to the event file of that id when there is one.
SearchSound ==
    \A r \in Readers :
        LET s == rd[r]
        IN  /\ \A j, k \in 1 .. Len(s.out) :
                  j < k => IF s.q.reverse THEN s.out[j].id > s.out[k].id
                                          ELSE s.out[j].id < s.out[k].id
            /\ \A k \in 1 .. Len(s.out) :
                  LET e == s.out[k]
                  IN  /\ Wanted(s, e.id)
                      /\ e.content \in s.q.filter
                      /\ e.id \in DOMAIN files => files[e.id] = e.content
            /\ s.q.limit = NoLimit \/ Len(s.out) <= s.q.limit

\* A finished search has missed nothing that was on disk when it began, even
\* if pages were stored under it: an event that matches was yielded, or the
\* search stopped at its limit before reaching it.
SearchComplete ==
    \A r \in Readers : Done(r) =>
        LET s == rd[r]
        IN  \A i \in s.before : Wanted(s, i) /\ files[i] \in s.q.filter =>
              \/ \E k \in 1 .. Len(s.out) : s.out[k].id = i
              \/ /\ s.q.limit # NoLimit
                 /\ Len(s.out) = s.q.limit
                 /\ IF s.q.reverse THEN i < s.out[Len(s.out)].id
                                   ELSE i > s.out[Len(s.out)].id

\* A search returns exactly what was asked for: what it yields is right, and
\* nothing that was there is missing, whatever writers and pages do meanwhile.
SearchExact == SearchSound /\ SearchComplete

\* Every search ends although the stream grows under it and some ids of the
\* range never get a file: the end of the range is fixed when it begins, and a
\* missing file is passed over, not waited for.
SearchTerminates == \A r \in Readers : rd[r].pc = "scan" ~> rd[r].pc # "scan"

=============================================================================
