---------------------------- MODULE NestedSearch ----------------------------
(***************************************************************************)
(* NestedEventStore.search_events (openhands/events/nested_event_store.py):*)
(* a search through the events of a conversation that runs on another      *)
(* server, page by page over HTTP (the /events route of                    *)
(* openhands/server/routes/conversation.py), while events are written      *)
(* there.  It is a generator: its caller takes the events one by one, and  *)
(* anything may be written between two of them.  What a search on that     *)
(* server itself returns is EventSearch.                                   *)
(***************************************************************************)
EXTENDS Integers, Sequences, SequencesExt, FiniteSets, FiniteSetsExt

CONSTANTS
    MaxId,        \* ids are 0 .. MaxId
    PageLimit,    \* the route's largest limit
    PageDefault,  \* the route's limit when none is given
    Queries       \* searches: [start, end, reverse, filter, limit]; NoId, NoLimit

VARIABLES
    events,   \* the events that are written: kinds by id; ids may be missing
    q,        \* the search
    pc,       \* "idle", "ask", "page" (in the loop over a page) or "done"
    from,     \* start_cursor
    upto,     \* end_cursor
    left,     \* what is left of limit
    page,     \* the ids of the page that are still to come
    more,     \* has_more
    seen,     \* page_min_id of a search in reverse, else forward_next_start
    out,      \* the ids it has yielded
    before    \* history: ids that were written when it began

vars == <<events, q, pc, from, upto, left, page, more, seen, out, before>>

NoId == -1
NoLimit == 0
Kinds == {"plain", "hidden"}
NoQuery == [start |-> 0, end |-> NoId, reverse |-> FALSE, filter |-> Kinds, limit |-> NoLimit]

Init ==
    /\ events = [i \in {} |-> "plain"]
    /\ q = NoQuery
    /\ pc = "idle"
    /\ from = 0
    /\ upto = NoId
    /\ left = NoLimit
    /\ page = {}
    /\ more = FALSE
    /\ seen = NoId
    /\ out = <<>>
    /\ before = {}

\* Several threads write events, in any order; an id whose file could not be
\* written stays free.  What is written after the search does not matter.
Write(i, kind) ==
    /\ pc # "done"
    /\ i \notin DOMAIN events
    /\ events' = [j \in DOMAIN events \cup {i} |-> IF j = i THEN kind ELSE events[j]]
    /\ UNCHANGED <<q, pc, from, upto, left, page, more, seen, out, before>>

\* i comes after j in the search.
After(i, j) == IF q.reverse THEN i < j ELSE i > j

-----------------------------------------------------------------------------
(***************************************************************************)
(* The /events route: limit + 1 events are looked for, to see whether      *)
(* there are more than limit.  A page is a set of ids: the first ones in   *)
(* the order of the search.                                                *)
(***************************************************************************)
Matching(start, end) == {i \in DOMAIN events : i >= start /\ (end = NoId \/ i <= end)}

IsPage(ids, found, limit) ==
    /\ \A i \in ids, j \in found \ ids : After(j, i)
    /\ IF Cardinality(found) > limit THEN Cardinality(ids) = limit ELSE ids = found

-----------------------------------------------------------------------------
(***************************************************************************)
(* The search.                                                             *)
(***************************************************************************)
Begin(query) ==
    /\ pc = "idle"
    /\ q' = query
    /\ pc' = "ask"
    /\ from' = query.start
    /\ upto' = NoId
    /\ left' = query.limit
    /\ out' = <<>>
    /\ before' = DOMAIN events
    /\ UNCHANGED <<events, page, more, seen>>

\* A request and its answer.
Ask ==
    LET limit == IF left = NoLimit THEN PageDefault
                 ELSE IF left < PageLimit THEN left ELSE PageLimit
        found == Matching(from, upto)
    IN  /\ pc = "ask"
        /\ \E ids \in SUBSET found :
             /\ IsPage(ids, found, limit)
             /\ page' = ids
             /\ more' = (ids # found)
        /\ seen' = IF q.reverse THEN NoId ELSE from
        /\ pc' = "page"
        /\ UNCHANGED <<events, q, from, upto, left, out, before>>

Passes(i) == events[i] \in q.filter

\* What the loop over a page remembers of the ids that came by.
Seen(i) ==
    IF q.reverse THEN (IF seen # NoId /\ seen < i THEN seen ELSE i)
                 ELSE (IF seen > i + 1 THEN seen ELSE i + 1)

\* One event of the page: the one with end_id ends the search, and so does the
\* last one of the limit.
Take(i) ==
    /\ pc = "page"
    /\ i \in page
    /\ \A j \in page : j # i => After(j, i)
    /\ page' = page \ {i}
    /\ seen' = Seen(i)
    /\ out' = IF Passes(i) THEN Append(out, i) ELSE out
    /\ left' = IF Passes(i) /\ i # q.end /\ left # NoLimit THEN left - 1 ELSE left
    /\ pc' = IF i = q.end \/ (Passes(i) /\ left = 1) THEN "done" ELSE "page"
    /\ UNCHANGED <<events, q, from, upto, more, before>>

\* Mutant of NextUpto: the next page begins with the last event of this one.
NextUptoIncluded == IF q.reverse /\ seen # NoId THEN seen ELSE upto

\* The cursors of the next request: below the least id seen, or above the highest.
NextUpto == IF q.reverse /\ seen # NoId THEN seen - 1 ELSE upto
NextFrom == IF q.reverse THEN from ELSE seen

\* The end of a page.
Turn ==
    /\ pc = "page"
    /\ page = {}
    /\ from' = NextFrom
    /\ upto' = NextUpto
    /\ pc' = IF more THEN "ask" ELSE "done"
    /\ UNCHANGED <<events, q, left, page, more, seen, out, before>>

Next ==
    \/ \E i \in 0 .. MaxId, kind \in Kinds : Write(i, kind)
    \/ \E query \in Queries : Begin(query)
    \/ Ask
    \/ \E i \in page : Take(i)
    \/ Turn

Spec == Init /\ [][Next]_vars

-----------------------------------------------------------------------------
TypeOK ==
    /\ DOMAIN events \subseteq 0 .. MaxId
    /\ \A i \in DOMAIN events : events[i] \in Kinds
    /\ q \in Queries \cup {NoQuery}
    /\ pc \in {"idle", "ask", "page", "done"}
    /\ from \in Nat
    /\ upto \in Nat \cup {NoId}
    /\ left \in Nat
    /\ page \subseteq DOMAIN events
    /\ more \in BOOLEAN
    /\ seen \in Nat \cup {NoId}
    /\ out \in Seq(DOMAIN events)
    /\ before \subseteq DOMAIN events

Wanted(i) == i >= q.start /\ (q.end = NoId \/ i <= q.end) /\ Passes(i)

\* A search whose end_id is an event that was there, at or after its start.
EndReached == ~q.reverse /\ q.start <= q.end /\ q.end \in before

\* The pages together are one search: what they yield was asked for, in order,
\* nothing twice and no more than the limit; and when it is done nothing that
\* was there at its beginning is missing, however the pages fall and whatever was
\* written between two events.  (The end of the range stops the search only if
\* there is an event of that id.)
PagedAsOne ==
    q.end = NoId \/ EndReached =>
        /\ \A m, n \in DOMAIN out : m < n => After(out[n], out[m])
        /\ \A n \in DOMAIN out : Wanted(out[n])
        /\ q.limit # NoLimit => Len(out) <= q.limit
        /\ pc = "done" => \A i \in before : Wanted(i) =>
             \/ i \in ToSet(out)
             \/ q.limit # NoLimit /\ Len(out) = q.limit /\ After(i, Last(out))

-----------------------------------------------------------------------------
(***************************************************************************)
(* Why: the ids are gone through from one side, and a page leaves out none *)
(* that come before the end of it.                                         *)
(***************************************************************************)
Passed(i) ==
    IF q.reverse
      THEN (upto # NoId /\ i > upto) \/ (pc = "page" /\ seen # NoId /\ i >= seen)
      ELSE i < from \/ (pc = "page" /\ i < seen)

\* What was yielded lies behind, in order, and so does nothing else that was there.
YieldedBehind ==
    /\ \A m, n \in DOMAIN out : m < n => After(out[n], out[m])
    /\ \A n \in DOMAIN out : out[n] >= q.start /\ Passes(out[n]) /\ Passed(out[n])
    /\ \A i \in before : i >= q.start /\ Passes(i) /\ Passed(i) => i \in ToSet(out)

\* The end is still to come, and so is a part of the limit.
EndsAhead ==
    /\ EndReached => ~Passed(q.end)
    /\ IF q.limit = NoLimit THEN left = NoLimit
                            ELSE left > 0 /\ left + Len(out) = q.limit

\* A page goes on where the search is; what it leaves out comes after it.
PageAhead ==
    pc = "page" =>
        /\ \A j \in page : j >= q.start /\ ~Passed(j)
        /\ \A i \in before : i >= q.start /\ ~Passed(i) =>
             i \in page \/ (more /\ \A j \in page : After(i, j))
        /\ q.reverse /\ more => seen # 0 /\ 0 \notin page
        /\ q.reverse /\ seen # NoId /\ upto # NoId => seen <= upto
        /\ ~q.reverse => seen >= from

SearchInv ==
    /\ TypeOK
    /\ pc \in {"ask", "page"} =>
         /\ from >= q.start /\ IF q.reverse THEN from = q.start ELSE upto = NoId
         /\ YieldedBehind /\ EndsAhead /\ PageAhead
    /\ PagedAsOne
=============================================================================
