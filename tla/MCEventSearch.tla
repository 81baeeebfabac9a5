--------------------------- MODULE MCEventSearch ---------------------------
(***************************************************************************)
(* EventSearch for TLC: four kinds of search beside two writers whose      *)
(* writes may fail; and, as another part, EventStream alone with three     *)
(* writers and without failures.  part says which one runs.                *)
(***************************************************************************)
EXTENDS EventSearch

CONSTANT MoreThreads

VARIABLE part

MCSearches ==
    { [start |-> 0, end |-> NoEnd, reverse |-> FALSE, limit |-> NoLimit, filter |-> Contents],
      [start |-> 0, end |-> NoEnd, reverse |-> TRUE,  limit |-> 1, filter |-> {1, 3, 4}],
      [start |-> 1, end |-> 3, reverse |-> FALSE, limit |-> 2, filter |-> {2, 3, 4}],
      [start |-> 1, end |-> 2, reverse |-> TRUE,  limit |-> NoLimit, filter |-> {1, 2, 3}] }

Pages == INSTANCE EventStream WITH
    Threads <- MoreThreads, MaxAdds <- MaxAdds + 1, Fails <- {}

MCInit ==
    \/ part = "search" /\ SearchInit
    \/ part = "pages" /\ Pages!Init /\ rd = [r \in Readers |-> IdleReader]

MCNext ==
    /\ UNCHANGED part
    /\ \/ part = "search" /\ SearchNext
       \/ part = "pages" /\ Pages!Next /\ UNCHANGED rd

\* Fairness as in EventSearch and EventStream, for the part that runs.
MCSpec ==
    /\ MCInit
    /\ [][MCNext]_<<vars, rd, part>>
    /\ \A r \in Readers : WF_rd(part = "search" /\ (SearchStep(r) \/ SearchEnd(r)))
    /\ \A t \in MoreThreads :
         WF_vars(part = "pages" /\ Pages!AddEvent(t) /\ pc[t] # "idle")

\* Every id that add_event takes reaches the subscribers' queue, whoever holds the
\* lock meanwhile, when nothing raises and the process does not die.
EveryIdPublished == part = "pages" => Pages!EveryEventPublished

=============================================================================
