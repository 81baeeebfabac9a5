------------------------------ MODULE EventLog ------------------------------
(***************************************************************************)
(* What openhands/events/stream.py promises its users, without threads,    *)
(* pages or locks: a log in which every id is written at most once and     *)
(* never changed, and a list of events published to the subscribers, each  *)
(* of them once and only when it is already in the log.  A restart forgets *)
(* what was published and keeps the log.                                   *)
(***************************************************************************)
EXTENDS Naturals, Sequences

CONSTANTS Ids, Contents

VARIABLES
    log,       \* id -> content, for the ids written so far
    published  \* the events handed to subscribers since the last start

vars == <<log, published>>

Init ==
    /\ log = [i \in {} |-> 0]
    /\ published = <<>>

Persist(i, c) ==
    /\ i \notin DOMAIN log
    /\ log' = [j \in DOMAIN log \cup {i} |-> IF j = i THEN c ELSE log[j]]
    /\ UNCHANGED published

Publish(i) ==
    /\ i \in DOMAIN log
    /\ \A k \in 1 .. Len(published) : published[k].id # i
    /\ published' = Append(published, [id |-> i, content |-> log[i]])
    /\ UNCHANGED log

Restart ==
    /\ published' = <<>>
    /\ UNCHANGED log

Next ==
    \/ \E i \in Ids, c \in Contents : Persist(i, c)
    \/ \E i \in Ids : Publish(i)
    \/ Restart

Spec == Init /\ [][Next]_vars

=============================================================================
