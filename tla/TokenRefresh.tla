---------------------------- MODULE TokenRefresh ----------------------------
(***************************************************************************)
(* The tokens of one user at one identity provider, for several requests   *)
(* at a time (enterprise: storage/auth_token_store.py, server/auth/        *)
(* token_manager.py).  A request that finds the access token expired       *)
(* refreshes it at the provider, which accepts a refresh token once, and   *)
(* stores the new pair, in one transaction that locks the row.  A login,   *)
(* which goes through the provider, stores a fresh pair.  A pair of tokens *)
(* is its number; the user's row exists.                                   *)
(***************************************************************************)
EXTENDS Naturals

CONSTANTS
    Requests,   \* requests and logins, on any server
    MaxPairs,   \* bound on the pairs that the provider issues
    Faults      \* subset of {"refused", "unanswered", "crash"}

VARIABLES
    row,     \* the pair in the database
    age,     \* what has expired of it: "none", "access" or "both"
    lock,    \* who has locked the row
    req,     \* req[p]: its place, the pair it refreshes, the pair it will store
    pairs,   \* number of pairs issued
    sent,    \* history: how often each refresh token was sent, up to 2
    lost     \* history: pairs whose successor did not reach the database

vars == <<row, age, lock, req, pairs, sent, lost>>

None == "none"
Idle == [pc |-> "idle", old |-> 0, new |-> 0]

Init ==
    /\ row = 1
    /\ age = "none"
    /\ lock = None
    /\ req = [p \in Requests |-> Idle]
    /\ pairs = 1
    /\ sent = [t \in 1 .. MaxPairs |-> 0]
    /\ lost = {}

\* Four hours before the access token's end it counts as expired.
Expire ==
    /\ \/ age = "none" /\ age' = "access"
       \/ age = "access" /\ age' = "both"
    /\ UNCHANGED <<row, lock, req, pairs, sent, lost>>

-----------------------------------------------------------------------------
(***************************************************************************)
(* load_tokens.  If nothing has expired, or both tokens, which raises, the *)
(* transaction ends without a change.                                      *)
(***************************************************************************)
\* Mutant of Load: the row is read without FOR UPDATE.
LoadUnlocked(p) ==
    /\ req[p].pc = "idle"
    /\ age = "access"
    /\ req' = [req EXCEPT ![p] = [pc |-> "refresh", old |-> row, new |-> 0]]
    /\ UNCHANGED <<row, age, lock, pairs, sent, lost>>

\* SELECT ... FOR UPDATE waits for the lock and reads what was committed.
Load(p) ==
    /\ req[p].pc = "idle"
    /\ lock = None
    /\ age = "access"
    /\ lock' = p
    /\ req' = [req EXCEPT ![p] = [pc |-> "refresh", old |-> row, new |-> 0]]
    /\ UNCHANGED <<row, age, pairs, sent, lost>>

\* The transaction ends, by a commit, an exception or the end of the server.
EndTransaction(p) ==
    /\ lock' = IF lock = p THEN None ELSE lock
    /\ req' = [req EXCEPT ![p] = Idle]

\* _refresh_token: the provider takes the token and issues a pair; or it has seen
\* the token before.
Refresh(p) ==
    LET t == req[p].old
    IN  /\ req[p].pc = "refresh"
        /\ sent' = [sent EXCEPT ![t] = IF @ = 2 THEN @ ELSE @ + 1]
        /\ IF sent[t] = 0
             THEN /\ pairs < MaxPairs
                  /\ pairs' = pairs + 1
                  /\ req' = [req EXCEPT ![p] = [pc |-> "answer", old |-> t, new |-> pairs + 1]]
                  /\ UNCHANGED lock
             ELSE /\ EndTransaction(p)
                  /\ UNCHANGED pairs
        /\ UNCHANGED <<row, age, lost>>

\* The request to the provider fails before it is read.
RefreshRefused(p) ==
    /\ "refused" \in Faults
    /\ req[p].pc = "refresh"
    /\ EndTransaction(p)
    /\ UNCHANGED <<row, age, pairs, sent, lost>>

\* The answer is stored, and the transaction committed.
Commit(p) ==
    /\ req[p].pc = "answer"
    /\ row' = req[p].new
    /\ age' = "none"
    /\ EndTransaction(p)
    /\ UNCHANGED <<pairs, sent, lost>>

\* The answer is lost, or the server ends before the commit.
AnswerLost(p) ==
    /\ Faults \cap {"unanswered", "crash"} # {}
    /\ req[p].pc = "answer"
    /\ lost' = lost \cup {req[p].old}
    /\ EndTransaction(p)
    /\ UNCHANGED <<row, age, pairs, sent>>

-----------------------------------------------------------------------------
(***************************************************************************)
(* store_idp_tokens and store_tokens, at a login: a new pair, and an       *)
(* UPDATE that waits for the row lock.                                     *)
(***************************************************************************)
Login(p) ==
    /\ req[p].pc = "idle"
    /\ pairs < MaxPairs
    /\ pairs' = pairs + 1
    /\ req' = [req EXCEPT ![p] = [pc |-> "store", old |-> 0, new |-> pairs + 1]]
    /\ UNCHANGED <<row, age, lock, sent, lost>>

Store(p) ==
    /\ req[p].pc = "store"
    /\ lock = None
    /\ row' = req[p].new
    /\ age' = "none"
    /\ req' = [req EXCEPT ![p] = Idle]
    /\ UNCHANGED <<lock, pairs, sent, lost>>

Next ==
    \/ Expire
    \/ \E p \in Requests :
         \/ Load(p) \/ Refresh(p) \/ RefreshRefused(p) \/ Commit(p) \/ AnswerLost(p)
         \/ Login(p) \/ Store(p)

Spec == Init /\ [][Next]_vars

-----------------------------------------------------------------------------
TypeOK ==
    /\ row \in 1 .. pairs
    /\ age \in {"none", "access", "both"}
    /\ lock \in Requests \cup {None}
    /\ req \in [Requests -> [pc : {"idle", "refresh", "answer", "store"},
                          old : 0 .. MaxPairs, new : 0 .. MaxPairs]]
    /\ pairs \in 1 .. MaxPairs
    /\ sent \in [1 .. MaxPairs -> 0 .. 2]
    /\ lost \in SUBSET (1 .. MaxPairs)

\* load_tokens ensures "that only one refresh call occurs per refresh token", on
\* all servers and with logins in between, unless an answer was lost; and the refresh token in the
\* database is never one that is used up, except by the transaction that has the
\* row.
RefreshedOnce ==
    /\ \A t \in 1 .. MaxPairs : sent[t] > 1 => t \in lost
    /\ sent[row] > 0 => row \in lost \/ \E p \in Requests : lock = p /\ req[p].pc = "answer"
=============================================================================
