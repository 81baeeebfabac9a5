---------------------------- MODULE MCComponents ----------------------------
(***************************************************************************)
(* Several components for TLC, side by side and independent of each other: *)
(* the event stream with crashes (the constants of the cfg), and what reads*)
(* its history back or works beside it.  part says which one runs; the     *)
(* others stay in their initial states.                                    *)
(***************************************************************************)
EXTENDS EventStream

CONSTANTS
    MaxBashCalls, MaxOuts, HistoryLimit,                \* BashSession
    Workers, Ports, Platforms, MaxFiles, MaxDeaths,     \* PortLock
    MaxJobs, MaxLines, MaxShellCalls,                   \* PowerShellSession
    Sids, DesiredWarm, MaxServers, MaxRuntimes,         \* LocalServers
    TokenRequests, MaxPairs, TokenFaults,               \* TokenRefresh
    LoopActions, LoopObservations,                      \* LoopRecovery
    MaxLoopEvents, MaxLoopMessages, MaxLoopRestarts,
    MaxSize, KeepFirst, MaxCondEvents,                  \* Condensers
    MaxId, PageLimit, PageDefault, Searches             \* NestedSearch

\* What the proofs use: the bounds are numbers, and the names of processes,
\* requests and conversations are not the ones that stand for nobody.
ASSUME ComponentsAssumption ==
    /\ {MaxBashCalls, MaxOuts, HistoryLimit, MaxFiles, MaxDeaths, MaxJobs, MaxLines,
        MaxShellCalls, DesiredWarm, MaxServers, MaxRuntimes, MaxPairs} \subseteq Nat
    /\ HistoryLimit # 0 /\ MaxPairs # 0 /\ DesiredWarm <= MaxServers
    /\ "nobody" \notin Workers /\ "none" \notin TokenRequests /\ "none" \notin Sids
    /\ Platforms \subseteq BOOLEAN
    /\ {MaxId, PageLimit, PageDefault} \subseteq Nat
    /\ \A s \in Searches :
         /\ s.start \in Nat /\ s.end \in Nat \cup {-1} /\ s.limit \in Nat
         /\ s.reverse \in BOOLEAN

VARIABLES
    part,
    lStream, lHistory, endId, analysis, lMode, found, restarts,      \* LoopRecovery
    dStream, delivered, dHistory, delegate, startId, late,           \* DelegateHistory
    kind, cHistory, cMode,                                           \* Condensers
    pane, proc, typed, status, prevOut, call, bCalls, printed,       \* BashSession
    reported, obs, scrolled,
    fcntl, lockFile, inodes, flock, rt, bound, deaths,               \* PortLock
    jobs, active, last, pCall, pCalls, closed,                       \* PowerShellSession
    alive, running, warm, making, sRt, deleting,                     \* LocalServers
    row, age, rowLock, req, pairs, sent, lost,                       \* TokenRefresh
    events, q, nPc, from, upto, left, page, more, seen, out, before  \* NestedSearch

loopVars     == <<lStream, lHistory, endId, analysis, lMode, found, restarts>>
delegateVars == <<dStream, delivered, dHistory, delegate, startId, late>>
condVars     == <<kind, cHistory, cMode>>
bashVars     == <<pane, proc, typed, status, prevOut, call, bCalls, printed, reported, obs,
                  scrolled>>
portVars     == <<fcntl, lockFile, inodes, flock, rt, bound, deaths>>
shellVars    == <<jobs, active, last, pCall, pCalls, closed>>
localVars    == <<alive, running, warm, making, sRt, deleting>>
tokenVars    == <<row, age, rowLock, req, pairs, sent, lost>>
nestedVars   == <<events, q, nPc, from, upto, left, page, more, seen, out, before>>
mcVars       == <<part, vars, loopVars, delegateVars, condVars, bashVars, portVars,
                  shellVars, localVars, tokenVars, nestedVars>>

Loop == INSTANCE LoopRecovery WITH
    Actions <- LoopActions, Observations <- LoopObservations,
    MaxEvents <- MaxLoopEvents, MaxMessages <- MaxLoopMessages, MaxRestarts <- MaxLoopRestarts,
    stream <- lStream, history <- lHistory, mode <- lMode

\* Longer histories of fewer kinds of events, for the alternating pattern.
Pattern == INSTANCE LoopRecovery WITH
    Actions <- {"a", "b"}, Observations <- {"x"},
    MaxEvents <- 17, MaxMessages <- 4, MaxRestarts <- 1,
    stream <- lStream, history <- lHistory, mode <- lMode

Delegates == INSTANCE DelegateHistory WITH
    MaxEvents <- 10, stream <- dStream, history <- dHistory

Cond == INSTANCE Condensers WITH
    MaxEvents <- MaxCondEvents, history <- cHistory, mode <- cMode

\* What the constructors of the condensers demand, and the proofs use.
ASSUME CondensersAssumption == Cond!Constructed

Bash == INSTANCE BashSession WITH
    MaxCalls <- MaxBashCalls, Races <- {}, calls <- bCalls

Port == INSTANCE PortLock WITH
    MaxCrashes <- MaxDeaths, file <- lockFile, files <- inodes, crashes <- deaths

Shell == INSTANCE PowerShellSession WITH
    MaxCalls <- MaxShellCalls, call <- pCall, calls <- pCalls

Local == INSTANCE LocalServers WITH
    Desired <- DesiredWarm, rt <- sRt

Tokens == INSTANCE TokenRefresh WITH
    Requests <- TokenRequests, Faults <- TokenFaults, lock <- rowLock

\* -1: to the end; 0: without a limit.
MCSearches ==
    [start : {0, 1}, end : {-1}, reverse : BOOLEAN, filter : {{"plain"}}, limit : {0, 1, 3}]
    \cup [start : {0}, end : {2}, reverse : {FALSE}, filter : {{"plain"}}, limit : {0, 1}]

Nested == INSTANCE NestedSearch WITH
    Queries <- Searches, pc <- nPc

-----------------------------------------------------------------------------
\* A part that does not run has one initial state.
MCInit ==
    /\ part \in {"stream", "loop", "pattern", "delegates", "condenser", "bash", "port",
                "powershell", "local", "tokens", "nested"}
    /\ Init
    /\ Loop!Init
    /\ Delegates!Init
    /\ Cond!Init /\ (part # "condenser" => kind = "window")
    /\ Bash!Init
    /\ Port!Init /\ (part # "port" => fcntl = TRUE)
    /\ Shell!Init
    /\ Local!Init /\ (part # "local" => warm = <<>>)
    /\ Tokens!Init
    /\ Nested!Init

MCNext ==
    /\ UNCHANGED part
    /\ IF part = "stream" THEN Next ELSE UNCHANGED vars
    /\ CASE part = "loop"    -> Loop!Next
         [] part = "pattern" -> Pattern!Next
         [] OTHER            -> UNCHANGED loopVars
    /\ IF part = "delegates" THEN Delegates!Next ELSE UNCHANGED delegateVars
    /\ IF part = "condenser" THEN Cond!Next ELSE UNCHANGED condVars
    /\ IF part = "bash" THEN Bash!Next ELSE UNCHANGED bashVars
    /\ IF part = "port" THEN Port!Next ELSE UNCHANGED portVars
    /\ IF part = "powershell" THEN Shell!Next ELSE UNCHANGED shellVars
    /\ IF part = "local" THEN Local!Next ELSE UNCHANGED localVars
    /\ IF part = "tokens" THEN Tokens!Next ELSE UNCHANGED tokenVars
    /\ IF part = "nested" THEN Nested!Next ELSE UNCHANGED nestedVars

MCSpec == MCInit /\ [][MCNext]_mcVars

-----------------------------------------------------------------------------
\* The first two recoveries after a message of the user remove the loop
\* (_truncate_memory_to_point): the next step does not find the agent stuck again.
LoopRemoved == Pattern!LoopRemoved

\* No recovery from a loop takes away a message of the user that was there when the
\* loop was found: the index of the loop's start (is_stuck) counts from the last one.
UserMessagesKept == Loop!UserMessagesKept

\* What _init_history reads back from the stream is what on_event has collected,
\* with delegates that came and went.
RestoredAsCollected == Delegates!RestoredAsCollected

\* However often a rolling condenser has condensed the history, the view begins
\* with the first events (keep_first).
HeadKept == Cond!HeadKept

\* A condensation by size leaves half of max_size: the head, the summary, and
\* all of the last events.
ShrinksToTarget == Cond!ShrinksToTarget

\* BashSession.execute types no command into a process that is still running.
NotTypedIntoRunning == Bash!NotTypedIntoRunning

\* Observations show each line that commands print once and in order, across
\* timeouts, refused commands, inputs and late ends (_get_command_output).
EachLineOnce == Bash!EachLineOnce

\* The exit code in an observation is the one of its own command.
OwnExitCode == Bash!OwnExitCode

\* Port lock files exclude other processes as far as each platform's way of
\* locking (PortLock.acquire, release) can.
LocksExclude == Port!LocksExclude

\* No output of a PowerShell job is lost between the observations that calls of
\* execute return, whenever the job prints and ends.
OutputKept == Shell!OutputKept

\* Every action execution server that runs has an owner who will stop it, and
\* works for one conversation (LocalRuntime.connect, close, delete).
ServersOwned == Local!ServersOwned

\* A refresh token is sent to the provider once (AuthTokenStore.load_tokens), and
\* the one in the database is not used up, unless an answer was lost.
RefreshedOnce == Tokens!RefreshedOnce

\* The pages of NestedEventStore.search_events are together one search, in order,
\* with nothing missed or repeated while events are written.
PagedAsOne == Nested!PagedAsOne

=============================================================================
