# TLA+ models of the OpenHands core

The repository is OpenHands: a server that lets a language model work in a
sandbox on a user's behalf. Paths below are relative to `OpenHands/openhands/`,
or to `OpenHands/enterprise/` where it says so. This directory holds TLA+
modules of the parts on which the rest depends, TLC configurations for small
instances of them, and proofs checked by TLAPS. `PROJECT.json` lists the runs,
what each definition models, the deliberate mistakes ("mutants") that the
properties must notice, the hazards and the findings.

## The system

Everything that happens in a conversation is an *event* on an *event stream*:
actions (what the agent or the user wants done) and observations (what came of
it). The stream stores the events and passes them to its subscribers, each of
which handles them on a thread of its own and adds new ones. Nobody calls
anybody else directly, with one exception: an error status reaches the
controller from the web server's thread. A *session* holds the stream, the
controller and the runtime of one conversation; a *conversation manager* starts
and closes sessions for the browsers that join.

| Component | State | Operations | Interacts with | What is hard |
|---|---|---|---|---|
| `EventStream`, writing (`events/stream.py`, `event_store.py`) | event files, cache page files, `cur_id`, lock, write page, queue | `add_event`, recomputing `cur_id` after a restart | called by all threads; the file store | threads between the lock and the file, writes that raise, crashes |
| `EventStore`, reading (`event_store.py`) | a generator's position and page | `search_events`, page lookup | reads what writers are writing | a page loaded before and used after other threads ran |
| `NestedEventStore` (`events/nested_event_store.py`, `/events` in `server/routes/conversation.py`) | cursors, what is left of the limit | `search_events` over HTTP, page by page | the store of another server | events written between two pages |
| `EventStream`, dispatch (`stream.py`) | subscribers, one pool per callback, the queue thread | `subscribe`, `unsubscribe`, `close`, `_process_queue` | all subscribers | dictionaries without a lock, an exception that ends the queue thread |
| `AgentController` (`controller/agent_controller.py`) | agent state, pending action, iteration flag, history, delegate | `on_event`, `_step`, `set_agent_state_to`, `_reset`, `close`, delegates, loop recovery | stream; runtime and memory through it; the session directly | messages that overtake observations, stop against execution, late errors, who takes the next step |
| `StuckDetector` and loop recovery (`controller/stuck.py`) | the index of the loop, `end_id` | comparing patterns of events, truncating the history | controller, saved state | one index used on two lists, long histories, restarts |
| `State`, `StateTracker` (`controller/state`) | history, `start_id`, `end_id` | save, restore, `_init_history` | stream, file store | what a restart reads back is not what was there |
| Condensers and `View` (`memory`) | which events the model sees | forgetting, summarising | controller | boundaries, repeated condensation |
| Runtime, Memory as subscribers (`runtime/base.py`, `memory/memory.py`) | the action being run; knowledge | `on_event`, `run_action`, `set_runtime_status` | stream, status callback | a failure leaves no observation; an event loop that runs only while an event is handled |
| `WebSession`, `AgentSession` (`server/session`) | controller, stream, runtime | start, close, dispatch, status messages | all of the above | close against start |
| `StandaloneConversationManager` (`server/conversation_manager`) | sessions, connections, attached conversations | join, evict, close, clean-up, attach, detach | sessions | awaits between a check and its use, tasks that are cancelled |
| `ClusteredConversationManager` (enterprise `server/`) | keys in Redis, local sessions, messages | start, refresh, close, restart after a stop | Redis, other servers | expiry, late refreshes, servers that vanish |
| `BashSession` (`runtime/utils/bash.py`) | what the pane showed, the last status | `execute`, the two timeouts | tmux | the screen is looked at now and used later |
| `WindowsPowershellSession` (`runtime/utils/windows_bash.py`) | the active job, how much of its output was reported | `execute`, check, stop, `close` | PowerShell jobs | jobs print and end between two looks |
| Port locks (`runtime/utils/port_lock.py`, `runtime/impl/docker`) | lock files | acquire, release, choosing a port | other processes | unlock and unlink, processes that die |
| `LocalRuntime` (`runtime/impl/local`) | running and warm servers | connect, execute, close, delete | sessions, executor threads, processes | dictionaries without a lock, used from several threads |
| `BatchedWebHookFileStore` (`storage/batched_web_hook.py`) | batch, size, timer, sends | write, delete, timer, send with retries, `flush` | a file store, an HTTP server | timers that fire late, unordered sends, retries |
| Provider tokens (enterprise `storage/auth_token_store.py`, `server/auth/token_manager.py`) | one row per user | load with refresh, store | the identity provider | refresh tokens that work once; answers that are lost |
| LLM layer, agents, other runtimes, security, MCP, integrations, nested managers, app server, rest of the enterprise server, frontend, CLI, evaluation | — | — | remote services, containers, databases | outside what a model checker can say |

What makes each correct:

* writing: no event is lost, overwritten or published before it can be read;
  pages say the same as files;
* reading, also over HTTP: a search returns what was asked for, misses nothing
  that was there when it began, and ends;
* dispatch: every subscriber gets every event, once and in order, and nothing
  after it has left; closing ends;
* controller: nothing risky is executed that the user did not confirm, no call
  is executed twice, limits hold, the agent never sits in RUNNING with nobody
  to take the next step;
* loop recovery: the loop is gone afterwards (not after several recoveries
  in a row, see below the findings), the user's messages that were there when it
  was found are not;
* state: a restart reads back the history that was collected;
* condensers: the first events stay, and a condensation is worth its while;
* sessions: what is in the table is open, what is open can be found, what is
  closed releases its sandbox, requests end;
* cluster: one server runs a conversation (unless the key expired under another
  one that was at work), and one does so again after a stop or a crash as long as
  somebody is connected;
* shells: a command is not typed into another, each line is shown, with the exit
  code of its own command;
* ports and servers: nobody else has my port; every process has an owner;
* web hook: no update is forgotten, sizes are right, files written once arrive;
* tokens: a refresh token is sent once.

## The modules

### The event stream

`EventLog` is the abstract specification of the stream: a log whose ids are
written once, and a list of published events taken from it.

`EventStream` is `add_event` as several threads execute it. `files`,
`pageFiles` are the file store; `curId`, `lock`, `pages` (the last is
`_write_page_cache`; threads keep references to older ones), `queue` are the
fields of the object; `pc` and `mine` are each thread's place in `add_event`
and its local variables. There is one action for each stretch of code that no
other thread can look into: taking the lock and the id, the rest of the critical
section, the event file, the page file, the queue; and one for each place where
an exception leaves the method. `Restart` is the death of the process and the
construction of a new stream. An event's content is the number of the call that
made it, so two events never look alike.

`EventSearch` extends it with searches. A search is a record in `rd`; one id of
the range is one step. It covers one life of the process, because the pages of an
earlier life can be wrong (see the findings).

`NestedSearch` is the same search from another server. It is a generator, so a
request (with the route's "one more than the limit") is a step, each event of
the page that the caller takes is another, and any events, with any gaps, are
written between them. A page is a set of ids, given by what it contains: the
first ones in the order of the search. An `end_id` is compared with
the ids that come by, so it ends the search only if there is such an event
(`nested_event_store.py:65`); the property is about searches without an end or
with one that was there when they began. With `reverse` an `end_id` is where the
search stops, unlike in `EventStore`; no caller does that, and the instance does
not either.

`EventDispatch` is the other half of `stream.py`. Since no lock protects the
dictionaries, each lookup of the queue thread is a step: copying the callback
ids, the check, the lookup of callback and pool, the submit. `subscribe` is two
steps, cleaning up a subscriber three. `alive` becomes FALSE where an exception
leaves `_process_queue`. The asyncio loop of a pool is left out. A callback id
is not reused after it was unsubscribed, unsubscribing happens outside the
callback, and no `subscribe` or `unsubscribe` overlaps with `close`.

### The controller and its history

`AgentController` composes the controller with the runtime, the memory, the
session's error statuses and the user, over a stream that is a sequence of
events (an event's id is its position: what `EventStream` and `EventDispatch`
show is assumed here). Handlers are functions from a record `World` to a
record, so that they compose as the methods call each other: for instance
`HandleMessage` sets the pending action, emits the recall, then calls
`SetAgentStateTo`. `OnEvent` is the whole of `on_event` up to the call of the
model; in between everybody else runs. What comes after it is `StepEnd`, or, if
the model has called a tool, three steps: `TakeAction` sets the pending action
(`agent_controller.py:1021`), `AskConfirmation` the state that waits for the
user's verdict, and `PutAction` announces the state and puts the action on the
stream (1029 to 1035). `ending` says where in this the controller's thread is. An
error status runs on the server's thread and is three steps as well: `StatusBegin`
sets ERROR, `StatusAnswer` is `_reset`'s search of the history and its
observation, `StatusEnd` nulls whatever is pending by then and announces whatever
the state is by then (625 to 732). So the two can come between each other's
parts, which is how a controller comes to await a verdict with nothing pending.
Two history variables record it: `interrupted` (an error status was under way
between the parts of the last step that made a call) and `crossed` (a message was
handled between the parts of an error status, which forgets the message's recall,
with a verdict behind it in the stream). Nothing in `set_agent_state_to` gives the
server's loop away, so inputs and the end of the session wait for an error status
to be over. Coarser than the code are: a handler up to the model's call, reading
the state and announcing it, the announcement of a question's state together with
the question (a verdict pressed between the two would be about an older question),
and the check of the pending action together with its use in `_reset` and in
`set_agent_state_to` (an `AttributeError` if it is nulled in between). The model's
answer is a free choice among `Outcomes`: a safe or a risky action, a message that waits or does
not, finishing, rejecting, a malformed answer, an exceeded context, an exception,
a rate limit. Being stuck and being over budget are free choices too. `held` is
a peculiarity of the memory: its error status is a task in an event loop that
has stopped, and waits for the next event. A verdict of the user is sent
while the client shows the buttons for it, which belong to the latest action that
awaits confirmation and go away when one is pressed; nothing on the server refuses
a second verdict on the same action (`agent_controller.py:693`). A client that asks
for RUNNING (`ChangeAgentStateAction`) is not among the inputs.

`LoopRecovery` is `is_stuck`, with its scenarios as operators on the events after
the last user message, and the recovery: the history is cut at the index of the
loop, a note about it is added, and the user is waited for or the last message
handled again, which adds a `RecallAction` as every message of the user does.
The index outlives the loop: `is_stuck` clears it only when it finds no loop
among at least three events behind the last message of the user (`LooksAgain`,
`stuck.py:81`). `found` is a history variable, the last event when the loop was
found. What is recalled is left out: nothing is found. Actions and
observations are values up to the comparison without process ids. `endId` is
set by the cut and never advanced (`agent_controller.py:1340`), so a restart
forgets everything since: `Restart` has that, and the properties are about what
a recovery itself removes. The fifth scenario, repeated condensation
observations, is left out: such observations are made for views only.

`DelegateHistory` is the parent's side of delegation: starting a delegate when
the action is delivered, forwarding events to it, ending it, and `_init_history`,
which finds the ranges of delegates in the stream again. `late` marks the
behaviours in which an event comes between a delegate's last event and its
result: it is swallowed by `on_event` (`agent_controller.py:455`) or falls into
the delegate's range and is in the history only until the next restart; the
properties exclude them.

`Condensers` is `View.from_events` and the choice of the forgotten events by four
condensers (the structured summary chooses like the plain one). A list
comprehension over the history is given by the positions it keeps, in ascending
order (`Selection`), rather than by a recursion, so that proofs can use it.
The window condenser is about the first message of the user: the system message
and the recall of that message, which it keeps as well, are left out.
`mode` becomes "error" where `min()` of nothing raises: a request to condense a
view that is already short; no property is about the error. `Constructed` is what the constructors demand of
their parameters: `KeepFirst` is less than `MaxSize \div 2`; with `keep_first = max_size // 2 - 1` the summarizing condenser has no
room for any of the last events.

### Sessions and managers

`ConversationManager` runs on one asyncio loop: an action is the code between two
awaits that really wait. `loops` and `conns` are the manager's dictionaries,
`sess` the sessions with the state of their start, `join` and `job` the places
of the coroutines: joins that may have to evict another conversation,
`_close_session` as executed by joins, by a request, and by the clean-up's tasks,
which `wait_all` cancels when its time is over. `old` says whether a start has
taken longer than `WAIT_TIME_BEFORE_CLOSE`. There is one client per conversation:
two clients that join one conversation while the manager evicts another both
start a session, and the first one is lost from the table. A save that raises
while a join closes another conversation ends the join.

`AttachedConversations` is the other table of the same manager, for one
conversation id: requests that attach, use and detach, the clean-up under the
lock, and the session whose runtime a conversation may borrow. Borrowing has no
effect on the session; a conversation that is kept while its session is closed
goes on using the closed session's runtime.

`ClusteredManager` is one conversation on several servers: the key in Redis, its
expiry and the late execution of a pipeline that refreshes it, the messages about
closing, and servers that vanish. The key is set for 15 s
(`clustered_conversation_manager.py:401`) and refreshed every 5 s, but only for
sessions in the table (lines 460-466); a start enters its session there after it
has closed other conversations, for which there is no limit of time. So the key
may expire under a server at work (`Lapse`), another server starts the loop, and
the first one registers its own, or deletes the key of the second when it closes:
two loops do run then. `lapsed` records the servers whose key was taken away while
they were at work. `OneOwner` says that there is at most one owner besides those,
and that without a key that expired early there are none of those: `SET NX`, the
deletes, the late refreshes, crashes and restarts add no other way. A session is
closed after its key is deleted (line 669), so that the last moments of one owner
may overlap with the first of the next; "owner" means a start under way, the entry
in the table or a delete under way. A start does not raise. A second start on the
server that has the loop replaces the entry; owners are counted by server.
`redis.delete` at line 646 is not awaited there.

### Commands, ports, servers, tokens

`BashSession` is the pane as a sequence of prompts, echoed and printed lines, the
shell and its process, and `execute` with what it remembers of the screen.
What lies between the prompts is given by positions (`Selection`), as in `Condensers`.
`Races = {}` in the run: no process ends between the look at the screen and the
reading of what was typed on the strength of it, and what is typed shows before
the next look. With "finish" or "echo" in `Races` all three properties fail.

`PowerShellSession` is the session's bookkeeping of one active job. Lines are
numbered; `told` are the lines in observations. The run checks that none is
lost. Lines can be shown twice: when `execute` finds the job ended, it resets
`_last_job_output` before it removes it from the output (`windows_bash.py:785`
and 809, although the comment at 814 says "Use the state *before* reset"), and
C-c returns all that was printed. Whatever the command was, the answer is then
the end of the previous one, and the new command is not executed. A job that
fails before the first look has its output dropped (line 1188).

`PortLock` has the lock files as inodes, so that a file that was unlinked can
still be locked; `fcntl` chooses the platform. Without `fcntl` the file itself is
the lock, and the file of a process that died stays: `cleanup_stale_locks` is
called nowhere. That the port becomes free again is not claimed.

`LocalServers` has the two dictionaries and the threads on them. The model shows
behaviours that no property forbids: a session that starts while the close of
its predecessor waits in the executor is given the server that is about to be
killed, or has its own entry removed (line 500); `delete` raises a `KeyError` (line
541) when the close has removed the entry while it waited for the process, and
the conversation's metadata stay; servers being made are not counted (lines 385,
470), so that there are more warm ones than desired. An exception between taking
a warm server and entering it (line 290) is left out; it would leave a server
without an owner.

`TokenRefresh` is the row lock around the refresh, for several requests, with
logins and with answers that are lost. After a lost answer the row holds a token
that is used up until the next login; the property says that this is the only
way, on the assumption that a login stores a fresh pair. `store_idp_tokens`
(`token_manager.py:158`) stores whatever the broker endpoint of Keycloak returns,
which is outside the repository; a pair from there that was used up before would
be another way.

`BatchedWebHook` is the file store that reports its updates. Writing the file
and queueing the update are two steps. A timer that has fired (`late`) waits for
the lock and can no longer be cancelled. `tasks` are the batches in the executor,
of which the first `Workers` are being sent; an attempt may succeed, be refused,
or be applied with the answer lost. `flush` holds the lock while it sends.

### The instances

`MCEventDispatch` and `MCBatchedWebHook` give values to the constants that a
configuration file cannot express. `MCEventSearch`, `MCAgentController`,
`MCComponents` and `MCConversations` hold several components, or several
instances of one, side by side: the variable `part` says which one runs in a
behaviour, and the others stay in their initial states. They do not interact, so
the state space is the sum, not the product, and every property is about the
part of its name.

Operators whose comment says "mutant" are deliberate mistakes. No specification
uses them; each replaces a definition to show that a property notices.

## The runs

| Run | Instance | Shows |
|---|---|---|
| `es_search` | 2 writers that may fail, 1 search of four kinds, 4 calls; and 3 writers, 5 calls, pages of 2, no failures | `SearchExact` (sound and complete), `SearchTerminates`; `PagePositions`: a stored page can be indexed by offset; `PagesCoherent`: it never contradicts an event file; `EveryIdPublished` |
| `ed_order` | 3 callbacks under 2 subscriber ids, 2 events, all calls | `DeliveredInOrder`, `QuietAfterUnsubscribe`, `EveryEventDelivered`, `CloseReturns` |
| `ac` | all outcomes, failing runtime, 2 inputs; safe and risky actions, verdicts, message, stop, failing runtime and memory, 2 inputs; risky actions, verdicts, message, stop, 4 inputs | `ExecutedAsAllowed` (risky calls only after a confirmation behind their question, no call twice), `AwaitingHasAction`, `WithinLimit`; `Settles` in the first |
| `conversations` | 2 clients and conversations with a limit of 1; 3 requests on one conversation; 2 servers of a cluster | `SessionsTracked`, `CleanCloseReleases`, `RequestsEnd`; `ConversationsKept`; `OneOwner`, `ClientsAreServed` |
| `components` | the parts below | one property or more for each |
| `wh_batches` | 2 writers, 2 paths, 3 updates, 2 sending threads, both kinds of failure | `SizeAccounts`, `NeverStranded`, `WrittenOnceArrives`, `EventuallySent` |

The parts of `components`: `EventStream` with 2 threads, 5 calls, serialising and
writing that may raise and 2 restarts (`PersistBeforePublish`, `PublishedOnce`,
`WriteOnce`, `ImplementsEventLog`: it refines `EventLog`); loops
(`LoopRemoved`, `UserMessagesKept`); delegates (`RestoredAsCollected`);
condensers (`HeadKept`, `ShrinksToTarget`); bash (`NotTypedIntoRunning`,
`EachLineOnce`, `OwnExitCode`); port locks of both platforms (`LocksExclude`);
PowerShell (`OutputKept`); local servers (`ServersOwned`); tokens
(`RefreshedOnce`); the search over HTTP (`PagedAsOne`).

Six more runs end in a violation, and each is a finding:

* `es_stale_page`: a thread stores a full page while another has not written the
  file of its event in it. If the process dies then, `_calculate_cur_id`, which
  looks at the event files only, gives the id to another event; searches go on
  answering with the old one from the page.
* `ed_unsubscribe`: `unsubscribe` waits in `pool.shutdown()` with the callback
  still registered. An event that is passed on meanwhile is submitted to the
  shut pool, `submit` raises, and the queue thread ends for all subscribers.
  (`subscribe` has a smaller window of the same kind: the callback is entered
  before its pool.)
* `ac_history`: a user message replaces the pending action while its command
  runs; once the recall is answered the model is called with an action that has
  no observation.
* `cm_close`: `AgentSession.close` gives up waiting for a start at once unless the
  start is already too old (the comparison is the wrong way round), and the
  controller and runtime that come up afterwards are never closed.
* `port_lock`: `release` unlocks and then unlinks by path; a process that locks
  the file in between holds a lock without a name, and the next one creates and
  locks a new file.
* `history_restore`: `_init_history` uses `start_id` as a loop variable and stores
  the id of the last delegation as the state's `start_id`; the next restart
  begins there.

Other places where the code does not do what its text says, seen while modelling
and not given a run of their own: `flush` (`batched_web_hook.py:265`) waits only
for the batch it sends, not for those the executor has; the error status of a
memory that fails is a task in a loop that has stopped (`memory.py:390`), so the
agent stays in RUNNING until the next event; the agent's question and the user's
next message can cross (`agent_controller.py:602`); an error status between 1021
and 1029 leaves the controller in AWAITING_USER_CONFIRMATION with nothing pending
(`AwaitingHasAction` names this case: without it TLC finds it in the first
instance of `ac`, and the client's buttons then lead nowhere); and if a message is
handled between the parts of an error status while a confirmation stands behind
it in the stream, the agent may step before it handles the confirmation, which
then approves a call that the user was not asked about (`crossed`; this takes five
inputs and failures, more than the run's bounds, and only the proof covers the
rest); two threads that write one
path can queue their updates in the other order (`batched_web_hook.py:93`). An
agent that was stuck and answers the user's next message with one of its own,
after which it waits, leaves the old index in place (`stuck.py:81` returns before
line 130 clears it, and `agent_controller.py:606` asks for nothing else): a
recovery that is requested then cuts the history at the old index, and the
message of the user, which came after the loop was found, goes with it.
`UserMessagesKept` is about the messages that were there for this reason; without
its second disjunct TLC finds that sequence. A start of an agent loop that takes
longer than 15 s lets a second server start it, too: "no other worker is running
this conversation" (`clustered_conversation_manager.py:398`) does not hold then
(without `lapsed` TLC finds it in the cluster). What
a recovery with the last message adds to the history that it has cut, a note and
a `RecallAction` (`agent_controller.py:1368`), is the same each time: after the
fourth without a new message of the user (the third, if the agent did one thing
in between each time) the next step finds a loop of these events, before the
agent acts. `LoopRemoved` is about the first two for this reason; without that
condition, TLC finds the history with four in `LoopRecovery` alone, for an agent
that only talks (no actions and observations, 26 events, 13 messages).

### Bounds

All bounds are constants that occur in guards. Deadlock is not checked in any
run: all these systems may come to rest.

* Stream: pages of 2 events (25 in the code) and 5 calls fill two pages and start
  a third; three threads are enough for a page that is filled by one thread,
  stored by another and still awaited by the third. Two restarts allow ids to be
  given again twice.
* Dispatch: two events let the queue thread be in the middle of one with another
  waiting; two callbacks under one subscriber id and one under a second cover
  both loops.
* Controller: four inputs allow two messages or a message and a stop around two
  verdicts; two with failures allow an error status that is late, and a message, a
  verdict or a stop that meets it; an iteration limit of 2 is hit, extended and hit
  again.
* Loops: 12 events with two actions and an error, 17 events for the alternating
  pattern of six, 4 messages, 1 restart: room for a loop, its recovery, another
  loop, and what follows. Delegates: 10 events allow two delegations with
  messages between and a restart in either. Condensers: `max_size` 6 and 14
  events allow several condensations, by size and by request.
* Sessions: 2 conversations with a limit of 1 make every second join evict; 2
  sessions, 1 request to close, a start and a save that may raise. Attached: 3
  requests, 3 objects, 2 sessions. Cluster: 2 servers and clients, 2 joins, 1
  request to close, 1 crash; and 1 key that expires early with 1 client and no
  request to close or crash (`ClusterBound`), which is enough for two loops of which
  one deletes the key of the other, and for a third start.
* Bash: 4 calls, 4 lines, a history of 7 items, so that prompts scroll off.
  PowerShell: 2 jobs of 3 lines, 5 calls.
* Ports: 2 processes, 2 ports, 4 files, 1 crash. Local servers: 2 conversations, 3
  servers, 3 runtimes, 1 warm server wanted: a runtime that closes while its
  successor connects while another conversation takes a warm server. Tokens: 3
  requests, 5 pairs. HTTP search: ids up to 3, pages of 1 and 2, so that a search
  takes up to four requests.
* Web hook: limits of the batch (3 bytes) are reached by one short and one long
  content, exactly and by overwriting.

### Fairness

Weak fairness only. `EventStream`: a thread inside `add_event` goes on (the
critical section does no waiting, and the file store returns). `EventSearch`: the
consumer of the generator goes on asking. `EventDispatch`: the queue thread and
the pool threads are scheduled, callbacks return, a call that has begun goes on.
`AgentController`: the subscribers' threads and the server's loop are scheduled;
commands and model calls return, because both have time-outs; the user owes
nothing. `ConversationManager`: a join, a request to close and a start that have
begun go on (each waits for timers or for calls with time-outs; a start may end
by raising). `ClusteredManager`: keys that nobody refreshes expire, messages are
processed, the periodic tasks run, and a server that has begun to start or to
close goes on; joins, requests and crashes are not fair. `BatchedWebHook`: threads
are scheduled, time passes, requests return; nobody has to call `flush`. An
action that starts something new (a call, an event, an input, an update, a
failure) is never fair by itself; where a fair action is a disjunction it
contains the failure as one way to go on.

## What is proved

Eight modules hold theorems. Each is about a component's own specification and
holds for every value of the component's constants that the assumptions named in
the module admit; the hypotheses beyond those are stated below. An invariant is
established in three steps (initial states, one case per action, consequence),
and was checked with TLC on the instance of the run before it was proved.

| Module | Theorem | States | Beyond the assumptions |
|---|---|---|---|
| `EventStreamProofs` | `TypeCorrect`, `PersistedBeforePublished`, `IdsPublishedOnce`, `FilesWrittenOnce` | `TypeOK`, `PersistBeforePublish`, `PublishedOnce`, `WriteOnce` | nothing: all failures and restarts |
| | `Refinement` | `ImplementsEventLog` | nothing |
| | `PagesIndexable` | `PagePositions` | serialising an event does not raise |
| | `PagesAgreeWithFiles` | `PagesCoherent` | and the process does not restart |
| | `SearchIsExact` | `SearchExact` | serialising an event does not raise |
| `EventDispatchProofs` | `CallbacksQuiet`, `EventsDeliveredInOrder` | `QuietAfterUnsubscribe`, `DeliveredInOrder` | nothing |
| `BatchedWebHookProofs` | `UpdatesNeverStranded`, `WritesArrive`, `BatchSizeAccounts` | `NeverStranded`, `WrittenOnceArrives`, `SizeAccounts` | nothing |
| `AgentControllerProofs` | `RunsAsAllowed`, `AwaitsWithAction`, `StepsWithinLimit` | `ExecutedAsAllowed`, `AwaitingHasAction`, `WithinLimit` | nothing |
| `ConversationsProofs` | `ClosedIsReleased` | `CleanCloseReleases` | nothing |
| | `TableTracksSessions` | `SessionsTracked` | one client per conversation (`OneClientEach`) |
| | `SessionsInTableOpen` | the part of it that needs no such hypothesis | nothing |
| | `ConversationsStayConnected` | `ConversationsKept` | nothing |
| | `ClusterOneOwner` | `OneOwner` | nothing |
| `ComponentsProofs` | `TokensRefreshedOnce`, `PortLocksExclude`, `LocalServersOwned`, `ShellOutputKept` | `RefreshedOnce`, `LocksExclude`, `ServersOwned`, `OutputKept` | nothing |
| `ReadingProofs` | `BashNotTypedIntoRunning`, `BashOwnExitCode`, `BashEachLineOnce` | `NotTypedIntoRunning`, `OwnExitCode`, `EachLineOnce` | no races (`Races = {}` in `MCComponents`) |
| | `LoopUserMessagesKept` | `UserMessagesKept` | nothing |
| | `NestedPagedAsOne` | `PagedAsOne` | nothing |
| `CondensersProofs` | `ViewsBeginWithHead`, `CondensationsShrink` | `HeadKept`, `ShrinksToTarget` of `Condensers` | `Constructed`: what the constructors demand |
| `ReadingProofs` | `CondensersKeepHead`, `CondensersShrink` | the same two as the run states them | nothing: `CondensersAssumption` is `Constructed` |

The assumptions on constants say that bounds are natural numbers, that sizes are
not zero, and that the names of threads, conversations and requests differ from
the words the models use for "nobody": `BoundsAssumption`, `HomeAssumption`,
`NamesAssumption` (`ConversationManager`), `RequestsAssumption`
(`MCConversations`; requests are finitely many because they are counted),
`WebHookAssumption` (contents have sizes, the limit is not zero) and
`ComponentsAssumption` (`MCComponents`; a search has a start, and a limit or
none). `CondensersAssumption` is `Constructed` for the constants of `MCComponents`:
`ReadingProofs` instantiates `CondensersProofs` with them and shows, definition by
definition, that the instance is the one that the run checks.

### The arguments

*Writing.* `LogInv`. `PersistBeforePublish` alone is not inductive: one has to know
that a thread about to publish has written its own file (`IdInv`), that no other
thread has the same id, which needs that ids are taken under the lock
(`LockInv`) and that `curId` is above all ids on disk and in use, also after a
restart (lemma `MaxOfBounded` on the highest id), and that what is on the queue
is in no thread's hands (`QueueInv`). For the pages: all but the last are full,
ids in a page are consecutive and the last page ends just below `curId`
(`ShapeInv`); an entry agrees with the file of its id and with the thread that
is about to write that file (`CoherenceInv`). The two hypotheses are needed: an
exception between `cur_id += 1` and the `append` shifts the positions, and
`es_stale_page` shows what a restart does.

*Reading.* `SearchInv`. The events in the page a search holds and those it has
yielded are `Good`: below `curId`, and in agreement with the file of their id,
written or about to be. A good event stays good whatever the writers do, so that
it does not matter how old the page is; the rest is about one search: what was
yielded was tried and wanted, what was on disk in the beginning and was tried was
yielded, and the loop leaves its range only at the far end or behind the last
event of its limit. `SearchSpec` contains no restart, so that the second
hypothesis of the pages is not needed.

*Dispatch.* `PoolInv`: a callback without a pool has no work, and a callback that
is not registered has no pool, in whatever order the dictionaries are changed
under the queue thread. `OrderInv` relates what a callback was given to where the
queue thread is in its round over the copied ids (`Cover`): it reaches up to the
event in hand or to the one before, depending on whether the callback is still to
be visited; nobody is visited twice in a round, and a callback has one pool in its
life.

*Web hook.* `TimerInv` adds that the batch is empty while `flush` holds the lock,
which is why `flush` may cancel the timer last. `ArriveInv`: a path that was
written once is held by the writer, the batch, a task or `flush`, with no other
contents than the file's, until it has arrived or was given up. `SizeInv`: the
size of a batch is written as the number of its bytes, pairs of a path and a
position, so that replacing the contents of a path takes away one finite set and
adds a disjoint one; an update still to be queued has a path and contents of the
instance, and a batch that reached the limit is gone before the lock is.

*Controller.* `ControlInv` is stated on the record `World` and preserved by each
operator the handlers are made of, so that a handler's proof follows its calls.
In the stream each call has at most one event that lets the runtime go on, and it
stands behind a confirmation if the user was asked (`LogOK`); the pending action
knows whether its event is still to come (`PendingOK`); a verdict that is on its
way finds the question it answers, or no question (`VerdictOK`); and the state
that a client was told of is the one in which verdicts are sent (`Announced`).
The last two are what keeps a verdict from confirming a later question. Between
the parts of a step the call is pending or, if an error status has interrupted it,
forgotten, and it is not yet on the stream (`EndingOK`); while an error status is
under way only a message without a verdict behind it sets the agent running
(`StatusOK`), unless `crossed`, under which nothing is claimed of verdicts.
`LimitInv` counts messages: `max` grows at most once for each message handled, and
only inputs make messages.

*Sessions.* `CoreInv` and `JoinInv`: a session that a task closes is in no entry
of the table, and who waits has marked it as closed; a session closed in peace has
nothing left and is not started. `FoundInv` adds that nobody else starts a loop
for the conversation a join makes room for; this is where the hypothesis
`OneClientEach` is used. `AttachedInv`: what is connected is what one of the two
tables names, those who use a conversation use the active one and are counted,
and who connects or cleans up has the lock. `ClusterInv`: an owner from whom the
key was not taken has it set, so that `SET NX` fails while there is one; and as
long as no key has expired early a server does one thing at a time (`OneThing`), so
that who deletes the key was the only owner and is one no longer.

*Tokens, ports, servers, shells.* `TokenInv`: who is past the read has the row,
and pairs that are issued are new. `PortInv`: a file created exclusively belongs
to the process that will remove it, and a flock to one that has the inode open.
`LocalInv`: a server waits once, what waits is used by nobody, an entry's server
is used by its own conversation only, and what runs has a runtime that is not
closed or waits. `ShellInv`: every job but the active one is over, and each
observation begins where the last one that counts ended. `BashInv`: the prompt at
the end of the pane is the one of the last command that ended, and nothing typed
is left unread when a call ends. `LinesInv` is about what the pane shows besides
prompts: it begins with what the last output had, and the lines behind that, put
after the ones already reported, are all the lines that were printed. A call that
is refused reports from the pane it captured, so the same is said of that pane,
with what came since in between. What the outputs filter and count is given by
positions (`Selected`), and choosing from two sequences one behind the other is
choosing from each (`SelectedConcat` of `CondensersProofs`). Once lines have
scrolled off nothing is claimed.

*Recovery.* `LoopInv`: as long as a recovery is possible, what stands in the history
at or after the index of the loop is no message of the user or came after the loop
was found, so that what the recovery cuts off has no message that was there
before. New events get ids above `found`, whether or not the step that adds them
clears the index. The detector looks at the events behind the last message only; whatever
its scenarios find there, the index that it stores lies behind that message,
although it is counted from another beginning. The patterns themselves do not
matter, and the proof does not depend on them.

*Search over HTTP.* `SearchInv` of `NestedSearch`: the ids are gone through from
one side. What was yielded lies behind the cursor, in order, and nothing else
that was wanted and there in the beginning does (`YieldedBehind`); the end and a
part of the limit are still ahead (`EndsAhead`); and whatever a page left out
comes after all of it (`PageAhead`), also when the cursors turn to the next
page. Events that are written meanwhile only ever add to what may be yielded.

*Condensers.* `CondInv`: no condensation forgets one of the first events, and
there are more than those as soon as a summary takes the place of others. The
view is then the ascending sequence of the ids that are left, with the summary
inserted. Ascending sequences of the same set are the same (lemmas `RankOnto`,
`AscendingOnly`), so that a view after a condensation is the view before it with
a middle taken out (`WithoutMiddle`); `CutBySize` and `CutByWindow` say which
middle each condenser takes, and its length is what `ShrinksToTarget` needs.

### Only model-checked

* Every liveness property and the fairness behind it, which are out of the
  prover's reach: `SearchTerminates`, `EveryIdPublished`, `EveryEventDelivered`,
  `CloseReturns`, `Settles`, `RequestsEnd`, `ClientsAreServed`, `EventuallySent`.
* What a fold or a filter over a sequence computes, which needs induction over
  data, for which the provers have no means: the ranges and the two passes over
  the stream in `DelegateHistory` (`RestoredAsCollected`), the last actions and
  observations that the scenarios of `LoopRecovery` compare (`LoopRemoved`, which
  is stated for the first two recoveries after a message: with more it is false).
* The six properties of the runs that expect a violation: the code does not have
  them, and there is nothing to prove.

## What is not modelled, and the plan

Most of the repository's Python is routes, integrations, prompts, data classes and
clients of remote services, containers and databases: their state is elsewhere, or
they have none. The modules cover about six per cent of its lines, the ones in
which threads, processes and restarts meet. Not modelled at all: the language
model layer, agents, the execution of commands in the sandbox and the other
runtimes (among them `RemoteRuntime`, whose retry after a network error may
execute an action twice), the nested conversation managers, whose state is kept
by containers and a remote API, security analyzers, integrations, the app server
(databases and an SDK outside the repository), billing, maintenance tasks and
routes of the enterprise server, user interfaces, replay. `PROJECT.json` lists
them with reasons. Secrets, serialisation and wording are abstracted: an event is
its kind, its cause, its call and one argument.

Next, in this order:

1. `LoopRemoved`: the last actions and observations given by their positions
   (`Selected` of `Selection`) instead of by a filter; that no scenario finds a
   loop in a history cut before its first event with at most two notes behind it.
2. `RestoredAsCollected`: the delegate's ranges as a set of pairs of positions.
3. The retry of `RemoteRuntime` after a network error, as a module.
