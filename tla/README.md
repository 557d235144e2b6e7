# Formal models of erl-node-monitor

The repository is a monitor for clusters of Erlang nodes. A Go exporter collects node and host metrics
over SSH and publishes them to Prometheus. A Go operations agent lets a language model diagnose a node
and run commands that an administrator approves. A Grafana plugin drives both, and shell scripts deploy
the whole. This directory holds TLA+ models of that code, the TLC configurations that check them on
small instances, and proofs checked by TLAPS.

Paths below are relative to the repository root. `PROJECT.json` maps every definition to the lines it
models and lists hazards, runs, findings and theorems.

## 1. The system

| Component | State | Operations | Talks to |
|---|---|---|---|
| **Collection scheduler** `internal/exporter` (Poller) | `p.config`, one `scheduleControl` (mode flag, `wake` and `manual` channels of capacity 1) per server, one goroutine per enabled server with a timer and an `updates` channel of capacity 1 | `Start`, `ApplyConfig`, `runServer`, `/schedule`, `/collect`, `Wait` | reloader calls `ApplyConfig`; HTTP handlers use the controls; the goroutine calls the collector |
| **Node status and confirmation** `internal/exporter` (collect, confirm) | metric series, `p.knownNodes`, entry of the status store | `collect`, `confirm`, `applySelectedConfirmation`, `removeStaleNodes`, `deleteServerState` | collector, status store, Prometheus registry |
| **SSH collector** `internal/sshprobe` | last CPU and network counters per server and node | `Collect`, `CollectSelected` | server over SSH; called by the scheduler |
| **Runtime status store** `internal/runtime/status.go` | map of server statuses under `mu`, file under `persistMu` | `Update`, `Delete`, `Snapshot` | written by every goroutine, read by `/status` and `/healthz` |
| **Hot reload** `internal/config/hotreload.go` | digest last seen, `ReloadStatus` | `scan` every 5 s, `reject`, `Status` | configuration file; calls `ApplyConfig`, then `UpdateIgnoredNodes` |
| **DingTalk adapter** `internal/dingtalk` | ignored nodes, delivery status and its file | webhook, send, `UpdateIgnoredNodes`, health | Alertmanager calls it and repeats what failed |
| **Operations task** `internal/opsagent/agent.go` | per task: status, pending command, queued calls, messages, steps, context; goroutines that drive it | `CreateTask`, `runLoop`, `dispatch`, `Decide`, `resumeQueuedCalls`, `watchTaskDeadline`, `reaper`, `Close` | model API, shell executor, administrators over HTTP |
| **Event stream** `internal/opsagent/handler.go` | per task: event history, subscriber channels | `emit`, `Subscribe`, SSE handler | browsers, `Last-Event-ID` |
| **Shell policy** `internal/opsagent/shell.go` | none | validation, exemption from approval, `Execute` | used by `dispatch` and `Decide` |
| **Model client** `internal/opsagent/model.go`, `anthropic.go` | none | `Complete` | external model API |
| **Collection controls** `grafana/plugins/.../src/module.js`, `control-logic.js` | per document: contexts of dashboards, cooldown deadlines (in memory and in `sessionStorage`), the newest flow of each server; marks of hidden elements | `installControls`, `refreshControlState`, `handleDocumentClick`, `triggerCollection`, `installMonitorNavigation`, `applyHomePresentation` | Grafana's pages and API, `/collect`, `/status`, Prometheus |
| **Overview page** `overview-page.js`, `overview-logic.js` | context, snapshot, error, busy | `loadSnapshot`, `collectNow`, merge of samples and alerts | Grafana's API, Prometheus, `/collect`, `/status` |
| **Operations page** `ops-page.js` | selected server, the task as last answered | start, decide, new task, polling, event stream | agent HTTP API |
| **Code analysis page** `code-page.js`, `code-logic.js` | conversation (also in `sessionStorage`), selected project, stages | handshake, submit, new conversation, parsers of reports and lists | remote MCP server |
| **Linux deployment** `linux/*.sh` | lock file, working copy, services | update, validate, install, restart | SVN, systemd |
| Exporter and agent programs `cmd/` | the program's context | start and shutdown order | all of the above |
| Windows scripts, alert rules, dashboards, `internal/deployconfig` | none of interest | | |

What is hard, and what makes each part correct:

* *Scheduler.* Five parties meet without a common lock: `ApplyConfig` (holding `p.mu` for its first half
  only), the goroutines, their timers, HTTP handlers and shutdown. It is correct if the newest
  configuration is the one that is used, no server has two goroutines, no series outlives its server
  or its name, the periodic timer is never forgotten, requests are served, and `ApplyConfig` returns.
* *Node status.* Sequential, but driven by anything the server may answer, over several rounds in which
  nodes change names (a stopped node is known by its directory only). Correct if the published series,
  the status entry and its counters tell the same story, and failures are confirmed exactly once.
* *Operations task.* The model's goroutine, several administrators, a deadline, a reaper and shutdown
  share one task; the lock is released around everything slow. Correct if the task has one actor at a
  time, commands run at most once and only as approved, the conversation stays well formed through
  pauses, and ended tasks stay ended.
* *Event stream.* Events leave the lock before they are sent, channels drop when full, connections break
  and resume. Correct if a connection carries each event once, what one goroutine emits stays in order,
  and the end of the task reaches the page.
* *Reload, status files.* Correct if the last readable configuration is in force and the files hold the
  newest value. *DingTalk:* filters match the published configuration, a failed message is reported as
  failed. *Deployment:* one update at a time, no restart on a bad configuration.
* *Controls.* A click waits for a context, a collection and a scrape, minutes in all, while the user clicks
  again, goes elsewhere or reloads. Correct if a server is collected once per cooldown, an automatic
  refresh shows what the click asked for and on its page only, and no flow waits for ever. Grafana
  renders the home page and the menu in pieces; correct if a home page with a dashboards section has the
  marks of this section, whatever was marked before, and no other page has any.
* *Pages.* Answers of parallel requests arrive in any order or not at all, and some outlive what they were
  asked for. Correct if the page shows data of the dashboard or task it is on, becomes usable again after
  every request, and a conversation keeps its questions, answers and project together.
* *Page logic.* Texts of a language model, lists and vectors of any shape. Correct if nothing is lost,
  doubled or attributed to something else, and a request stays within its limit.

## 2. Plan

| # | Module | Models | State |
|---|---|---|---|
| 1 | `Poller` over an abstract `ConfigFollower`, `MCPoller`, `PollerProofs` | collection scheduler | modelled, checked, proved |
| 2 | `NodeStatus`, `MCNodeStatus`, `NodeStatusProofs` | what a collection publishes, confirmation | modelled, checked, proved |
| 3 | `OpsTask` over an abstract `ApprovalGate`, `MCOpsTask`, `OpsTaskProofs` | life cycle of a task | modelled, checked, proved |
| 4 | `TaskEvents`, `MCTaskEvents`, `TaskEventsProofs` | `emit`, `Subscribe`, SSE handler: order, duplicates, streams that end | modelled, checked, proved |
| 5 | `HotReload` | `scan`, digest, status, order of the callback; the `DingTalk` filter it updates last | planned |
| 6 | `StatusFile` over an abstract `AtomicFile` | `Update` and `persist` with their two locks; refinement | planned |
| 7 | `Controls` over an abstract `RateLimit`, `ControlsProofs` | browser controls with their cooldown, wait for a fresh sample | modelled, checked, proved |
| 8 | `Navigation`; `Plugin`, `MCPlugin` compose it with `Controls` | marks of the home page and the menu | modelled, checked, proved in `PluginProofs` |
| 9 | `Overview`, `AgentPage`, `CodeChat`; `Pages`, `MCPages` compose them | the plugin's own pages | modelled, checked, proved in `PagesProofs` |
| 10 | `Markdown`, `ChatLogic`, `SampleLogic` over `Lists`; `MCLogic` enumerates inputs | pure functions of the pages | modelled, checked, proved in `LogicProofs` |
| 11 | `DingTalk` | delivery, repetition, status | planned |
| 12 | `ShellPolicy`, `SampleDeltas` | pure operators: which commands need approval; rates from counters | planned |
| 13 | `Deployment` | `update-and-restart.sh` with failures between its steps | planned |

Abstract specifications: `RateLimit`, which `Controls` implements; `ConfigFollower`, in which workers are
told the published entries and take them up, implemented by `Poller`; `ApprovalGate`, in which a command is
proposed, approved or denied, and executed, implemented by `OpsTask` (all three done); `AtomicFile`.

Proofs, in this order: `Poller` and `Controls`, then `NodeStatus`, `OpsTask` and `TaskEvents`,
`Navigation` in `Plugin` and the three pages in `Pages`, the refinements of `ConfigFollower` and
`ApprovalGate`, the page logic for inputs of every length (done); then `StatusFile`.

## 3. The modules

Comments in the modules say which code a definition stands for. Operators marked *Mistake* are
faulty variants of the definition that follows them. No specification uses them: each property is shown
to fail when its variant takes the definition's place.

### Poller

| In the model | In the code |
|---|---|
| `config`, `control`, `workers`, `worker`, `update` | `p.config`, `p.controls`, keys of `p.workers`, the locals of `runServer`, `serverWorker.updates` |
| `applier` | where `ApplyConfig` stands; `p.mu` is held while `pc` is `"reconcile"` |
| `worker.pc` | `collect` in `collectAndConfirm`, `top` at the head of the loop, `select` blocked in one of the two selects |
| `worker.mode` | the result of `isAuto()` by which the current select was chosen |
| `worker.timer` | `armed`, `ticked` (a tick waits in `timer.C`), `off` (the tick was received, not reset) |
| `series` | the name and address labels a server's series carry in the registry |
| `client` | handlers between `controlFor`, `setAuto` and the send on the channel |
| `ApplyBegin`, `QueueTry`, `QueueDrain`, `QueueSend`, `ApplyStart`, `ApplyRetire` | the stages of `ApplyConfig`, `queueServerUpdate` in its three channel operations |
| `LoopTop`, `Select*`, `FinishCollect` | one iteration of `runServer`, one disjunct for each case of the selects |
| `Fetch`, `SetFlag`, `SendWake`, `RequestManual` | `ScheduleHandler`, `CollectHandler` |
| `Shutdown` | the signal context of `main` |

`rearmed` is a history variable: has the timer been set since the mode last changed? `orphan` records
that a handler holds a control that was replaced since (server removed and listed again).

`ConfigFollower` is the comment of `ApplyConfig` as a specification: servers, their published entries, what
each worker was told last and what it works with. In the mapping `Serving` is the entry of a running
worker and `Told` the update in its channel, else that entry. When `queueServerUpdate` finds the channel full,
the worker counts as told once the stale update is out of the channel: from then on only the
published entry can come next.

Abstractions. A collection is one step that leaves series behind under the entry it was started with;
its content is `NodeStatus`. An entry has an identity (name, address), an enabled flag and a value for
all other settings. Durations are left out: an armed timer may fire at any moment. Timer channels are
those of Go before 1.23, which `go.mod` selects (a tick may be waiting when the timer is
reset); `resetTimer` stops and drains before `Reset`, and the short race between the runtime's
send and that drain is left out. HTTP handlers that fail validation change nothing.

### NodeStatus

| In the model | In the code |
|---|---|
| `nodeUp`, `serverUp`, `hostUp` | series `erlang_node_up`, `erlang_server_up`, `erlang_host_up` |
| `known` | `p.knownNodes[server]` |
| `status` | the `ServerStatus` in the store; `errors` distinguishes a node's own failure from the transport error it inherits |
| `schedule` | the remaining `scheduledConfirmation`s in `confirm` |
| `FullResults`, `SelectedResults` | every result `Collect` and `CollectSelected` can return, given any set of running processes and instance directories |
| `PublishFull` | `collect` with `removeStaleNodes` |
| `ApplySelectedConfirmation` | the function of that name |
| `Collect`, `Round`, `AbandonConfirmation` | `collectAndConfirm`, an iteration of `confirm`, `waitForConfirmation` returning false |
| `DeleteServerState` | `deleteServerState`, with the new goroutine's context |

A result is published in one step: the goroutine is the only writer of its server's entries. A scrape
between two of its writes can see half of them; this is not modelled. A process is identified by its
`name@host`, and the instance directory by the part before `@`, as `shortNodeName` does. The order of the
two rounds comes from the configured intervals and is arbitrary. `rechecked` and `total` are history
variables.

### OpsTask

| In the model | In the code |
|---|---|
| `status`, `pending`, `queued`, `messages`, `steps`, `loaded` | fields of `taskState` |
| `ctx`, `watching`, `listed` | the task's context, `watchTaskDeadline`, the entry in `Agent.tasks` |
| `driver[g]` | a goroutine in `runLoop`, `processToolCalls`, `dispatch`, `resumeQueuedCalls`, `complete` or `fail` |
| `handler[h]` | a request in `Decide`; `shown` is the call the administrator saw |
| `Loop` ... `FinishCancel` | steps between two points at which another goroutine can see the task |
| `Decide`, `Refuse`, `ExecuteApproved`, `RecordApproved`, `SpawnResume` | `Agent.Decide` |
| `Expire`, `WatchDeadline`, `Reap`, `Close` | deadline, watcher, reaper, shutdown |

A tool call is a position in the conversation and a kind: a tool that is answered at once, `load_skill`,
a read-only command that needs no approval, or a guarded command. The kind stands for the verdict of the
shell policy. Call identifiers, which the model API chooses, are assumed to be unique within a task.
`approved`, `executed` and `ended` are history variables. Logs are left out; events are in
`TaskEvents`.

`ApprovalGate` is what `docs/ops-agent-overview.md` promises of commands, without goroutines, handlers, turns
or a deadline. In the mapping the answered calls are those with a result in `messages` (`AnsweredCalls`);
the other variables are those of `OpsTask`.

### TaskEvents

| In the model | In the code |
|---|---|
| `events`, `listed`, `status` | `state.Events`, the entry in `Agent.tasks`, whether `terminalTask(state.Status)` |
| `writer[w]` | a goroutine in `emit` (`send`: it has left the lock), or between a terminal status and its event (`ended`) |
| `stream[b]` | a run of `Handler.events`: the status `Get` returned, the history and channel of `Subscribe`, what was written so far |
| `Emit`, `Send`, `Sent` | the critical section of `emit`, one channel of its loop, its end |
| `Get`, `Subscribe`, `WriteHistory`, `Deliver`, `Disconnect` | the stages of `Handler.events` |
| `Revive`, `Reap` | `dispatch` after the deadline, the reaper |

`OpsTask` says which goroutine is active when. Here any of them may emit at any time: the deadline watcher
and the decision handler do emit beside the goroutine that drives the task. The browser is external: an
`EventSource` connects again by itself with the ID of the last event it received, unless it was answered
404, and the page may open a new one from the beginning or leave. `received`, `dropped` and `source` are
history variables; `dropped` is what `emit` found no room for on the present connection.

Two ways to miss the last event are in the code, and `EndIsLost` names them: the channel is full, or an
event with a later ID overtakes the last one, is received, and the connection breaks before the last one
follows. The page also polls the task every second and does not depend on the stream alone, so neither is
reported in section 6.

### Controls, RateLimit, Navigation, Plugin

| In the model | In the code |
|---|---|
| `loc` | `window.location`: dashboard, parameter `erlang-monitor-dashboard`, `refresh=auto` |
| `contexts`, `requests`, `polls` | `contexts`, `contextRequests`, calls of `refreshControlState` that await them |
| `stored`, `memory`, `storage` | deadlines ahead in `sessionStorage` and `memoryDeadlines`; whether the former can be used |
| `current`, `flow` | `collectionGenerations` with its newest flow, a run of `triggerCollection` between two awaits |
| `attempt`, `scraped` | external: collections of a server that ended, how many of them the newest sample includes |
| `Click`, `Begin` ... `AutoRefresh` | `handleDocumentClick`, the stretches of `triggerCollection` between its awaits |
| `Elapse`, `Reload`, `Navigate` | ten seconds pass, a new document, another page |
| `RateLimit!Grant`, `CooldownsOver` | what docs/scheduling-control.md says of the button |
| `Navigation!ApplyHomePresentation`, `Apply`, `Observe` | the functions of that name, a callback of the `MutationObserver` |
| `Navigation!UserAnswer`, `Render*` | the answer of `/api/user`; external: what Grafana renders |
| `Plugin` | `installControls`: both in one document |

Times are compared through the number of collections that ended, so "a sample not older than the attempt"
is a comparison of counters; clocks that differ are left out. `last_attempt` read before the request may be
any value between the click and the answer. A wait may end at any time, which covers its deadline and a
flow that stopped being current. `granted`, `cooling`, `since` and `autos` are history variables. The
controls do nothing on Grafana's home page but install themselves, so `Plugin` follows a tab either over
dashboards or around the home page.

### Overview, AgentPage, CodeChat, Pages

| In the model | In the code |
|---|---|
| `Overview`: `requests`, `context`, `loads`, `collect`, `shown`, `error` | requests for a context with the `active` of their effect, `context`, runs of `loadSnapshot` (with the server of the rendering that started them), `collectNow`, the server of `snapshot`, `error` |
| `Overview`: `Switch`, `Snapshot`, `Retry`, `CollectProceeds`, `AfterFailure` | another dashboard, the end of `loadSnapshot`, its repetition, the awaits of `collectNow`, its `catch` and `finally` |
| `AgentPage`: `replies`, `agent`, `expired`, `post` | answers on their way, what `OpsTask` keeps of a task that a page can see, the tasks its deadline failed, the `POST` that makes the page busy |
| `AgentPage`: `Ask`, `Arrive`, `Lost`, `Start`, `Decide`, `NewTask` | `loadTask` by timer or event, its answer or failure, the buttons |
| `AgentPage`: `Proceed`, `Expire`, `Revive` | `dispatch` and other administrators, `watchTaskDeadline`, `dispatch` of a task the deadline failed |
| `CodeChat`: `saved`, `opening`, `turns`, `inspected`, `activity`, `call` | `sessionStorage`, the two parallel requests on opening, `turns`, `inspectionReady`, `activity`, the stage `submit` awaits |
| `CodeChat`: `Submit`, `Inspected`, `Analyzed`, `SubmitFails`, `NewConversation`, `Reload` | the stages of `submit` and its `catch`, the button, a new document |
| `Pages` | `RootPage` of `module.js`: one of the three, chosen by the path |

React is external: a state setter takes effect at once, and the effects that depend on it run before the
next callback, so they are part of the action. Each page shares nothing with the others but the address.

The page of the operations agent stops asking for a task it saw as failed (`ops-page.js:104`). If the deadline
failed the task and `dispatch` revives it (section 6, item 4), this page goes on showing the failure, and the
approval the task waits for is not on it. `PageCatchesUp` and `EndIsShown` allow just this, and nothing else: a
page that did not see the failure has to show the revived task. The reaper is left out, so a task does not
disappear.

### Markdown, ChatLogic, SampleLogic, Lists

Operators named after the functions, over data reduced to what the code tells apart: a line is what the
patterns of the code match in it, a text is a length, a sample is a node with a value or none. The patterns
overlap: a line with `|` may be a heading, an item of a list or a quote as well (`headingRow`, `bulletRow`, ...),
and the block before it decides which of them counts. `MCLogic` enumerates
inputs and compares each function with a definition that does not follow the code: blocks must
partition the lines, have lines that fit their type and not be broken in two, a project must belong to the table whose heading precedes it, a question is measured,
rows are counted by node. A behaviour of `MCLogic` chooses a function and an input, and stops.

`Lists` has the array methods the functions share: `Kept` is `filter`, `Sorted` is `sort`, `With` the assignment
to a property. What is kept and what precedes what are sets, not operators, so that a theorem can
be about all of them. Loops are folds, or functions along the positions of a list: `FirstOutside`
is where a `while` loop of `parseSafeMarkdown` stops, and `ParseProjects` goes on from each line with the
columns known or not.

## 4. The runs

| Run | Instance | Shows | States, time |
|---|---|---|---|
| `poller` | 2 servers, 2 identities, 2 configurations, 2 clients, 2 requests | workers follow the configuration (`ConfigFollower`), one goroutine per server, sends do not block, no stale series, timer never lost, at most one late tick | 815k, 85 s |
| `poller_live` | 1 server, 2 identities, 2 configurations, 2 requests | `ApplyConfig` returns, configurations are used, requests are served, auto mode collects for ever | 73k, 88 s |
| `poller_switch` | 1 server, 3 requests | counterexample, see 6 | 2 s |
| `node_status` | 3 nodes, 2 of them in one directory, 2 directories | series agree with the status, nodes are conserved, failures confirmed once; confirmation ends | 14k (2.6M generated), 72 s |
| `node_status_unreachable`, `node_status_retry` | as `node_status` | counterexamples, see 6 | 2 s |
| `ops_task` | 3 model turns of up to 1, 2 and 1 calls, 2 goroutines, 2 administrators | one actor, complete conversation, commands pass `ApprovalGate`, ended tasks stay ended, every task ends | 182k, 80 s |
| `ops_task_revived` | 2 turns of 1 call | counterexample, see 6 | 2 s |
| `task_events` | 2 emitters, 1 browser, channel of 1, 3 events | each event once, order of each goroutine, the end reaches the page | 113k, 26 s |
| `plugin` | 3 dashboards (one of the repository, one of another tool, both of one server; one without), 2 flows, 2 clicks, 1 move, 1 collection; home page with 2 grid items and a section, 3 renderings | the button implements `RateLimit`, automatic refreshes are right, flows end, the marks are those of the page | 111k, 26 s |
| `pages` | 2 dashboards of 2 servers, 2 tasks (one may miss its deadline), 2 answers on their way, 2 projects, 3 questions, 1 reload | pages follow dashboard and task, conversation is coherent, pages unlock | 91k, 136 s |
| `logic` | documents of 4 lines, lists of 5, 3 turns, messages or samples | the functions agree with their reference definitions | 482k, 57 s |

*Why the bounds are enough.* Two configuration changes are needed to find the update channel full, to
disable a server and enable it again, and to rename it twice; `poller` reaches all three on two
servers, so that one may retire while the other is updated. Servers share no state but the lock, so a
third adds nothing. `MaxApplies` and `MaxRequests` bound inputs, not the goroutines: those run
for ever within the bounds. Two requests switch to refresh mode and back, or ask
for a collection in between; two clients let their two steps interleave. In `node_status` two processes that share a short name
select neither, and one name more shows both kinds in one round; nothing bounds its behaviours. In `ops_task` a
guarded command needs a skill loaded before it: the first turn can load it, the second can pause with a
call queued behind the command, and a third turn shows the request that follows. Two administrators race for
one command. Two goroutine slots suffice because a
goroutine that was resumed can overlap only with one that is cancelling the context. In `task_events`
subscribers share nothing but the loop that offers them events, so one browser suffices; with three events
the channel is full while another is on its way, and the end can be followed by the event of a slower
goroutine. In `plugin` two clicks are needed for two flows that await the same context, a newer flow that
replaces one, and a click within the cooldown; one move is a reload or a change of dashboard in the
middle of either. In `pages` two calls of `loadSnapshot` overlap, one of each server; two answers
overtake each other; three questions with their answers exceed the limit
of the conversation, which is 3 there in place of 20.
The deadline passes for one task (`Slow`) while the other is the one the page turns to.
In `logic` four lines hold every block with its beginning, its end and a neighbour; there are 25 kinds of them.

Of the 12 runs, 8 pass; a property that is a conjunction (`ApplyConfigIsSafe`, `SeriesFollowServers`,
`SeriesAgreeWithStatus`, `AutomaticRefresh` and those of `pages` and `logic`) is stated as such because
its parts are about one promise of the code.

`SYMMETRY` is used by runs of safety properties only, over sets no definition orders or chooses from.
The Go runs check for deadlock; where the system really stops (`Stopped`, `Forgotten`), the specification
has a stuttering step that says so. A browser tab where nothing is under way and the user does
nothing is at rest, so `plugin` and `pages` do not check it; `logic` has one step.

## 5. Fairness

* *Poller.* `WF` for handlers, for the steps of `ApplyConfig`, for collections (every SSH command has a
  timeout) and timers. `SF` for each case of a select: Go chooses at random among the ready cases, so one
  that is ready again and again is taken. No fairness for `ApplyBegin`, `Fetch` and `Shutdown`: nobody has to do anything.
* *NodeStatus.* `WF` for the rounds: their waits are timers and the commands have timeouts.
* *OpsTask.* `WF` for goroutines (model requests and commands have timeouts), for handlers under way, for
  the deadline and its watcher. No fairness for `Request`: nobody has to decide.
* *TaskEvents.* `WF` for emitters and for reconnecting, which an `EventSource` does by itself. `SF` for the
  stages of the SSE handler: a connection may break at any time, but one that is made again and again
  lasts long enough at last. No fairness for `End`, `Progress` and `Disconnect`.
* *Controls.* `WF` for answers or failures of requests, for the steps of a flow (its waits have deadlines) and
  for timers. None for clicks, navigation, collections and scrapes.
* *Overview, AgentPage, CodeChat.* `WF` for requests, which are answered or fail, for effects and timers; `SF`
  for the successful answer of Prometheus and of the agent, which are not down for ever. None for
  what users do.

## 6. What the code does differently from what it says

1. `docs/scheduling-control.md:7` says that a switch to `refresh` stops the timed trigger, and the comment at
   `internal/exporter/exporter.go:161` that refresh mode pauses the timer and only manual requests collect. Nothing
   stops the timer. A goroutine that waits in the select of auto mode when the mode changes may find the wake-up and
   the tick ready and take the tick, so the timer starts a collection in refresh mode after the switch was answered
   (`poller_switch`). `AtMostOneLateTick` is what is left of this promise: it happens at most once for each switch.
   The same sentence says that a switch back to `auto` restarts a full `poll_interval` without collecting at
   once. The tick of the timer that went on in refresh mode may be waiting then, and the select has again both to
   choose from. `SwitchStopsTimer` states both halves; TLC prints the shorter trace, of the first, and
   prints that of the second if `control[s].auto` is added to the premise.
2. The comment at `internal/exporter/exporter.go:511` wants every known node down while the server is
   unreachable. A node that a targeted confirmation finds under its full name is published but is not added
   to `knownNodes`, so it stays up (`node_status_unreachable`).
3. The comment at `internal/exporter/exporter.go:614` gives a discovery failure exactly one full retry. If
   the host metrics failed in the same collection only the host is retried (`node_status_retry`).
4. `docs/ops-agent-overview.md:44` says that a task that timed out cannot be resumed. If the deadline
   passes between the model's answer and `dispatch`, the failed task goes back to
   `awaiting_approval` (`ops_task_revived`). `Decide` still refuses it, which `EndIsFinal` shows. A page that
   saw the failure before has stopped asking and does not show that the task waits again; `pages` exempts
   this page.

## 7. What is proved

`PollerProofs` proves, for every set of servers, identities, settings and clients and all bounds,
assuming only `PollerAssumption` and `NoneAssumption`:

* `TypeCorrect`, `SafeApplyConfig`, `NoStaleSeries`: the invariants `TypeOK`, `ApplyConfigIsSafe` and
  `SeriesFollowServers` of `poller`;
* `LatestConfig`: `LatestConfigWins`, a worker has or will receive the published entry once `ApplyConfig` is
  done with its queue;
* `FollowsConfig`: `Poller` implements `ConfigFollower`, which says so for the whole history of a worker;
* `TimerIsKept` and `OneLateTick`: `TimerSurvives` and the action property `AtMostOneLateTick`, which
  is weaker than what the documentation promises (section 6, item 1).

All rest on `IInvInductive`. The properties are not inductive, for three reasons, and `IInv` adds what
is missing. `ApplierInv` bounds the work lists of `ApplyConfig`: only registered workers still wait for an
update, and nobody who is being retired is registered or enabled; without it `QueueSend` could
write to a worker that does not exist. `GoroutineInv` ties registration to life: a goroutine that runs is
registered or is being waited for, and outside the critical section nothing is left to start; this is what
lets `ApplyStart` begin a goroutine in the place of another. `SeriesInv` says that series belong to
a server that is registered or being retired, and `TimerInv` that update and manual collections keep
their timer and that a select chosen in an outdated mode has seen no reset since. There is one lemma for
each action, with one step for each conjunct of `IInv` the action can disturb; `IInvInductive` combines them.
`OnlySelectTimer` adds that no other action starts a collection with the timer as its cause, from which the
action property follows. The refinement needs, besides, `ChangedInv` (who is to be told has an enabled entry)
and `SettledInv`: outside `ApplyConfig` every enabled server has a worker that was told the published entry, and
no other server has one, which is what `Return` of the abstract specification demands. `QueueFollows` shows that of
the three channel operations exactly one is a `Tell` to a running worker, however they interleave with it.

`ControlsProofs` proves, for any dashboards, servers, flows and bounds, assuming only `ControlsAssumption`:

* `ControlsTypeCorrect`: types, and that nobody awaits a context that is neither cached nor asked for;
* `RateLimited`: `Controls` implements `RateLimit`. The invariant is `DeadlinesAreKnown`: a server that cools
  down has a deadline where `remainingFor` looks for it, in `sessionStorage` if that can be used and in memory
  otherwise; so `Begin`, which looks after its await, is a `Grant`, and every other step ends cooldowns or
  stutters;
* `AutomaticRefreshIsRight`: both halves of `AutomaticRefresh`. `Progress` says what a flow has seen at each
  stage: while it is current, the newest granted request is not later than its baseline, the attempt it saw is
  later than the baseline, and the sample it saw has that attempt. `ClicksAreSpent` counts: a click waits or
  was granted, a granted request is under way, refreshed the queries once, or ended; hence the property,
  which compares the counters only.

`PluginProofs` proves, for any document of the home page, grid and number of renderings, assuming `PluginAssumption`
besides: `PluginHasControls`, that `Plugin` implements `Controls` (around the home page the controls only install
themselves), hence `ButtonInPlugin`; `PluginTypeCorrect`; and `PresentationFits`, which says exactly which marks a home page
with a dashboards section has, and that another page has none. Of a home page without such a section it says
nothing, since `applyHomePresentation` returns there and leaves every mark as it was. `NavigationInv` adds to the
property the types and that only a guest is ever taken for one, since `apply` trusts `anonymous`. What the
property needs of the document is that its order is one (`OneDashboardSection`): no two sections are both the
first with the heading of the dashboards, so `querySelector` and the loop that hides mean the same section.

`NodeStatusProofs` proves, for any finite sets of nodes and directories and whatever the collections report,
assuming `NodeStatusAssumption` (nodes and directories have different names, every node has a directory) and
`NoneAssumption`, its four invariants: `NodeStatusTypeCorrect`, `SeriesTellTheStatus`, `CountersConserveNodes`
and `OneConfirmationPerFailure`. None is inductive, because a confirmation corrects a status that an earlier
round published. `PublishedInv` adds what the corrections rely on: no name is known both as a node and as its
directory (`KnownInv`), every failure of the status is known, `total` counts the known names, and a server
that is down has no live node (`StatusInv`); without it the counters could not be shown to move by exactly the
nodes that changed. `ScheduleInv` describes the rounds still to come: alone, or one for busy nodes and one for
failures, about different names, each known and not confirmed before, so that a round that finds new failures
can add them to the rest (`AddedFailures`, `AfterRound`). `ConfirmationInv` says that a
failure was confirmed, or is in a round to come, or the goroutine was stopped. The lemmas under *What a
collection may report* bound the results (`FullResult`, `SelectedResult`); `PublishFull` and
`ApplySelectedConfirmation` have their lemmas; `StepInOrder` puts a step together.

`OpsTaskProofs` proves, for any number of goroutines, administrators, model turns and calls, assuming
only `OpsTaskAssumption`: `OpsTaskTypeCorrect`, `OneActorAtATime`, `CommandsRunOnce`, `ConversationComplete`,
the action property `EndStaysFinal`, and `CommandsGoThroughGate`, that `OpsTask` implements `ApprovalGate`. The invariant passes a token. `ActorInv` says that at most one
goroutine or handler works or decides, and `PauseInv` that nobody does while a command is pending; `DriverInv` and
`HandlerInv` say what the holder of the token has in hand at each stage: the calls of the last turn that are
not answered yet, in order (`Outstanding`), or the one whose answer comes next, with those behind it saved
(`AtCall`). Hence every step that answers a call answers the next one of the conversation, which
`ConversationInv` keeps well formed: a turn is asked for only when the ones before it are answered.
`ExecutedInv` ties the number of executions to the answer, so a command cannot be executed again;
`EndInv` says that nobody can act with a live context once the task has ended, which makes `Decide` refuse.
The refinement needs `GateInv` besides: a command that was approved has its answer or a handler still has to run
it, and a handler records the result of a command it has started. `CommandsRunOnce` states the two sentences of
`ApprovalGate` about executions as an invariant of the task.

`TaskEventsProofs` proves, for any goroutines, browsers, capacity and number of events, assuming only
`TaskEventsAssumption`: `TaskEventsTypeCorrect`, `EventsReachConnections` and `EventsKeepOrder`. For each
connection `Line` puts in one line what was written, what is left of the history, what the channel
holds and what goroutines that have left the lock still offer to it, and says that no event occurs twice
in the line and those of one goroutine are in the order it emitted them; `NoGap` says that every event behind
the one asked for is in the line or was dropped. `WriterInv` says that a goroutine offers its own last event,
to channels that are registered. So an event written to the connection was never written before, and
`Subscribe`, which takes history and channel in one critical section, leaves nothing between them.

`PagesProofs` proves, for any dashboards, servers, tasks, projects and bounds, assuming only `PagesAssumption`,
`PagesTypeCorrect`, `ConversationCoherent`, and of the overview page `ContextFollows` and `FailuresAreShown`, which
are the safety parts of `OverviewFollowsDashboard`. The pages share no state, so there is an invariant for each.

* `CodeInv`. `ConversationIsCoherent` is not inductive, since `submit` writes after two awaits what it read
  before them. `CallInv` says that the page is locked meanwhile, so that the project of the call stays the
  selected one, and that the conversation it will save is well formed; `InspectedInv` that a report belongs to the
  selected project, and that a connection is only made while nobody asks. `TurnsInv` says the same of the saved
  conversation, which a reload restores, also after it was cut to the last `TurnLimit` turns.
* `OverviewInv`. A step between the cleanup of an effect and its answer is covered by
  `ActiveRequestsFollowURL`: the only requests that are not cancelled are for the dashboard of the URL.
* `OpsInv`. `HeldInv` says that every task on the page, or on its way to it, is one the agent knows. Without
  `RepliesInv` the number of answers under way is not bounded: the effect that restores a task just started
  asks once more than the timer may, but the page follows this task then, and no other can be started.

`LogicProofs` proves, assuming only that the three bounds of `MCLogic` are numbers (`BoundsAssumption`), the five
invariants of `logic`: `ReportIsAlwaysShownOnce`, `ProjectsAlwaysHaveColumns`, `QuestionsAlwaysFit`,
`RecordsAreAlwaysOwn` and `SamplesAreAlwaysMerged`. The state only holds an input, so the inductive invariant
(`InputOK`) is its type; the work is in the theorems about the functions, which are not about the instance:
they hold for every document, conversation, list of traces, report, set of answers and set of rules, of
every length and in every order, with turns of every length and values and identifiers of every size
(`BlocksAlwaysCover`, `UnwrapIsAlwaysFinal`, `RowsAlwaysHaveColumns`, `QuestionAlwaysFits`,
`TracesAreAlwaysCompact`, `OnlyOwnAnswersAreUsed`, `InspectionIsAlwaysKept`, `NodesAreAlwaysMerged`,
`AlertsAreAlwaysOfServer`, `LevelsAlwaysFitScale`).

* *Induction.* The library's induction theorems take an operator, which the provers cannot instantiate.
  `LeastNumber` takes its place: the order of the natural numbers is well founded as a set of pairs,
  so every set of them has a least element, and `Induction` and `InductionUpTo` speak of a set of numbers.
* *Loops.* A fold is a recursive function over sets of positions. `FoldExists` shows that such a
  function exists, `FoldRuns` that it passes the elements in their order; from this each loop has a
  lemma that gives the results step by step (`KeptSteps`, `SelectionSteps`, `RestoreSteps`, `FieldsSteps`,
  `SortSteps`, `SampleSteps`, `ConnectionSteps`). `ChainExists` does the same for functions that go on from
  position to position, as the two parsers do.
* *filter and sort.* `Picks` says that a list has exactly the wanted elements of another one, in their order;
  `Draws`, that it has the elements at some positions, each once. `SortedIsSorted` says that `sort` returns
  a permutation in order for every strict weak order; `AlertOrderIsOrder` and `ConnectionOrderIsOrder` that the
  comparisons of the code are such orders, without which the result would depend on the engine.
* *What had to be strengthened.* That the history is the end of the conversation is no invariant of the loop
  over the turns, since a turn that is cut may exceed the budget by the note that says so: `IsNewest` allows
  this to the oldest turn only, and only if more than the note is left of it. Blocks cover a document from its
  first line because they cover it from each line on (`CoversFrom`); `BlockEndIsEnd` says of one block that its lines
  fit its type (`Fits`) and what the line behind it is not (`Stops`). A project belongs to its table from the first line
  because it does from every line on, with columns known or not (`ProjectsFrom`). The last value of a query is
  the value of the last finite answer since filtering keeps the order (`IsLastValue`, `IsLastAnswer`).

No prover knows that a string literal is a string, hence `Strings`, which is `STRING` with the literals of the
inputs listed; and `NoLabel` stands for the empty string.

Each inductive invariant was checked by TLC on the instance of its run before it was proved: `NodeStatus` on
14k states, `OpsTask` on 182k, `TaskEvents` on 113k, `Pages` on 91k. Every invariant and every action property of a
passing run is stated by a theorem; what no theorem states is liveness.

Only model-checked:

* All liveness properties (those of `poller_live`, `ConfirmationEnds`, `TaskEnds`, `EndReachesBrowser`,
  `FlowsEnd`, and of `pages` `OverviewFollowsDashboard`, `PageFollowsTask` and `PagesUnlock`): liveness
  under fairness and `ENABLED` are beyond the prover. Of `OverviewFollowsDashboard` the safety parts are proved.

No module declares a recursive operator; recursion is written as functions and folds.

## 8. What is not modelled

* Vendored, generated and declarative files: dashboards, alert rules, the Linux package, and the bundle
  `module.js` beside the plugin's `src/`, which is built from the modules that are modelled.
* Rendering: tables, number formats, inline Markdown, `ops-logic.js`, `home-page.js` (links only), the
  refresh picker's options, and the list of dashboards of the overview page.
* Traces and health lines of the pages (`appendTrace` itself is in `ChatLogic`), and the button's own
  countdown in `setButtonCooldown`.
* Parsing of command output, configuration and model messages; formatting of pages and alert texts.
* The other gauges a collection sets (CPU, memory, disks, connections); they follow `nodeUp`.
* Windows scripts and the wiring of `cmd/ops-agent`: sequential start-up. `internal/deployconfig` holds only
  tests of the deployment files.
* The rows marked planned in section 2. The hazards that wait for them are in `PROJECT.json`, each with a
  note.
