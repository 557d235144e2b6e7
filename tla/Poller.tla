------------------------------- MODULE Poller -------------------------------
(***************************************************************************)
(* The collection scheduler of the exporter (internal/exporter): one       *)
(* goroutine per enabled server, the HTTP handlers that switch its mode    *)
(* and queue manual collections, and ApplyConfig, which the configuration  *)
(* hot reloader calls to start, update and retire those goroutines.        *)
(*                                                                         *)
(* What a collection finds is the subject of NodeStatus; here it only      *)
(* leaves series labelled with the server's name and address behind.  The  *)
(* time between two steps is arbitrary, so a timer that is armed may fire  *)
(* at any later moment.                                                    *)
(***************************************************************************)
EXTENDS Integers, FiniteSets

CONSTANTS Servers,      \* server IDs of the configuration file
          Idents,       \* <name, address> pairs: the labels of a server's series
          Revs,         \* values of the settings that are not labels
          Clients,      \* concurrent callers of /schedule and /collect
          None,         \* no entry, no pending update, no server
          MaxApplies,   \* bound: calls of ApplyConfig
          MaxRequests,  \* bound: HTTP requests that reach a control
          MaxCalls      \* bound: calls of either kind together

ASSUME PollerAssumption ==
    /\ Servers # {} /\ Idents # {} /\ Revs # {}
    /\ MaxApplies \in Nat /\ MaxRequests \in Nat /\ MaxCalls \in Nat

Entry == [enabled : BOOLEAN, ident : Idents, rev : Revs]

ASSUME NoneAssumption == None \notin Entry /\ None \notin Servers

VARIABLES config,    \* p.config: the entry of each server, None when not listed
          control,   \* p.controls: the mode flag and the two one-token channels
          workers,   \* keys of p.workers: goroutines that have not been cancelled
          worker,    \* the state of each server's goroutine
          update,    \* serverWorker.updates: a channel of capacity one
          applier,   \* progress of the ApplyConfig call, which holds p.mu in "reconcile"
          series,    \* labels under which the registry holds series of a server
          client,    \* progress of the HTTP handlers
          down,      \* the context given to Start is cancelled
          rearmed,   \* history: the timer was set after the last change of mode
          applies, requests

vars == <<config, control, workers, worker, update, applier, series, client,
          down, rearmed, applies, requests>>

Control == [auto : BOOLEAN, wake : BOOLEAN, manual : BOOLEAN]

\* newScheduleControl: auto mode, both channels empty.
NewControl == [auto |-> TRUE, wake |-> FALSE, manual |-> FALSE]

Causes == {"initial", "update", "manual", "timer"}

Worker == [pc     : {"off", "collect", "top", "select"},
           server : Entry \cup {None},
           mode   : BOOLEAN,      \* the isAuto() value the blocked select was chosen by
           cause  : Causes,
           timer  : {"off", "armed", "ticked"}]

NoWorker == [pc |-> "off", server |-> None, mode |-> TRUE, cause |-> "initial", timer |-> "off"]

\* A goroutine starts with a collection; its timer is created afterwards.
NewWorker(entry) == [NoWorker EXCEPT !.pc = "collect", !.server = entry]

Idle == [pc |-> "idle", changed |-> {}, retired |-> {}, target |-> None, stage |-> "try"]

Applier == [pc      : {"idle", "reconcile", "retire"},
            changed : SUBSET Servers,  \* workers still to be told of their new entry
            retired : SUBSET Servers,  \* cancelled workers still to be waited for
            target  : Servers \cup {None},
            stage   : {"try", "drain", "send"}]

Client == [pc     : {"idle", "fetched", "flagged"},
           op     : {"auto", "refresh", "collect"},
           server : Servers \cup {None},
           orphan : BOOLEAN]  \* the control it holds has been replaced since

NoRequest == [pc |-> "idle", op |-> "collect", server |-> None, orphan |-> FALSE]

Active(entry) == entry # None /\ entry.enabled

Running(s) == worker[s].pc # "off"

\* The context of a worker: cancelled by ApplyConfig or with the parent context.
Cancelled(s) == down \/ s \notin workers

\* p.mu is free for the readers in controlFor.
Unlocked == applier.pc # "reconcile"

TypeOK ==
    /\ config \in [Servers -> Entry \cup {None}]
    /\ control \in [Servers -> Control]
    /\ workers \subseteq Servers
    /\ worker \in [Servers -> Worker]
    /\ update \in [Servers -> Entry \cup {None}]
    /\ applier \in Applier
    /\ series \in [Servers -> SUBSET Idents]
    /\ client \in [Clients -> Client]
    /\ down \in BOOLEAN
    /\ rearmed \in [Servers -> BOOLEAN]
    /\ applies \in 0..MaxApplies
    /\ requests \in 0..MaxRequests

\* NewPoller followed by Start, which main calls before the reloader and the
\* HTTP server exist: one goroutine for each enabled server.
Init ==
    /\ config \in [Servers -> Entry \cup {None}]
    /\ control = [s \in Servers |-> NewControl]
    /\ workers = {s \in Servers : Active(config[s])}
    /\ worker = [s \in Servers |-> IF Active(config[s]) THEN NewWorker(config[s]) ELSE NoWorker]
    /\ update = [s \in Servers |-> None]
    /\ applier = Idle
    /\ series = [s \in Servers |-> {}]
    /\ client = [c \in Clients |-> NoRequest]
    /\ down = FALSE
    /\ rearmed = [s \in Servers |-> TRUE]
    /\ applies = 0
    /\ requests = 0

-----------------------------------------------------------------------------
(* ApplyConfig *)

\* Up to the first loop over p.workers: the new configuration and controls
\* become visible together, controls survive under a stable ID, and workers of
\* removed or disabled servers are cancelled.
ApplyBegin(new) ==
    /\ applier.pc = "idle"
    /\ applies < MaxApplies /\ applies + requests < MaxCalls
    /\ applies' = applies + 1
    /\ config' = new
    /\ LET created == {s \in Servers : config[s] = None /\ new[s] # None}
       IN /\ control' = [s \in Servers |-> IF s \in created THEN NewControl ELSE control[s]]
          /\ client' = [c \in Clients |-> [client[c] EXCEPT
                            !.orphan = @ \/ (client[c].pc # "idle" /\ client[c].server \in created)]]
          /\ rearmed' = [s \in Servers |-> s \in created \/ rearmed[s]]
    /\ \/ /\ down
          /\ UNCHANGED <<applier, workers>>
       \/ /\ ~down
          /\ LET retired == {s \in workers : ~Active(new[s])}
             IN /\ applier' = [Idle EXCEPT
                                  !.pc = "reconcile",
                                  !.retired = retired,
                                  !.changed = {s \in workers \ retired : config[s] # new[s]}]
                /\ workers' = workers \ retired
    /\ UNCHANGED <<worker, update, series, down, requests>>

\* Mistake: with a full channel the new entry is dropped, as a wake-up would be.
QueueTryDropping(s) ==
    /\ applier.pc = "reconcile" /\ applier.target = None /\ s \in applier.changed
    /\ update' = [update EXCEPT ![s] = IF @ = None THEN config[s] ELSE @]
    /\ applier' = [applier EXCEPT !.changed = @ \ {s}]
    /\ UNCHANGED <<config, control, workers, worker, series, client, down, rearmed, applies, requests>>

\* The first select of queueServerUpdate: send if the channel has room.
QueueTry(s) ==
    /\ applier.pc = "reconcile" /\ applier.target = None /\ s \in applier.changed
    /\ IF update[s] = None
       THEN /\ update' = [update EXCEPT ![s] = config[s]]
            /\ applier' = [applier EXCEPT !.changed = @ \ {s}]
       ELSE /\ applier' = [applier EXCEPT !.target = s, !.stage = "drain"]
            /\ UNCHANGED update
    /\ UNCHANGED <<config, control, workers, worker, series, client, down, rearmed, applies, requests>>

\* The second select: discard the stale update, unless the worker just took it.
QueueDrain ==
    /\ applier.target # None /\ applier.stage = "drain"
    /\ update' = [update EXCEPT ![applier.target] = None]
    /\ applier' = [applier EXCEPT !.stage = "send"]
    /\ UNCHANGED <<config, control, workers, worker, series, client, down, rearmed, applies, requests>>

\* The final send, which blocks while the channel is full.
QueueSend ==
    /\ applier.target # None /\ applier.stage = "send"
    /\ update[applier.target] = None
    /\ update' = [update EXCEPT ![applier.target] = config[applier.target]]
    /\ applier' = [applier EXCEPT !.changed = @ \ {applier.target}, !.target = None, !.stage = "try"]
    /\ UNCHANGED <<config, control, workers, worker, series, client, down, rearmed, applies, requests>>

\* Servers that startServerLocked gets: enabled, without an entry in p.workers.
ToStart == {s \in Servers : Active(config[s]) /\ s \notin workers}

\* Mistake: ApplyConfig returns without waiting for the goroutines it cancelled.
ApplyStartNoWait ==
    /\ applier.pc = "reconcile" /\ applier.changed = {}
    /\ workers' = workers \cup ToStart
    /\ worker' = [s \in Servers |-> IF s \in ToStart THEN NewWorker(config[s]) ELSE worker[s]]
    /\ update' = [s \in Servers |-> IF s \in ToStart THEN None ELSE update[s]]
    /\ applier' = Idle
    /\ UNCHANGED <<config, control, series, client, down, rearmed, applies, requests>>

\* Start the missing goroutines, each with a channel of its own; release p.mu.
ApplyStart ==
    /\ applier.pc = "reconcile" /\ applier.changed = {}
    /\ workers' = workers \cup ToStart
    /\ worker' = [s \in Servers |-> IF s \in ToStart THEN NewWorker(config[s]) ELSE worker[s]]
    /\ update' = [s \in Servers |-> IF s \in ToStart THEN None ELSE update[s]]
    /\ applier' = [applier EXCEPT !.pc = IF applier.retired = {} THEN "idle" ELSE "retire"]
    /\ UNCHANGED <<config, control, series, client, down, rearmed, applies, requests>>

\* Mistake: deleteServerState before the goroutine is done.
ApplyRetireEarly(s) ==
    /\ applier.pc = "retire" /\ s \in applier.retired
    /\ series' = [series EXCEPT ![s] = {}]
    /\ applier' = [applier EXCEPT !.retired = @ \ {s},
                                  !.pc = IF applier.retired = {s} THEN "idle" ELSE "retire"]
    /\ UNCHANGED <<config, control, workers, worker, update, client, down, rearmed, applies, requests>>

\* Wait for a cancelled goroutine, then deleteServerState.
ApplyRetire(s) ==
    /\ applier.pc = "retire" /\ s \in applier.retired
    /\ ~Running(s)
    /\ series' = [series EXCEPT ![s] = {}]
    /\ applier' = [applier EXCEPT !.retired = @ \ {s},
                                  !.pc = IF applier.retired = {s} THEN "idle" ELSE "retire"]
    /\ UNCHANGED <<config, control, workers, worker, update, client, down, rearmed, applies, requests>>

-----------------------------------------------------------------------------
(* runServer *)

\* resetTimer, or NewTimer for the first time: the tick that waits is dropped.
ResetTimer(s) == /\ worker' = [worker EXCEPT ![s] = [@ EXCEPT !.timer = "armed", !.pc = "top"]]
                 /\ rearmed' = [rearmed EXCEPT ![s] = TRUE]

KeepTimer(s) == /\ worker' = [worker EXCEPT ![s] = [@ EXCEPT !.pc = "top"]]
                /\ UNCHANGED rearmed

\* Mistake: the branch of the timer does not arm it again.
ResetsAfterButTimer(s) ==
    \/ worker[s].cause = "initial"
    \/ worker[s].cause = "update" /\ (worker[s].mode \/ control[s].auto)
    \/ worker[s].cause = "manual" /\ worker[s].mode /\ control[s].auto

\* Whether the branch that started the collection resets the timer after it;
\* isAuto is read again where the code reads it again.
ResetsAfter(s) ==
    \/ worker[s].cause \in {"initial", "timer"}
    \/ worker[s].cause = "update" /\ (worker[s].mode \/ control[s].auto)
    \/ worker[s].cause = "manual" /\ worker[s].mode /\ control[s].auto

\* Mistake: series labelled with the whole entry, so that a threshold renames them.
FinishCollectMislabelled(s) ==
    /\ worker[s].pc = "collect"
    /\ series' = [series EXCEPT ![s] = @ \cup {worker[s].server}]
    /\ IF ResetsAfter(s) THEN ResetTimer(s) ELSE KeepTimer(s)
    /\ UNCHANGED <<config, control, workers, update, applier, client, down, applies, requests>>

\* collectAndConfirm returns: every round has published under the labels of the
\* entry the collection was started with, whatever happened to it meanwhile.
FinishCollect(s) ==
    /\ worker[s].pc = "collect"
    /\ series' = [series EXCEPT ![s] = @ \cup {worker[s].server.ident}]
    /\ IF ResetsAfter(s) THEN ResetTimer(s) ELSE KeepTimer(s)
    /\ UNCHANGED <<config, control, workers, update, applier, client, down, applies, requests>>

\* Mistake: the mode is read once, before the loop.
LoopTopStale(s) ==
    /\ worker[s].pc = "top"
    /\ worker' = [worker EXCEPT ![s] = [@ EXCEPT !.pc = "select"]]
    /\ UNCHANGED <<config, control, workers, update, applier, series, client, down, rearmed, applies, requests>>

\* The head of the loop chooses one of the two selects by the mode of the moment.
LoopTop(s) ==
    /\ worker[s].pc = "top"
    /\ worker' = [worker EXCEPT ![s] = [@ EXCEPT !.pc = "select", !.mode = control[s].auto]]
    /\ UNCHANGED <<config, control, workers, update, applier, series, client, down, rearmed, applies, requests>>

Collecting(s, cause) == [worker[s] EXCEPT !.pc = "collect", !.cause = cause]

\* Mistake: the loop only listens to the context of the program.
SelectDoneParent(s) ==
    /\ worker[s].pc = "select" /\ down
    /\ worker' = [worker EXCEPT ![s] = NoWorker]
    /\ UNCHANGED <<config, control, workers, update, applier, series, client, down, rearmed, applies, requests>>

SelectDone(s) ==
    /\ worker[s].pc = "select" /\ Cancelled(s)
    /\ worker' = [worker EXCEPT ![s] = NoWorker]
    /\ UNCHANGED <<config, control, workers, update, applier, series, client, down, rearmed, applies, requests>>

\* applyServerUpdate: state published under another name or address goes first.
SelectUpdate(s) ==
    /\ worker[s].pc = "select" /\ update[s] # None
    /\ update' = [update EXCEPT ![s] = None]
    /\ series' = [series EXCEPT ![s] = IF worker[s].server.ident # update[s].ident THEN {} ELSE @]
    /\ worker' = [worker EXCEPT ![s] = [Collecting(s, "update") EXCEPT !.server = update[s]]]
    /\ UNCHANGED <<config, control, workers, applier, client, down, rearmed, applies, requests>>

SelectWake(s) ==
    /\ worker[s].pc = "select" /\ control[s].wake
    /\ control' = [control EXCEPT ![s].wake = FALSE]
    /\ IF worker[s].mode \/ control[s].auto THEN ResetTimer(s) ELSE KeepTimer(s)
    /\ UNCHANGED <<config, workers, update, applier, series, client, down, applies, requests>>

\* Mistake: the select of refresh mode has no case for manual requests.
SelectManualAuto(s) ==
    /\ worker[s].pc = "select" /\ worker[s].mode /\ control[s].manual
    /\ control' = [control EXCEPT ![s].manual = FALSE]
    /\ worker' = [worker EXCEPT ![s] = Collecting(s, "manual")]
    /\ UNCHANGED <<config, workers, update, applier, series, client, down, rearmed, applies, requests>>

SelectManual(s) ==
    /\ worker[s].pc = "select" /\ control[s].manual
    /\ control' = [control EXCEPT ![s].manual = FALSE]
    /\ worker' = [worker EXCEPT ![s] = Collecting(s, "manual")]
    /\ UNCHANGED <<config, workers, update, applier, series, client, down, rearmed, applies, requests>>

\* Only the select of auto mode listens to the timer.
SelectTimer(s) ==
    /\ worker[s].pc = "select" /\ worker[s].mode /\ worker[s].timer = "ticked"
    /\ worker' = [worker EXCEPT ![s] = [Collecting(s, "timer") EXCEPT !.timer = "off"]]
    /\ UNCHANGED <<config, control, workers, update, applier, series, client, down, rearmed, applies, requests>>

\* The runtime timer fires; a mode switch does not stop it.
TimerFire(s) ==
    /\ worker[s].timer = "armed"
    /\ worker' = [worker EXCEPT ![s] = [@ EXCEPT !.timer = "ticked"]]
    /\ UNCHANGED <<config, control, workers, update, applier, series, client, down, rearmed, applies, requests>>

-----------------------------------------------------------------------------
(* ScheduleHandler and CollectHandler *)

\* controlFor and the check that the server is enabled.
Fetch(c, op, s) ==
    /\ client[c].pc = "idle" /\ requests < MaxRequests /\ applies + requests < MaxCalls
    /\ Unlocked /\ Active(config[s])
    /\ requests' = requests + 1
    /\ client' = [client EXCEPT ![c] = [pc |-> "fetched", op |-> op, server |-> s, orphan |-> FALSE]]
    /\ UNCHANGED <<config, control, workers, worker, update, applier, series, down, rearmed, applies>>

\* setAuto, under the control's own mutex.
SetFlag(c) ==
    LET s == client[c].server
        auto == client[c].op = "auto"
    IN /\ client[c].pc = "fetched" /\ client[c].op # "collect"
       /\ client' = [client EXCEPT ![c].pc = "flagged"]
       /\ IF client[c].orphan
          THEN UNCHANGED <<control, rearmed>>
          ELSE /\ control' = [control EXCEPT ![s].auto = auto]
               /\ rearmed' = [rearmed EXCEPT ![s] = @ /\ control[s].auto = auto]
       /\ UNCHANGED <<config, workers, worker, update, applier, series, down, applies, requests>>

\* setAuto, after the mutex is released: a non-blocking send on wake.
SendWake(c) ==
    /\ client[c].pc = "flagged"
    /\ client' = [client EXCEPT ![c] = NoRequest]
    /\ control' = IF client[c].orphan THEN control
                  ELSE [control EXCEPT ![client[c].server].wake = TRUE]
    /\ UNCHANGED <<config, workers, worker, update, applier, series, down, rearmed, applies, requests>>

\* requestManual: a non-blocking send, so requests that wait are coalesced.
RequestManual(c) ==
    /\ client[c].pc = "fetched" /\ client[c].op = "collect"
    /\ client' = [client EXCEPT ![c] = NoRequest]
    /\ control' = IF client[c].orphan THEN control
                  ELSE [control EXCEPT ![client[c].server].manual = TRUE]
    /\ UNCHANGED <<config, workers, worker, update, applier, series, down, rearmed, applies, requests>>

\* SIGINT or SIGTERM cancels the context that main gave to Start.
Shutdown ==
    /\ ~down /\ down' = TRUE
    /\ UNCHANGED <<config, control, workers, worker, update, applier, series, client, rearmed, applies, requests>>

\* Wait returned: every goroutine has left.
Stopped ==
    /\ down /\ applier.pc = "idle" /\ \A s \in Servers : ~Running(s)
    /\ UNCHANGED vars

-----------------------------------------------------------------------------
Apply == QueueDrain \/ QueueSend \/ ApplyStart
         \/ \E s \in Servers : QueueTry(s) \/ ApplyRetire(s)

Select(s) == SelectDone(s) \/ SelectUpdate(s) \/ SelectWake(s) \/ SelectManual(s) \/ SelectTimer(s)

RunServer(s) == FinishCollect(s) \/ LoopTop(s) \/ Select(s)

Handle(c) == SetFlag(c) \/ SendWake(c) \/ RequestManual(c)

Next ==
    \/ \E new \in [Servers -> Entry \cup {None}] : ApplyBegin(new)
    \/ Apply
    \/ \E s \in Servers : RunServer(s) \/ TimerFire(s)
    \/ \E c \in Clients : Handle(c)
    \/ \E c \in Clients, s \in Servers, op \in {"auto", "refresh", "collect"} : Fetch(c, op, s)
    \/ Shutdown
    \/ Stopped

\* Collections end (every SSH step has a timeout), and the select statement
\* picks at random among its ready cases, so each case that is ready again and
\* again is taken.  Nobody has to send a request, a new configuration or a signal.
Fairness ==
    /\ WF_vars(Apply)
    /\ \A c \in Clients : WF_vars(Handle(c))
    /\ \A s \in Servers :
          /\ WF_vars(FinishCollect(s)) /\ WF_vars(LoopTop(s)) /\ WF_vars(TimerFire(s))
          /\ SF_vars(SelectDone(s)) /\ SF_vars(SelectUpdate(s)) /\ SF_vars(SelectWake(s))
          /\ SF_vars(SelectManual(s)) /\ SF_vars(SelectTimer(s))

Spec == Init /\ [][Next]_vars

FairSpec == Spec /\ Fairness

-----------------------------------------------------------------------------
(* Properties *)

\* What the worker of s will work with next: the pending update, else its entry.
Mailbox(s) == IF update[s] # None THEN update[s] ELSE worker[s].server

\* Coalescing loses no configuration: once ApplyConfig is done with a worker's
\* queue, the worker has, or will receive, exactly the entry that is published.
LatestConfigWins ==
    ~down => \A s \in workers \ applier.changed : Mailbox(s) = config[s]

Serving == [s \in Servers |-> IF Running(s) THEN worker[s].server ELSE None]

\* queueServerUpdate has told the worker at its first send, or else once the update that
\* fills the channel is discarded or taken: from then on nothing can be lost.
Told == [s \in Servers |->
            IF ~Running(s) THEN None
            ELSE IF applier.target = s /\ applier.stage = "send" THEN config[s]
            ELSE Mailbox(s)]

Follower == INSTANCE ConfigFollower
                WITH serving <- Serving, told <- Told, applying <- (applier.pc # "idle")

\* The workers follow the configuration: although three channel operations of ApplyConfig
\* interleave with a worker that takes its update, entries are taken up in order, none
\* is lost, and each configuration is in force for every server when ApplyConfig returns.
WorkersFollowConfig == Follower!FollowerSpec

\* A server is collected by at most one goroutine: ApplyConfig never starts one
\* for a server whose cancelled goroutine may still be writing.
OneGoroutinePerServer ==
    Unlocked \/ \A s \in ToStart : ~Running(s)

\* The final send of queueServerUpdate finds room in the channel, so ApplyConfig
\* cannot block while it holds the lock every HTTP handler needs.
QueueNeverBlocks ==
    applier.target # None /\ applier.stage = "send" => update[applier.target] = None

\* ApplyConfig clashes with no goroutine: neither with one it cancelled, nor with a
\* worker that takes its update between the two selects of queueServerUpdate.
ApplyConfigIsSafe == OneGoroutinePerServer /\ QueueNeverBlocks

\* Once ApplyConfig returned, a server that is removed or disabled exposes no
\* series: not even a collection that was under way when it was cancelled.
RetiredServersLeaveNoSeries ==
    applier.pc = "idle" /\ ~down =>
        \A s \in Servers : ~Active(config[s]) => series[s] = {} /\ ~Running(s)

\* Series of one server never carry two identities, and while its goroutine
\* runs they carry the name and address it currently works with.
SeriesCarryOneIdentity ==
    \A s \in Servers :
        /\ \A i, j \in series[s] : i = j
        /\ Running(s) => series[s] \subseteq {worker[s].server.ident}

\* The series follow the configuration: none of a server that is gone, none with a
\* name or address that was replaced, although collections outlive both changes.
SeriesFollowServers == RetiredServersLeaveNoSeries /\ SeriesCarryOneIdentity

\* Whenever the loop is about to block, its timer is armed or has a tick
\* waiting: no branch of the loop forgets the periodic collection.
TimerSurvives ==
    \A s \in Servers : worker[s].pc \in {"top", "select"} => worker[s].timer # "off"

\* A collection of s that the timer triggers begins.
TimerCollects(s) == worker[s].pc = "select" /\ worker'[s].pc = "collect" /\ worker'[s].cause = "timer"

\* What is left of the promise that refresh mode stops the timer, which does not
\* hold (SwitchStopsTimer): a switch lets it collect at most once more, by the
\* select that was chosen in auto mode, whatever requests and updates come between.
AtMostOneLateTick ==
    [][\A s \in Servers : TimerCollects(s) /\ ~control[s].auto => ~rearmed[s]]_vars

\* ApplyConfig returns: it waits for goroutines that do end.
ApplyReturns == applier.pc # "idle" ~> applier.pc = "idle"

\* A manual request that reached the control of a running server starts a
\* collection of its own, unless the server is retired or the exporter stops.
ManualRequestsAreServed ==
    \A s \in Servers :
        control[s].manual ~> \/ /\ worker[s].pc = "collect" /\ worker[s].cause = "manual"
                                /\ ~control[s].manual
                             \/ Cancelled(s)

\* The published entry of an enabled server is what its goroutine ends up with:
\* however many configurations follow each other, the last one is collected with.
ConfigReachesWorker ==
    \A s \in Servers :
        Active(config[s]) ~> \/ worker[s].server = config[s] /\ worker[s].pc \in {"top", "select"}
                            \/ ~Active(config[s])
                            \/ down

\* A server that stays in auto mode is collected again and again.
AutoKeepsCollecting ==
    \A s \in Servers :
        <>[](control[s].auto /\ ~Cancelled(s)) => []<>(worker[s].pc = "collect")

\* Every HTTP request has been answered.
Answered == \A c \in Clients : client[c].pc = "idle"

\* docs/scheduling-control.md:7 says that switching to refresh mode stops the timed
\* trigger of the server, and that switching back to auto restarts a full
\* poll_interval and does not collect at once.  Does the timer, once the requests are
\* answered, collect in auto mode only, and only when it was set since the switch?
SwitchStopsTimer ==
    [][\A s \in Servers : Answered /\ TimerCollects(s) => control[s].auto /\ rearmed[s]]_vars
=============================================================================
