------------------------------ MODULE Controls ------------------------------
(***************************************************************************)
(* The part of the Grafana plug-in that is installed in every browser tab  *)
(* (src/module.js with src/control-logic.js): it sends the dashboards of   *)
(* the repository to the overview page, turns a click on Refresh into a    *)
(* collection of the dashboard's server, keeps the button grey for the     *)
(* cooldown, and refreshes the queries once Prometheus has the result.     *)
(*                                                                         *)
(* A browser runs one callback at a time; an action is what runs between   *)
(* two awaits.  The exporter and Prometheus are reduced to the number of   *)
(* collections of a server that ended (last_attempt) and the number that   *)
(* the newest sample includes, so "later than" compares these numbers.     *)
(***************************************************************************)
EXTENDS Integers, FiniteSets

CONSTANTS Dashboards,      \* dashboard UIDs
          Legacy,          \* UIDs of the form erlang-monitor-*, -qt05-*, -qt07-*
          Servers,
          ServerOf,        \* the fixed server variable of a dashboard, None without one
          Flows,           \* bound: invocations of triggerCollection at a time
          None,
          MaxClicks,       \* bound: clicks of the user on Refresh
          MaxMoves,        \* bound: navigations and reloads
          MaxCollections   \* bound: collections of each server that end

ASSUME ControlsAssumption ==
    /\ Legacy \subseteq Dashboards
    /\ ServerOf \in [Dashboards -> Servers \cup {None}]
    /\ None \notin Dashboards /\ None \notin Servers /\ None \notin Flows
    /\ MaxClicks \in Nat /\ MaxMoves \in Nat /\ MaxCollections \in Nat

VARIABLES loc,         \* window.location: dashboard, startup parameter, refresh=auto
          installed,   \* installControls ran in this page
          contexts,    \* dashboards whose server is cached
          requests,    \* contextRequests: dashboards being asked for
          polls,       \* refreshControlState calls that await loadContext
          redirected,  \* overviewRedirectTarget
          normalized,  \* normalizedAutoURL
          launcher,    \* the dashboard the link to the operations agent names
          button,      \* the run button of this dashboard is disabled by the plug-in
          storage,     \* sessionStorage can be used in this browser
          stored,      \* servers whose deadline in sessionStorage is ahead
          memory,      \* memoryDeadlines that are ahead
          current,     \* collectionGenerations: the newest flow of each server
          flow,        \* progress of triggerCollection
          attempt,     \* exporter: collections of a server that ended
          scraped,     \* Prometheus: how many of them the newest sample includes
          clicks, moves,
          granted,     \* history: collections requested for each server
          cooling,     \* history: servers asked for less than ten seconds ago
          since,       \* history: attempt when the last collection was requested
          autos        \* history: automatic refreshes for each server

location == <<loc, installed, redirected, normalized, launcher, button>>
context == <<contexts, requests, polls>>
cooldown == <<storage, stored, memory, cooling, granted, since>>
exporter == <<attempt, scraped>>

vars == <<location, context, cooldown, exporter, current, flow, clicks, moves, autos>>

Location ==
    [dash : Dashboards, startup : {None}, auto : BOOLEAN]
        \cup [dash : {None}, startup : Dashboards \cup {None}, auto : {FALSE}]

\* The overview page, the home page and every other page without a dashboard.
Elsewhere == [dash |-> None, startup |-> None, auto |-> FALSE]

NoFlow == [pc |-> "idle", uid |-> None, baseline |-> 0, completed |-> 0]

Flow == [pc : {"idle", "context", "status", "collect", "attempt", "sample", "cooldown"},
         uid : Dashboards \cup {None},
         baseline : 0..MaxCollections,     \* baselineAttempt
         completed : 0..MaxCollections]    \* completedAt

TypeOK ==
    /\ loc \in Location /\ installed \in BOOLEAN
    /\ contexts \subseteq Dashboards /\ requests \subseteq Dashboards /\ polls \subseteq Dashboards
    /\ redirected \in Dashboards \cup {None} /\ normalized \in Dashboards \cup {None}
    /\ launcher \in Dashboards \cup {None} /\ button \in BOOLEAN
    /\ storage \in BOOLEAN /\ stored \subseteq Servers /\ memory \subseteq Servers
    /\ current \in [Servers -> Flows \cup {None}]
    /\ flow \in [Flows -> Flow]
    /\ attempt \in [Servers -> 0..MaxCollections] /\ scraped \in [Servers -> 0..MaxCollections]
    /\ clicks \in 0..MaxClicks /\ moves \in 0..MaxMoves
    /\ granted \in [Servers -> Nat] /\ autos \in [Servers -> Nat]
    /\ cooling \subseteq Servers /\ since \in [Servers -> 0..MaxCollections]
    /\ polls \subseteq requests \cup contexts        \* nobody awaits a settled promise
    /\ \A f \in Flows : flow[f].pc = "context" => flow[f].uid \in requests \cup contexts

\* A tab is opened on a dashboard, or on the home page with or without the
\* parameter erlang-monitor-dashboard.
Init ==
    /\ loc \in Location
    /\ installed = FALSE
    /\ contexts = {} /\ requests = {} /\ polls = {}
    /\ redirected = None /\ normalized = None /\ launcher = None /\ button = FALSE
    /\ storage \in BOOLEAN /\ stored = {} /\ memory = {}
    /\ current = [s \in Servers |-> None]
    /\ flow = [f \in Flows |-> NoFlow]
    /\ attempt = [s \in Servers |-> 0] /\ scraped = [s \in Servers |-> 0]
    /\ clicks = 0 /\ moves = 0
    /\ granted = [s \in Servers |-> 0] /\ autos = [s \in Servers |-> 0]
    /\ cooling = {} /\ since = [s \in Servers |-> 0]

-----------------------------------------------------------------------------
(* Cooldown, context and redirection *)

\* Mistake: only sessionStorage is looked at.
CoolingDownStored(s) == storage /\ s \in stored

\* remainingFor(s) > 0: the later of the two deadlines counts.
CoolingDown(s) == s \in memory \/ (storage /\ s \in stored)

\* overviewEntryURL: the dashboard whose overview replaces this page.
OverviewEntry == IF loc.dash \in Legacy THEN loc.dash ELSE loc.startup

\* loadContext for a dashboard: one request at a time, none when it is cached.
LoadContext(uid) ==
    requests' = IF uid \in contexts THEN requests ELSE requests \cup {uid}

\* The synchronous part of refreshControlState: a page that has an overview is
\* left for it, once; any other dashboard waits for its context.
RefreshControlState ==
    \/ /\ OverviewEntry # None
       /\ redirected' = OverviewEntry
       /\ IF redirected = OverviewEntry
          THEN UNCHANGED <<loc, button>>
          ELSE loc' = Elsewhere /\ button' = FALSE
       /\ UNCHANGED <<polls, requests>>
    \/ /\ OverviewEntry = None
       /\ redirected' = None
       /\ IF loc.dash = None
          THEN UNCHANGED <<polls, requests>>
          ELSE polls' = polls \cup {loc.dash} /\ LoadContext(loc.dash)
       /\ UNCHANGED <<loc, button>>

\* installControls, run once when the bundle is loaded.
Install ==
    /\ ~installed /\ installed' = TRUE
    /\ RefreshControlState
    /\ UNCHANGED <<contexts, normalized, launcher, cooldown, exporter, current, flow, clicks, moves, autos>>

\* The interval timer, which only looks at the dashboards of the repository.
Tick ==
    /\ installed /\ loc.dash \in Legacy
    /\ RefreshControlState
    /\ UNCHANGED <<installed, contexts, normalized, launcher, cooldown, exporter, current, flow, clicks, moves, autos>>

\* The dashboard API answers; the promise resolves for everyone who awaits it.
ContextAnswer(uid) ==
    /\ uid \in requests
    /\ requests' = requests \ {uid}
    /\ contexts' = contexts \cup {uid}
    /\ UNCHANGED <<location, polls, cooldown, exporter, current, flow, clicks, moves, autos>>

\* Mistake: a failure leaves the callers of refreshControlState waiting.
WaitersKept(uid) == polls

\* Those who still await their context once that of uid could not be had.
WaitersAfterFailure(uid) == polls \ {uid}

\* It fails: they get a context without a server, and nothing is cached.
ContextFails(uid) ==
    /\ uid \in requests
    /\ requests' = requests \ {uid}
    /\ polls' = WaitersAfterFailure(uid)
    /\ flow' = [f \in Flows |-> IF flow[f].pc = "context" /\ flow[f].uid = uid THEN NoFlow ELSE flow[f]]
    /\ UNCHANGED <<location, contexts, cooldown, exporter, current, clicks, moves, autos>>

\* refreshControlState after loadContext: the button shows the cooldown, the
\* link to the agent the server, and refresh=auto is replaced once per URL.
ShowControlState(uid) ==
    /\ uid \in polls /\ uid \in contexts
    /\ polls' = polls \ {uid}
    /\ IF ServerOf[uid] # None /\ uid = loc.dash
       THEN /\ button' = CoolingDown(ServerOf[uid])
            /\ launcher' = uid
            /\ LET normalize == loc.auto /\ normalized # uid
               IN /\ normalized' = IF normalize THEN uid ELSE normalized
                  /\ loc' = [loc EXCEPT !.auto = @ /\ ~normalize]
       ELSE UNCHANGED <<loc, button, launcher, normalized>>
    /\ UNCHANGED <<installed, redirected, contexts, requests, cooldown, exporter, current, flow, clicks, moves, autos>>

-----------------------------------------------------------------------------
(* triggerCollection *)

FreeFlow == CHOOSE f \in Flows : flow[f].pc = "idle"

\* handleDocumentClick on the run button, and what is left of it: the click of
\* an automatic refresh only refreshes queries, one within the cooldown is
\* swallowed, any other starts triggerCollection beside Grafana's own refresh.
HandleDocumentClick(queryRefreshOnly, flows) ==
    LET uid == loc.dash
        swallowed == uid \in contexts /\ ServerOf[uid] # None /\ CoolingDown(ServerOf[uid])
    IN IF queryRefreshOnly
       THEN flow' = flows /\ UNCHANGED <<button, requests>>
       ELSE IF swallowed
       THEN flow' = flows /\ button' = TRUE /\ UNCHANGED requests
       ELSE /\ flow' = [flows EXCEPT ![FreeFlow] = [NoFlow EXCEPT !.pc = "context", !.uid = uid]]
            /\ LoadContext(uid)
            /\ UNCHANGED button

\* The user clicks Refresh, which a disabled button does not pass on.
Click ==
    /\ installed /\ loc.dash # None /\ ~button
    /\ clicks < MaxClicks /\ clicks' = clicks + 1
    /\ \E f \in Flows : flow[f].pc = "idle"
    /\ HandleDocumentClick(FALSE, flow)
    /\ UNCHANGED <<loc, installed, redirected, normalized, launcher, contexts, polls,
                   cooldown, exporter, current, moves, autos>>

\* Mistake: any flow of the dashboard counts, also one that a newer click replaced.
IsShown(f) ==
    LET uid == flow[f].uid
    IN uid # None /\ uid = loc.dash /\ ServerOf[uid] # None

\* isCurrent: no newer flow for the server, and its dashboard is still shown.
IsCurrent(f) ==
    LET uid == flow[f].uid
    IN uid # None /\ uid = loc.dash /\ ServerOf[uid] # None /\ current[ServerOf[uid]] = f

\* The flow returns or throws.
End(f) == flow' = [flow EXCEPT ![f] = NoFlow]

\* After loadContext: another page, no server, or a cooldown that began while
\* this flow was waiting ends it.
Abandon(f) ==
    LET uid == flow[f].uid
    IN /\ flow[f].pc = "context" /\ uid \in contexts
       /\ ServerOf[uid] = None \/ uid # loc.dash \/ CoolingDown(ServerOf[uid])
       /\ End(f)
       /\ UNCHANGED <<location, context, cooldown, exporter, current, clicks, moves, autos>>

\* beginCooldown, the deadline in memory, a new generation, refreshControlState.
Begin(f) ==
    LET uid == flow[f].uid
        s == ServerOf[uid]
    IN /\ flow[f].pc = "context" /\ uid \in contexts
       /\ s # None /\ uid = loc.dash /\ ~CoolingDown(s)
       /\ memory' = memory \cup {s}
       /\ stored' = IF storage THEN stored \cup {s} ELSE stored
       /\ cooling' = cooling \cup {s}
       /\ granted' = [granted EXCEPT ![s] = @ + 1]
       /\ since' = [since EXCEPT ![s] = attempt[s]]
       /\ current' = [current EXCEPT ![s] = f]
       /\ flow' = [flow EXCEPT ![f].pc = "status", ![f].baseline = attempt[s]]
       /\ RefreshControlState
       /\ UNCHANGED <<installed, normalized, launcher, contexts, storage, exporter, clicks, moves, autos>>

\* The status before the request; without one requestedAt is the baseline.
StatusBefore(f) ==
    /\ flow[f].pc = "status" /\ flow[f].uid \notin polls
    /\ \E b \in flow[f].baseline..attempt[ServerOf[flow[f].uid]] :
          flow' = [flow EXCEPT ![f].pc = "collect", ![f].baseline = b]
    /\ UNCHANGED <<location, context, cooldown, exporter, current, clicks, moves, autos>>

\* The answer to POST collect names the server.
CollectAnswer(f) ==
    /\ flow[f].pc = "collect"
    /\ IF IsCurrent(f) THEN flow' = [flow EXCEPT ![f].pc = "attempt"] ELSE End(f)
    /\ UNCHANGED <<location, context, cooldown, exporter, current, clicks, moves, autos>>

\* It fails or names none.
CollectFails(f) ==
    /\ flow[f].pc = "collect"
    /\ End(f)
    /\ UNCHANGED <<location, context, cooldown, exporter, current, clicks, moves, autos>>

\* Mistake: waitForValue has no deadline.
WaitEndsWithoutDeadline(f) ==
    /\ flow[f].pc \in {"attempt", "sample"} /\ ~IsCurrent(f)
    /\ End(f)
    /\ UNCHANGED <<location, context, cooldown, exporter, current, clicks, moves, autos>>

\* waitForValue ends without a value: the deadline, or the flow is not current.
WaitEnds(f) ==
    /\ flow[f].pc \in {"attempt", "sample"}
    /\ End(f)
    /\ UNCHANGED <<location, context, cooldown, exporter, current, clicks, moves, autos>>

\* A status answer, perhaps delayed, shows an attempt later than the baseline.
AttemptSeen(f) ==
    /\ flow[f].pc = "attempt" /\ IsCurrent(f)
    /\ \E c \in (flow[f].baseline + 1)..attempt[ServerOf[flow[f].uid]] :
          flow' = [flow EXCEPT ![f].pc = "sample", ![f].completed = c]
    /\ UNCHANGED <<location, context, cooldown, exporter, current, clicks, moves, autos>>

\* Prometheus has a sample that is not older than that attempt.
SampleSeen(f) ==
    /\ flow[f].pc = "sample" /\ IsCurrent(f)
    /\ scraped[ServerOf[flow[f].uid]] >= flow[f].completed
    /\ flow' = [flow EXCEPT ![f].pc = "cooldown"]
    /\ UNCHANGED <<location, context, cooldown, exporter, current, clicks, moves, autos>>

\* After the rest of the cooldown refreshGrafanaQueries clicks an enabled button.
AutoRefresh(f) ==
    LET s == ServerOf[flow[f].uid]
        ended == [flow EXCEPT ![f] = NoFlow]
    IN /\ flow[f].pc = "cooldown" /\ (CoolingDown(s) => current[s] # f)
       /\ IF IsCurrent(f) /\ ~button
          THEN /\ autos' = [autos EXCEPT ![s] = @ + 1]
               /\ HandleDocumentClick(TRUE, ended)
          ELSE flow' = ended /\ UNCHANGED <<autos, button, requests>>
       /\ UNCHANGED <<loc, installed, redirected, normalized, launcher, contexts, polls,
                      cooldown, exporter, current, clicks, moves>>

-----------------------------------------------------------------------------
(* The surroundings *)

\* Ten seconds passed since beginCooldown.
Elapse(s) ==
    /\ s \in memory \cup stored \cup cooling
    /\ memory' = memory \ {s} /\ stored' = stored \ {s} /\ cooling' = cooling \ {s}
    /\ UNCHANGED <<location, context, storage, granted, since, exporter, current, flow, clicks, moves, autos>>

\* A collection of s ends, whoever asked for it.
Collect(s) ==
    /\ attempt[s] < MaxCollections
    /\ attempt' = [attempt EXCEPT ![s] = @ + 1]
    /\ UNCHANGED <<location, context, cooldown, scraped, current, flow, clicks, moves, autos>>

Scrape(s) ==
    /\ scraped[s] # attempt[s]
    /\ scraped' = [scraped EXCEPT ![s] = attempt[s]]
    /\ UNCHANGED <<location, context, cooldown, attempt, current, flow, clicks, moves, autos>>

\* The user follows a link or goes back: another page with a new run button.
Navigate(to) ==
    /\ moves < MaxMoves /\ moves' = moves + 1
    /\ to # loc /\ to.startup = None
    /\ loc' = to /\ button' = FALSE
    /\ UNCHANGED <<installed, redirected, normalized, launcher, context, cooldown,
                   exporter, current, flow, clicks, autos>>

\* The page is loaded again: only sessionStorage survives.
Reload ==
    /\ installed /\ moves < MaxMoves /\ moves' = moves + 1
    /\ installed' = FALSE
    /\ redirected' = None /\ normalized' = None /\ launcher' = None /\ button' = FALSE
    /\ contexts' = {} /\ requests' = {} /\ polls' = {}
    /\ memory' = {} /\ cooling' = IF storage THEN cooling ELSE {}
    /\ current' = [s \in Servers |-> None] /\ flow' = [f \in Flows |-> NoFlow]
    /\ UNCHANGED <<loc, storage, stored, granted, since, exporter, clicks, autos>>

-----------------------------------------------------------------------------
Step(f) ==
    \/ Abandon(f) \/ Begin(f) \/ StatusBefore(f) \/ CollectAnswer(f) \/ CollectFails(f)
    \/ WaitEnds(f) \/ AttemptSeen(f) \/ SampleSeen(f) \/ AutoRefresh(f)

Network == \E uid \in Dashboards : ContextAnswer(uid) \/ ContextFails(uid)

Next ==
    \/ Install \/ Tick \/ Click \/ Reload
    \/ Network
    \/ \E uid \in Dashboards : ShowControlState(uid)
    \/ \E f \in Flows : Step(f)
    \/ \E s \in Servers : Elapse(s) \/ Collect(s) \/ Scrape(s)
    \/ \E to \in Location : Navigate(to)

\* Requests are answered or fail, waits have deadlines, timers fire.  Users need
\* not click, and nobody promises that a collection ends in time.
Fairness ==
    /\ WF_vars(Install) /\ WF_vars(Tick) /\ WF_vars(Network)
    /\ \A uid \in Dashboards : WF_vars(ShowControlState(uid))
    /\ \A f \in Flows : WF_vars(Step(f))
    /\ \A s \in Servers : WF_vars(Elapse(s))

Spec == Init /\ [][Next]_vars

FairSpec == Spec /\ Fairness

-----------------------------------------------------------------------------
(* Properties *)

\* Two clicks that both wait for the dashboard's context, a change of the dashboard
\* or a reload never lead to two collections within one cooldown; only a reload in a
\* browser without sessionStorage forgets the cooldown.
Limiter == INSTANCE RateLimit WITH granted <- granted, cooling <- cooling

OneCollectionPerCooldown == Limiter!RateLimitSpec

\* A request for a collection needs a click of the user; the click with which the
\* plug-in refreshes the queries is not taken for one.
RequestsComeFromClicks ==
    /\ Cardinality({f \in Flows : flow[f].pc = "context"}) <= clicks
    /\ \A s \in Servers : granted[s] <= clicks /\ autos[s] <= granted[s]

\* An automatic refresh happens on a dashboard of its server and shows a
\* collection that ended after the last click that was granted.
AutoRefreshIsFresh ==
    [][\A s \in Servers : autos'[s] # autos[s] =>
          /\ loc.dash # None /\ ServerOf[loc.dash] = s
          /\ scraped[s] > since[s]]_vars

\* triggerCollection refreshes the queries by itself at most once for a collection
\* a user asked for, with the data of that collection or a later one, on a page of
\* its server, and never takes its own click for the user's.
AutomaticRefresh == []RequestsComeFromClicks /\ AutoRefreshIsFresh

\* No click leaves triggerCollection waiting for ever.
FlowsEnd == \A f \in Flows : flow[f].pc # "idle" ~> flow[f].pc = "idle"
=============================================================================
