--------------------------- MODULE ControlsProofs ---------------------------
(***************************************************************************)
(* Proofs about the Refresh button of the Grafana plug-in (Controls), for  *)
(* any dashboards, servers, number of flows and bounds:  the types, the    *)
(* refinement of RateLimit, and what an automatic refresh shows.           *)
(***************************************************************************)
EXTENDS Controls, FiniteSetTheorems, TLAPS

\* A flow that got past its context has a dashboard with a server.
HasServer(v) == v.pc \in {"idle", "context"} \/ (v.uid \in Dashboards /\ ServerOf[v.uid] \in Servers)

FlowsHaveServers == \A f \in Flows : HasServer(flow[f])

\* What a step does not touch when it only moves the flow f on.
Still == <<location, context, cooldown, exporter, current, clicks, moves, autos>>

LEMMA LocationType ==
    /\ Elsewhere \in Location
    /\ \A l \in Location : l.dash \in Dashboards \cup {None} /\ l.startup \in Dashboards \cup {None}
                           /\ l.auto \in BOOLEAN
BY DEF Location, Elsewhere

LEMMA NoFlowType == NoFlow \in Flow /\ NoFlow.pc = "idle"
BY ControlsAssumption DEF NoFlow, Flow

\* RefreshControlState and LoadContext keep the types of what they touch.
LEMMA RefreshType ==
    ASSUME TypeOK, RefreshControlState, contexts' = contexts
    PROVE  /\ loc' \in Location /\ button' \in BOOLEAN /\ redirected' \in Dashboards \cup {None}
           /\ polls' \subseteq Dashboards /\ requests' \subseteq Dashboards
           /\ polls' \subseteq requests' \cup contexts'
           /\ requests \subseteq requests'
<1>1. OverviewEntry \in Dashboards \cup {None}
  BY LocationType, ControlsAssumption DEF OverviewEntry, TypeOK
<1>2. loc.dash \in Dashboards \cup {None}
  BY LocationType DEF TypeOK
<1>3. CASE OverviewEntry # None
  BY <1>1, <1>3, LocationType DEF RefreshControlState, TypeOK
<1>4. CASE OverviewEntry = None
  <2>1. CASE loc.dash = None
    BY <1>4, <2>1 DEF RefreshControlState, TypeOK
  <2>2. CASE loc.dash # None
    BY <1>2, <1>4, <2>2 DEF RefreshControlState, LoadContext, TypeOK
  <2> QED BY <2>1, <2>2
<1> QED BY <1>3, <1>4

\* A step that moves only the flow f, to a value of the type that waits for no
\* context, keeps the types.
LEMMA FlowStepType ==
    ASSUME TypeOK, UNCHANGED Still, NEW f \in Flows, NEW v \in Flow, v.pc # "context",
           flow' = [flow EXCEPT ![f] = v]
    PROVE  TypeOK'
<1>1. flow' \in [Flows -> Flow]
  BY DEF TypeOK
<1>2. \A g \in Flows : flow'[g].pc = "context" => flow'[g].uid \in requests \cup contexts
  BY DEF TypeOK
<1> QED BY <1>1, <1>2 DEF TypeOK, Still, location, context, cooldown, exporter

\* An update of two fields of a flow.
LEMMA FlowFields ==
    ASSUME NEW v \in Flow,
           NEW p \in {"idle", "context", "status", "collect", "attempt", "sample", "cooldown"},
           NEW n \in 0..MaxCollections
    PROVE  /\ [v EXCEPT !.pc = p] \in Flow
           /\ [v EXCEPT !.pc = p, !.baseline = n] \in Flow
           /\ [v EXCEPT !.pc = p, !.completed = n] \in Flow
BY DEF Flow

LEMMA TypeInit == Init => TypeOK
<1> SUFFICES ASSUME Init PROVE TypeOK
  OBVIOUS
<1>1. /\ loc \in Location /\ installed \in BOOLEAN
      /\ contexts \subseteq Dashboards /\ requests \subseteq Dashboards /\ polls \subseteq Dashboards
      /\ redirected \in Dashboards \cup {None} /\ normalized \in Dashboards \cup {None}
      /\ launcher \in Dashboards \cup {None} /\ button \in BOOLEAN
      /\ storage \in BOOLEAN /\ stored \subseteq Servers /\ memory \subseteq Servers
      /\ cooling \subseteq Servers /\ polls \subseteq requests \cup contexts
  BY DEF Init
<1>2. 0 \in 0..MaxCollections /\ 0 \in 0..MaxClicks /\ 0 \in 0..MaxMoves
  BY ControlsAssumption
<1>3. /\ clicks \in 0..MaxClicks /\ moves \in 0..MaxMoves
      /\ attempt \in [Servers -> 0..MaxCollections] /\ scraped \in [Servers -> 0..MaxCollections]
      /\ granted \in [Servers -> Nat] /\ autos \in [Servers -> Nat]
      /\ since \in [Servers -> 0..MaxCollections]
  BY <1>2 DEF Init
<1>4. /\ current \in [Servers -> Flows \cup {None}] /\ flow \in [Flows -> Flow]
      /\ \A f \in Flows : flow[f].pc = "context" => flow[f].uid \in requests \cup contexts
  BY NoFlowType DEF Init
<1> QED BY <1>1, <1>3, <1>4 DEF TypeOK

\* The control state of the page: redirection, context, button.
LEMMA TypeControlState ==
    ASSUME TypeOK, Install \/ Tick \/ Network \/ \E uid \in Dashboards : ShowControlState(uid)
    PROVE  TypeOK'
<1> USE DEF context, cooldown, exporter
<1>1. CASE Install
  <2>1. /\ RefreshControlState /\ contexts' = contexts
        /\ UNCHANGED <<normalized, launcher, cooldown, exporter, current, flow, clicks, moves, autos>>
        /\ installed' = TRUE
    BY <1>1 DEF Install
  <2> QED BY <2>1, RefreshType DEF TypeOK
<1>2. CASE Tick
  <2>1. /\ RefreshControlState /\ contexts' = contexts
        /\ UNCHANGED <<installed, normalized, launcher, cooldown, exporter, current, flow, clicks, moves, autos>>
    BY <1>2 DEF Tick
  <2> QED BY <2>1, RefreshType DEF TypeOK
<1>3. CASE Network
  <2> SUFFICES ASSUME NEW uid \in Dashboards, ContextAnswer(uid) \/ ContextFails(uid)
               PROVE  TypeOK'
    BY <1>3 DEF Network
  <2>1. CASE ContextAnswer(uid)
    BY <2>1 DEF ContextAnswer, TypeOK, location
  <2>2. CASE ContextFails(uid)
    <3>1. flow' \in [Flows -> Flow]
      BY <2>2, NoFlowType DEF ContextFails, TypeOK
    <3>2. \A f \in Flows : flow'[f].pc = "context" => flow'[f].uid \in requests' \cup contexts
      BY <2>2, NoFlowType DEF ContextFails, TypeOK
    <3>3. polls' \subseteq Dashboards /\ polls' \subseteq requests' \cup contexts
      BY <2>2 DEF ContextFails, WaitersAfterFailure, TypeOK
    <3> QED BY <2>2, <3>1, <3>2, <3>3 DEF ContextFails, TypeOK, location
  <2> QED BY <2>1, <2>2
<1>4. ASSUME NEW uid \in Dashboards, ShowControlState(uid)
      PROVE  TypeOK'
  <2>1. /\ loc' \in Location /\ button' \in BOOLEAN
        /\ launcher' \in Dashboards \cup {None} /\ normalized' \in Dashboards \cup {None}
    <3>1. CASE ServerOf[uid] # None /\ uid = loc.dash
      <4>1. button' = CoolingDown(ServerOf[uid]) /\ launcher' = uid
        BY <1>4, <3>1 DEF ShowControlState
      <4>2. button' \in BOOLEAN
        BY <4>1, Zenon DEF CoolingDown, TypeOK
      <4>3. \E b \in BOOLEAN : loc' = [loc EXCEPT !.auto = b] /\ normalized' \in {uid, normalized}
        <5>1. \A b : (loc.auto /\ b) \in BOOLEAN
          BY LocationType DEF TypeOK
        <5> QED BY <1>4, <3>1 DEF ShowControlState
      <4>4. loc' \in Location
        <5>1. loc.dash \in Dashboards /\ loc \in Location
          BY <3>1 DEF TypeOK
        <5>2. loc \in [dash : Dashboards, startup : {None}, auto : BOOLEAN]
          BY <5>1, ControlsAssumption DEF Location
        <5> QED BY <4>3, <5>2 DEF Location
      <4> QED BY <4>1, <4>2, <4>3, <4>4 DEF TypeOK
    <3>2. CASE ~(ServerOf[uid] # None /\ uid = loc.dash)
      BY <1>4, <3>2 DEF ShowControlState, TypeOK
    <3> QED BY <3>1, <3>2
  <2> QED BY <1>4, <2>1 DEF ShowControlState, TypeOK
<1> QED BY <1>1, <1>2, <1>3, <1>4

\* handleDocumentClick keeps the types; flows is the state of the other flows.
LEMMA ClickType ==
    ASSUME TypeOK, NEW q \in BOOLEAN, NEW flows \in [Flows -> Flow], HandleDocumentClick(q, flows),
           loc.dash # None, \E f \in Flows : flow[f].pc = "idle" \/ q,
           \A f \in Flows : flows[f].pc = "context" => flows[f].uid \in requests \cup contexts
    PROVE  /\ flow' \in [Flows -> Flow] /\ button' \in BOOLEAN
           /\ requests' \subseteq Dashboards /\ requests \subseteq requests'
           /\ \A f \in Flows : flow'[f].pc = "context" => flow'[f].uid \in requests' \cup contexts
<1> DEFINE uid == loc.dash
           new == [NoFlow EXCEPT !.pc = "context", !.uid = uid]
<1>1. uid \in Dashboards
  BY LocationType DEF TypeOK
<1>2. CASE flow' = flows /\ button' \in BOOLEAN /\ UNCHANGED requests
  BY <1>2 DEF TypeOK
<1>3. CASE ~q /\ flow' = [flows EXCEPT ![FreeFlow] = new] /\ LoadContext(uid) /\ UNCHANGED button
  <2>1. new \in Flow /\ new.uid = uid
    BY <1>1, NoFlowType DEF Flow
  <2>2. FreeFlow \in Flows
    BY <1>3 DEF FreeFlow
  <2>3. requests' \subseteq Dashboards /\ requests \subseteq requests' /\ uid \in requests' \cup contexts
    BY <1>1, <1>3 DEF LoadContext, TypeOK
  <2>4. \A f \in Flows : flow'[f] = IF f = FreeFlow THEN new ELSE flows[f]
    BY <1>3
  <2> QED BY <1>3, <2>1, <2>2, <2>3, <2>4 DEF TypeOK
<1> QED BY <1>2, <1>3 DEF HandleDocumentClick, TypeOK

LEMMA Intervals ==
    \A i, j \in 0..MaxCollections : i..j \subseteq 0..MaxCollections /\ (i + 1)..j \subseteq 0..MaxCollections
BY ControlsAssumption

\* The flows of triggerCollection.
LEMMA TypeFlow ==
    ASSUME TypeOK, FlowsHaveServers, NEW f \in Flows, Step(f)
    PROVE  TypeOK'
<1>0. flow[f] \in Flow /\ None \notin Dashboards
  BY ControlsAssumption DEF TypeOK
<1>1. CASE End(f) /\ UNCHANGED Still
  <2>1. NoFlow \in Flow /\ NoFlow.pc # "context"
    BY NoFlowType
  <2> QED BY <1>1, <2>1, FlowStepType DEF End
<1>2. CASE Begin(f)
  <2> DEFINE uid == flow[f].uid
             s == ServerOf[uid]
  <2>1. uid \in Dashboards /\ s \in Servers /\ attempt[s] \in 0..MaxCollections /\ granted[s] \in Nat
    BY <1>2, ControlsAssumption DEF Begin, TypeOK
  <2>2. /\ RefreshControlState /\ contexts' = contexts
        /\ memory' = memory \cup {s} /\ stored' = IF storage THEN stored \cup {s} ELSE stored
        /\ cooling' = cooling \cup {s}
        /\ granted' = [granted EXCEPT ![s] = @ + 1]
        /\ since' = [since EXCEPT ![s] = attempt[s]]
        /\ current' = [current EXCEPT ![s] = f]
        /\ flow' = [flow EXCEPT ![f].pc = "status", ![f].baseline = attempt[s]]
        /\ UNCHANGED <<installed, normalized, launcher, storage, exporter, clicks, moves, autos>>
    BY <1>2 DEF Begin
  <2>3. flow' = [flow EXCEPT ![f] = [flow[f] EXCEPT !.pc = "status", !.baseline = attempt[s]]]
    BY <2>2 DEF TypeOK
  <2>4. [flow[f] EXCEPT !.pc = "status", !.baseline = attempt[s]] \in Flow
    BY <1>0, <2>1, FlowFields
  <2>5. flow' \in [Flows -> Flow] /\ \A g \in Flows : g # f => flow'[g] = flow[g]
    BY <2>3, <2>4 DEF TypeOK
  <2>6. flow'[f].pc = "status"
    BY <1>0, <2>3 DEF TypeOK, Flow
  <2>7. /\ loc' \in Location /\ button' \in BOOLEAN /\ redirected' \in Dashboards \cup {None}
        /\ polls' \subseteq Dashboards /\ requests' \subseteq Dashboards
        /\ polls' \subseteq requests' \cup contexts'
        /\ requests \subseteq requests'
    BY <2>2, RefreshType
  <2>8. \A g \in Flows : flow'[g].pc = "context" => flow'[g].uid \in requests' \cup contexts'
    BY <2>2, <2>5, <2>6, <2>7 DEF TypeOK
  <2> HIDE DEF s, uid
  <2> QED BY <2>1, <2>2, <2>5, <2>7, <2>8 DEF TypeOK, exporter
<1>3. ASSUME NEW p \in {"collect", "attempt", "sample", "cooldown"}, NEW n \in 0..MaxCollections,
             UNCHANGED Still,
             \/ flow' = [flow EXCEPT ![f].pc = p]
             \/ flow' = [flow EXCEPT ![f].pc = p, ![f].baseline = n]
             \/ flow' = [flow EXCEPT ![f].pc = p, ![f].completed = n]
      PROVE  TypeOK'
  <2>1. PICK v \in Flow : v.pc = p /\ flow' = [flow EXCEPT ![f] = v]
    <3>1. CASE flow' = [flow EXCEPT ![f].pc = p]
      <4>1. [flow[f] EXCEPT !.pc = p].pc = p
        BY <1>0 DEF Flow
      <4> QED BY <1>0, <3>1, <4>1, FlowFields
    <3>2. CASE flow' = [flow EXCEPT ![f].pc = p, ![f].baseline = n]
      <4>1. [flow[f] EXCEPT !.pc = p, !.baseline = n].pc = p
        BY <1>0 DEF Flow
      <4>2. flow' = [flow EXCEPT ![f] = [flow[f] EXCEPT !.pc = p, !.baseline = n]]
        BY <3>2 DEF TypeOK
      <4> QED BY <1>0, <4>1, <4>2, FlowFields
    <3>3. CASE flow' = [flow EXCEPT ![f].pc = p, ![f].completed = n]
      <4>1. [flow[f] EXCEPT !.pc = p, !.completed = n].pc = p
        BY <1>0 DEF Flow
      <4>2. flow' = [flow EXCEPT ![f] = [flow[f] EXCEPT !.pc = p, !.completed = n]]
        BY <3>3 DEF TypeOK
      <4> QED BY <1>0, <4>1, <4>2, FlowFields
    <3> QED BY <1>3, <3>1, <3>2, <3>3
  <2> QED BY <1>3, <2>1, FlowStepType
<1>4. CASE StatusBefore(f)
  <2>1. PICK b \in flow[f].baseline..attempt[ServerOf[flow[f].uid]] :
           flow' = [flow EXCEPT ![f].pc = "collect", ![f].baseline = b]
    BY <1>4 DEF StatusBefore
  <2>2. b \in 0..MaxCollections
    <3>1. flow[f].pc = "status"
      BY <1>4 DEF StatusBefore
    <3>2. ServerOf[flow[f].uid] \in Servers
      BY <3>1 DEF FlowsHaveServers, HasServer
    <3>3. attempt[ServerOf[flow[f].uid]] \in 0..MaxCollections /\ flow[f].baseline \in 0..MaxCollections
      BY <1>0, <3>2 DEF TypeOK, Flow
    <3> QED BY <2>1, <3>3, Intervals
  <2>3. UNCHANGED Still
    BY <1>4 DEF StatusBefore, Still
  <2> QED BY <1>3, <2>1, <2>2, <2>3
<1>5. CASE AttemptSeen(f)
  <2>1. PICK c \in (flow[f].baseline + 1)..attempt[ServerOf[flow[f].uid]] :
           flow' = [flow EXCEPT ![f].pc = "sample", ![f].completed = c]
    BY <1>5 DEF AttemptSeen
  <2>2. c \in 0..MaxCollections
    <3>1. flow[f].pc = "attempt"
      BY <1>5 DEF AttemptSeen
    <3>2. ServerOf[flow[f].uid] \in Servers
      BY <3>1 DEF FlowsHaveServers, HasServer
    <3>3. attempt[ServerOf[flow[f].uid]] \in 0..MaxCollections /\ flow[f].baseline \in 0..MaxCollections
      BY <1>0, <3>2 DEF TypeOK, Flow
    <3> QED BY <2>1, <3>3, Intervals
  <2>3. UNCHANGED Still
    BY <1>5 DEF AttemptSeen, Still
  <2> QED BY <1>3, <2>1, <2>2, <2>3
<1>6. CASE AutoRefresh(f)
  <2> DEFINE s == ServerOf[flow[f].uid]
             ended == [flow EXCEPT ![f] = NoFlow]
  <2>1. /\ ended \in [Flows -> Flow]
        /\ \A g \in Flows : ended[g].pc = "context" => ended[g].uid \in requests \cup contexts
    BY NoFlowType DEF TypeOK
  <2>2. /\ UNCHANGED <<loc, installed, redirected, normalized, launcher, contexts, polls,
                       cooldown, exporter, current, clicks, moves>>
        /\ flow[f].pc = "cooldown"
    BY <1>6 DEF AutoRefresh
  <2>3. /\ flow' = ended /\ UNCHANGED <<button, requests>>
        /\ autos' = autos \/ autos' = [autos EXCEPT ![s] = @ + 1]
    BY <1>6 DEF AutoRefresh, HandleDocumentClick
  <2>4. s \in Servers
    BY <2>2 DEF FlowsHaveServers, HasServer
  <2>5. autos' \in [Servers -> Nat]
    BY <2>3, <2>4 DEF TypeOK
  <2> HIDE DEF ended, s
  <2> QED BY <2>1, <2>2, <2>3, <2>5 DEF TypeOK, cooldown, exporter
<1>7. CASE SampleSeen(f) \/ (CollectAnswer(f) /\ IsCurrent(f))
  <2>1. UNCHANGED Still /\ \E p \in {"cooldown", "attempt"} : flow' = [flow EXCEPT ![f].pc = p]
    BY <1>7 DEF SampleSeen, CollectAnswer, Still
  <2>2. 0 \in 0..MaxCollections
    BY ControlsAssumption
  <2> QED BY <1>3, <2>1, <2>2
<1>8. CASE Abandon(f) \/ CollectFails(f) \/ WaitEnds(f) \/ (CollectAnswer(f) /\ ~IsCurrent(f))
  BY <1>1, <1>8 DEF Abandon, CollectFails, WaitEnds, CollectAnswer, Still
<1> QED BY <1>2, <1>4, <1>5, <1>6, <1>7, <1>8 DEF Step

LEMMA TypeSurroundings ==
    ASSUME TypeOK, \/ \E s \in Servers : Elapse(s) \/ Collect(s) \/ Scrape(s)
                   \/ Click \/ Reload \/ \E to \in Location : Navigate(to)
    PROVE  TypeOK'
<1> USE DEF location, context, cooldown, exporter
<1>1. ASSUME NEW s \in Servers, Elapse(s)
      PROVE  TypeOK'
  BY <1>1 DEF Elapse, TypeOK
<1>2. ASSUME NEW s \in Servers, Collect(s)
      PROVE  TypeOK'
  <2>1. attempt' \in [Servers -> 0..MaxCollections]
    BY <1>2, ControlsAssumption DEF Collect, TypeOK
  <2> QED BY <1>2, <2>1 DEF Collect, TypeOK
<1>3. ASSUME NEW s \in Servers, Scrape(s)
      PROVE  TypeOK'
  <2>1. scraped' \in [Servers -> 0..MaxCollections]
    BY <1>3 DEF Scrape, TypeOK
  <2> QED BY <1>3, <2>1 DEF Scrape, TypeOK
<1>4. CASE Click
  <2>1. /\ loc.dash # None /\ HandleDocumentClick(FALSE, flow)
        /\ \E f \in Flows : flow[f].pc = "idle"
        /\ UNCHANGED <<loc, installed, redirected, normalized, launcher, contexts, polls,
                       cooldown, exporter, current, moves, autos>>
    BY <1>4 DEF Click
  <2>0. clicks' \in 0..MaxClicks
    BY <1>4, ControlsAssumption DEF Click, TypeOK
  <2>2. /\ flow' \in [Flows -> Flow] /\ button' \in BOOLEAN
        /\ requests' \subseteq Dashboards /\ requests \subseteq requests'
        /\ \A f \in Flows : flow'[f].pc = "context" => flow'[f].uid \in requests' \cup contexts
    BY <2>1, ClickType DEF TypeOK
  <2> QED BY <2>0, <2>1, <2>2 DEF TypeOK
<1>5. CASE Reload
  <2>1. moves' \in 0..MaxMoves /\ current' \in [Servers -> Flows \cup {None}]
    BY <1>5, ControlsAssumption DEF Reload, TypeOK
  <2>2. /\ flow' \in [Flows -> Flow]
        /\ \A f \in Flows : flow'[f].pc = "context" => flow'[f].uid \in requests' \cup contexts'
    BY <1>5, NoFlowType DEF Reload
  <2> QED BY <1>5, <2>1, <2>2 DEF Reload, TypeOK
<1>6. ASSUME NEW to \in Location, Navigate(to)
      PROVE  TypeOK'
  <2>1. moves' \in 0..MaxMoves
    BY <1>6, ControlsAssumption DEF Navigate, TypeOK
  <2> QED BY <1>6, <2>1 DEF Navigate, TypeOK
<1> QED BY <1>1, <1>2, <1>3, <1>4, <1>5, <1>6

-----------------------------------------------------------------------------
(* The invariant that automatic refreshes rest on *)

\* What a flow has seen: after its context it has a server; while no newer flow
\* replaced it, its baseline is not older than the last granted request; what it
\* waited for is later than the baseline, and Prometheus has it.
Progress(f) ==
    LET v == flow[f]
        s == ServerOf[v.uid]
    IN v.pc \notin {"idle", "context"} =>
          /\ v.uid \in Dashboards /\ s \in Servers
          /\ current[s] = f => since[s] <= v.baseline
          /\ v.pc \in {"sample", "cooldown"} => v.baseline < v.completed
          /\ v.pc = "cooldown" => v.completed <= scraped[s]

SamplesFollowAttempts == \A s \in Servers : scraped[s] <= attempt[s]

ControlsInv ==
    /\ TypeOK
    /\ SamplesFollowAttempts
    /\ \A f \in Flows : Progress(f)

LEMMA ProgressHasServers ==
    ASSUME \A f \in Flows : Progress(f) PROVE FlowsHaveServers
BY DEF Progress, FlowsHaveServers, HasServer

\* A step that leaves f alone keeps its progress.
LEMMA ProgressStays ==
    ASSUME TypeOK, TypeOK', NEW f \in Flows, Progress(f),
           flow'[f] = flow[f],
           \A s \in Servers : /\ scraped[s] <= scraped'[s]
                              /\ (current'[s] = f => current[s] = f /\ since'[s] = since[s])
    PROVE  Progress(f)'
<1> DEFINE v == flow[f]
           s == ServerOf[v.uid]
<1> SUFFICES ASSUME v.pc \notin {"idle", "context"}
             PROVE  /\ v.uid \in Dashboards /\ s \in Servers
                    /\ current'[s] = f => since'[s] <= v.baseline
                    /\ v.pc \in {"sample", "cooldown"} => v.baseline < v.completed
                    /\ v.pc = "cooldown" => v.completed <= scraped'[s]
  BY DEF Progress
<1>1. /\ v.uid \in Dashboards /\ s \in Servers
      /\ current[s] = f => since[s] <= v.baseline
      /\ v.pc \in {"sample", "cooldown"} => v.baseline < v.completed
      /\ v.pc = "cooldown" => v.completed <= scraped[s]
  BY DEF Progress
<1>2. /\ scraped[s] <= scraped'[s]
      /\ (current'[s] = f => current[s] = f /\ since'[s] = since[s])
  BY <1>1
<1>3. v.completed \in 0..MaxCollections /\ scraped[s] \in Nat /\ scraped'[s] \in Nat
  BY <1>1 DEF TypeOK, Flow
<1> HIDE DEF v, s
<1> QED BY <1>1, <1>2, <1>3

LEMMA ProgressIdle ==
    ASSUME NEW f \in Flows, flow'[f].pc \in {"idle", "context"} PROVE Progress(f)'
BY DEF Progress

LEMMA ProgressFlow ==
    ASSUME ControlsInv, TypeOK', NEW f \in Flows, Step(f), NEW g \in Flows
    PROVE  Progress(g)'
<1> DEFINE v == flow[f]
           s == ServerOf[v.uid]
<1>0. /\ TypeOK /\ Progress(f) /\ Progress(g) /\ v \in Flow
  BY DEF ControlsInv, TypeOK
<1>a. ASSUME flow'[g] = flow[g], UNCHANGED <<scraped, current, since>>
      PROVE  Progress(g)'
  <2>1. \A t \in Servers : scraped[t] <= scraped'[t]
    BY <1>0, <1>a DEF TypeOK
  <2> QED BY <1>0, <1>a, <2>1, ProgressStays
<1>1. CASE End(f) /\ UNCHANGED Still
  <2>1. CASE g = f
    BY <1>0, <1>1, <2>1, NoFlowType, ProgressIdle DEF End, TypeOK
  <2>2. CASE g # f
    BY <1>1, <1>a, <2>2 DEF End, Still, cooldown, exporter
  <2> QED BY <2>1, <2>2
<1>2. CASE Begin(f)
  <2>1. /\ v.uid \in Dashboards /\ s \in Servers
        /\ since' = [since EXCEPT ![s] = attempt[s]]
        /\ current' = [current EXCEPT ![s] = f]
        /\ flow' = [flow EXCEPT ![f].pc = "status", ![f].baseline = attempt[s]]
        /\ UNCHANGED <<attempt, scraped>>
    BY <1>0, <1>2, ControlsAssumption DEF Begin, exporter, TypeOK
  <2>2. CASE g = f
    <3>1. flow'[f] = [v EXCEPT !.pc = "status", !.baseline = attempt[s]]
      BY <1>0, <2>1 DEF TypeOK
    <3>2. flow'[f].pc = "status" /\ flow'[f].baseline = attempt[s] /\ flow'[f].uid = v.uid
      BY <1>0, <3>1 DEF Flow
    <3>3. since'[s] = attempt[s] /\ attempt[s] \in Nat
      BY <1>0, <2>1 DEF TypeOK
    <3> QED BY <2>1, <2>2, <3>2, <3>3 DEF Progress
  <2>3. CASE g # f
    <3>1. flow'[g] = flow[g]
      BY <1>0, <2>1, <2>3 DEF TypeOK
    <3>2. \A t \in Servers : /\ scraped[t] <= scraped'[t]
                              /\ (current'[t] = g => current[t] = g /\ since'[t] = since[t])
      BY <1>0, <2>1, <2>3 DEF TypeOK
    <3> QED BY <1>0, <3>1, <3>2, ProgressStays
  <2> QED BY <2>2, <2>3
<1>3. CASE StatusBefore(f)
  <2>1. PICK b \in v.baseline..attempt[s] : flow' = [flow EXCEPT ![f].pc = "collect", ![f].baseline = b]
    BY <1>3 DEF StatusBefore
  <2>2. v.pc = "status" /\ UNCHANGED <<scraped, current, since>>
    BY <1>3 DEF StatusBefore, cooldown, exporter
  <2>3. CASE g = f
    <3>1. flow'[f] = [v EXCEPT !.pc = "collect", !.baseline = b]
      BY <1>0, <2>1 DEF TypeOK
    <3>2. flow'[f].pc = "collect" /\ flow'[f].baseline = b /\ flow'[f].uid = v.uid
      BY <1>0, <3>1 DEF Flow
    <3>3. v.uid \in Dashboards /\ s \in Servers /\ (current[s] = f => since[s] <= v.baseline)
      BY <1>0, <2>2 DEF Progress
    <3>4. v.baseline <= b /\ since[s] \in Nat /\ v.baseline \in Nat /\ b \in Int
      BY <1>0, <2>1, <3>3 DEF TypeOK, Flow
    <3>5. current'[s] = f => since'[s] <= b
      BY <2>2, <3>3, <3>4
    <3> QED BY <2>3, <3>2, <3>3, <3>5 DEF Progress
  <2>4. CASE g # f
    <3>1. flow'[g] = flow[g]
      BY <1>0, <2>1, <2>4 DEF TypeOK
    <3> QED BY <1>a, <2>2, <3>1
  <2> QED BY <2>3, <2>4
<1>4. CASE CollectAnswer(f) /\ IsCurrent(f)
  <2>1. v.pc = "collect" /\ flow' = [flow EXCEPT ![f].pc = "attempt"] /\ UNCHANGED <<scraped, current, since>>
    BY <1>4 DEF CollectAnswer, cooldown, exporter
  <2>2. CASE g = f
    <3>1. flow'[f] = [v EXCEPT !.pc = "attempt"]
      BY <1>0, <2>1 DEF TypeOK
    <3>2. flow'[f].pc = "attempt" /\ flow'[f].baseline = v.baseline /\ flow'[f].uid = v.uid
      BY <1>0, <3>1 DEF Flow
    <3>3. v.uid \in Dashboards /\ s \in Servers /\ (current[s] = f => since[s] <= v.baseline)
      BY <1>0, <2>1 DEF Progress
    <3> QED BY <2>1, <2>2, <3>2, <3>3 DEF Progress
  <2>3. CASE g # f
    BY <1>a, <2>1, <2>3
  <2> QED BY <2>2, <2>3
<1>5. CASE AttemptSeen(f)
  <2>1. PICK c \in (v.baseline + 1)..attempt[s] : flow' = [flow EXCEPT ![f].pc = "sample", ![f].completed = c]
    BY <1>5 DEF AttemptSeen
  <2>2. v.pc = "attempt" /\ UNCHANGED <<scraped, current, since>>
    BY <1>5 DEF AttemptSeen, cooldown, exporter
  <2>3. CASE g = f
    <3>1. flow'[f] = [v EXCEPT !.pc = "sample", !.completed = c]
      BY <1>0, <2>1 DEF TypeOK
    <3>2. flow'[f].pc = "sample" /\ flow'[f].baseline = v.baseline /\ flow'[f].uid = v.uid /\ flow'[f].completed = c
      BY <1>0, <3>1 DEF Flow
    <3>3. v.uid \in Dashboards /\ s \in Servers /\ (current[s] = f => since[s] <= v.baseline)
      BY <1>0, <2>2 DEF Progress
    <3>4. v.baseline < c
      BY <1>0, <2>1 DEF Flow
    <3> QED BY <2>2, <2>3, <3>2, <3>3, <3>4 DEF Progress
  <2>4. CASE g # f
    <3>1. flow'[g] = flow[g]
      BY <1>0, <2>1, <2>4 DEF TypeOK
    <3> QED BY <1>a, <2>2, <3>1
  <2> QED BY <2>3, <2>4
<1>6. CASE SampleSeen(f)
  <2>1. /\ v.pc = "sample" /\ flow' = [flow EXCEPT ![f].pc = "cooldown"] /\ UNCHANGED <<scraped, current, since>>
        /\ scraped[s] >= v.completed
    BY <1>6 DEF SampleSeen, cooldown, exporter
  <2>2. CASE g = f
    <3>1. flow'[f] = [v EXCEPT !.pc = "cooldown"]
      BY <1>0, <2>1 DEF TypeOK
    <3>2. /\ flow'[f].pc = "cooldown" /\ flow'[f].baseline = v.baseline /\ flow'[f].uid = v.uid
          /\ flow'[f].completed = v.completed
      BY <1>0, <3>1 DEF Flow
    <3>3. /\ v.uid \in Dashboards /\ s \in Servers /\ (current[s] = f => since[s] <= v.baseline)
          /\ v.baseline < v.completed
      BY <1>0, <2>1 DEF Progress
    <3>4. v.completed <= scraped[s]
      BY <1>0, <2>1, <3>3 DEF TypeOK, Flow
    <3> QED BY <2>1, <2>2, <3>2, <3>3, <3>4 DEF Progress
  <2>3. CASE g # f
    BY <1>a, <2>1, <2>3
  <2> QED BY <2>2, <2>3
<1>7. CASE AutoRefresh(f)
  <2>1. flow' = [flow EXCEPT ![f] = NoFlow] /\ UNCHANGED <<scraped, current, since>>
    BY <1>7 DEF AutoRefresh, HandleDocumentClick, cooldown, exporter
  <2>2. CASE g = f
    BY <1>0, <2>1, <2>2, NoFlowType, ProgressIdle DEF TypeOK
  <2>3. CASE g # f
    BY <1>a, <2>1, <2>3
  <2> QED BY <2>2, <2>3
<1>8. CASE Abandon(f) \/ CollectFails(f) \/ WaitEnds(f) \/ (CollectAnswer(f) /\ ~IsCurrent(f))
  BY <1>1, <1>8 DEF Abandon, CollectFails, WaitEnds, CollectAnswer, Still
<1> QED BY <1>2, <1>3, <1>4, <1>5, <1>6, <1>7, <1>8 DEF Step

LEMMA ControlsInvInit == Init => ControlsInv
<1> SUFFICES ASSUME Init PROVE ControlsInv
  OBVIOUS
<1>1. SamplesFollowAttempts
  BY DEF Init, SamplesFollowAttempts
<1>2. \A f \in Flows : flow[f].pc = "idle"
  BY NoFlowType DEF Init
<1> QED BY <1>1, <1>2, TypeInit DEF ControlsInv, Progress

LEMMA TypeStep ==
    ASSUME ControlsInv, [Next]_vars
    PROVE  TypeOK'
<1>0. TypeOK /\ FlowsHaveServers
  BY ProgressHasServers DEF ControlsInv
<1>1. CASE \E f \in Flows : Step(f)
  BY <1>0, <1>1, TypeFlow
<1>2. CASE UNCHANGED vars
  BY <1>0, <1>2 DEF vars, TypeOK, location, context, cooldown, exporter
<1> QED BY <1>0, <1>1, <1>2, TypeControlState, TypeSurroundings DEF Next

\* No step but Collect and Scrape touches the exporter.
LEMMA SamplesStep ==
    ASSUME ControlsInv, [Next]_vars
    PROVE  SamplesFollowAttempts' /\ \A s \in Servers : scraped[s] <= scraped'[s]
<1>0. SamplesFollowAttempts /\ \A s \in Servers : attempt[s] \in Nat /\ scraped[s] \in Nat
  BY DEF ControlsInv, TypeOK
<1>1. CASE UNCHANGED exporter
  BY <1>0, <1>1 DEF exporter, SamplesFollowAttempts
<1>2. ASSUME NEW s \in Servers, Collect(s)
      PROVE  SamplesFollowAttempts' /\ UNCHANGED scraped
  BY <1>0, <1>2 DEF Collect, SamplesFollowAttempts, ControlsInv, TypeOK
<1>3. ASSUME NEW s \in Servers, Scrape(s)
      PROVE  \A t \in Servers : scraped[t] <= scraped'[t] /\ scraped'[t] <= attempt'[t]
  BY <1>0, <1>3 DEF Scrape, SamplesFollowAttempts, ControlsInv, TypeOK
<1>4. ASSUME NEW f \in Flows, Step(f)
      PROVE  UNCHANGED exporter
  BY <1>4 DEF Step, Abandon, Begin, StatusBefore, CollectAnswer, CollectFails, WaitEnds,
              AttemptSeen, SampleSeen, AutoRefresh
<1>5. CASE \/ Install \/ Tick \/ Click \/ Reload \/ Network
           \/ \E uid \in Dashboards : ShowControlState(uid)
           \/ \E s \in Servers : Elapse(s)
           \/ \E to \in Location : Navigate(to)
  BY <1>1, <1>5 DEF Install, Tick, Click, Reload, Network, ContextAnswer, ContextFails,
                    ShowControlState, Elapse, Navigate
<1>6. CASE UNCHANGED vars
  BY <1>1, <1>6 DEF vars
<1> QED BY <1>0, <1>1, <1>2, <1>3, <1>4, <1>5, <1>6 DEF Next, SamplesFollowAttempts

LEMMA ControlsInvStep ==
    ASSUME ControlsInv, [Next]_vars
    PROVE  ControlsInv'
<1>1. TypeOK' /\ SamplesFollowAttempts' /\ \A s \in Servers : scraped[s] <= scraped'[s]
  BY TypeStep, SamplesStep
<1> SUFFICES ASSUME NEW g \in Flows PROVE Progress(g)'
  BY <1>1 DEF ControlsInv
<1>2. TypeOK /\ Progress(g)
  BY DEF ControlsInv
<1>3. ASSUME flow'[g] = flow[g], UNCHANGED <<current, since>>
      PROVE  Progress(g)'
  BY <1>1, <1>2, <1>3, ProgressStays
<1>4. CASE \E f \in Flows : Step(f)
  BY <1>1, <1>4, ProgressFlow
<1>5. CASE UNCHANGED <<flow, current, since>>
  BY <1>3, <1>5
<1>6. ASSUME NEW uid \in Dashboards, ContextFails(uid)
      PROVE  Progress(g)'
  <2>1. flow'[g] \in {NoFlow, flow[g]} /\ UNCHANGED <<current, since>>
    BY <1>6 DEF ContextFails, cooldown
  <2> QED BY <1>3, <2>1, NoFlowType, ProgressIdle
<1>7. CASE Click
  <2>1. UNCHANGED <<current, since>>
    BY <1>7 DEF Click, cooldown
  <2>2. \/ flow' = flow
        \/ flow' = [flow EXCEPT ![FreeFlow] = [NoFlow EXCEPT !.pc = "context", !.uid = loc.dash]]
    BY <1>7 DEF Click, HandleDocumentClick
  <2>3. [NoFlow EXCEPT !.pc = "context", !.uid = loc.dash].pc = "context"
    BY DEF NoFlow
  <2>4. flow'[g] = flow[g] \/ flow'[g].pc = "context"
    BY <1>2, <2>2, <2>3 DEF TypeOK
  <2> QED BY <1>3, <2>1, <2>4, ProgressIdle
<1>8. CASE Reload
  BY <1>8, NoFlowType, ProgressIdle DEF Reload
<1>9. CASE \/ Install \/ Tick
           \/ \E uid \in Dashboards : ContextAnswer(uid) \/ ShowControlState(uid)
           \/ \E s \in Servers : Elapse(s) \/ Collect(s) \/ Scrape(s)
           \/ \E to \in Location : Navigate(to)
  BY <1>5, <1>9 DEF Install, Tick, ContextAnswer, ShowControlState, Elapse, Collect, Scrape,
                    Navigate, cooldown
<1>10. CASE UNCHANGED vars
  BY <1>5, <1>10 DEF vars, cooldown
<1> QED BY <1>4, <1>6, <1>7, <1>8, <1>9, <1>10 DEF Next, Network

\* Every variable of the controls keeps its type, nobody awaits a context that is
\* neither cached nor asked for, and no flow gets past its context without a server.
THEOREM ControlsTypeCorrect == Spec => [](TypeOK /\ FlowsHaveServers)
<1>1. ControlsInv => TypeOK /\ FlowsHaveServers
  BY ProgressHasServers DEF ControlsInv
<1> QED BY <1>1, ControlsInvInit, ControlsInvStep, PTL DEF Spec

\* What a step that counts an automatic refresh has seen.
LEMMA FreshStep ==
    ASSUME ControlsInv, [Next]_vars, NEW s \in Servers, autos'[s] # autos[s]
    PROVE  loc.dash # None /\ ServerOf[loc.dash] = s /\ scraped[s] > since[s]
<1>0. TypeOK
  BY DEF ControlsInv
<1>1. PICK f \in Flows : AutoRefresh(f)
  BY DEF Next, vars, Step, Install, Tick, Click, Reload, Network, ContextAnswer, ContextFails,
         ShowControlState, Elapse, Collect, Scrape, Navigate, Abandon, Begin, StatusBefore,
         CollectAnswer, CollectFails, WaitEnds, AttemptSeen, SampleSeen
<1> DEFINE v == flow[f]
           t == ServerOf[v.uid]
<1>2. v.pc = "cooldown" /\ IsCurrent(f) /\ autos' = [autos EXCEPT ![t] = @ + 1]
  BY <1>1 DEF AutoRefresh
<1>3. t = s
  BY <1>0, <1>2 DEF TypeOK
<1>4. v.uid = loc.dash /\ v.uid # None /\ current[t] = f
  BY <1>2 DEF IsCurrent
<1>5. since[t] <= v.baseline /\ v.baseline < v.completed /\ v.completed <= scraped[t]
  BY <1>2, <1>4 DEF ControlsInv, Progress
<1>6. since[t] \in Nat /\ v.baseline \in Nat /\ v.completed \in Nat /\ scraped[t] \in Nat
  BY <1>0, <1>3 DEF TypeOK, Flow
<1> HIDE DEF v, t
<1> QED BY <1>3, <1>4, <1>5, <1>6 DEF t

\* triggerCollection: an automatic refresh happens on a page of its server and
\* shows a collection that ended after the last request that was granted.
THEOREM FreshRefresh == Spec => AutoRefreshIsFresh
<1>1. ControlsInv /\ [Next]_vars =>
         [\A s \in Servers : autos'[s] # autos[s] =>
             /\ loc.dash # None /\ ServerOf[loc.dash] = s
             /\ scraped[s] > since[s]]_vars
  BY FreshStep
<1> QED BY <1>1, ControlsInvInit, ControlsInvStep, PTL DEF Spec, AutoRefreshIsFresh

-----------------------------------------------------------------------------
(* The cooldown implements RateLimit *)

\* A deadline that is ahead is one the button looks at: that of sessionStorage
\* where it can be used, else that in memory.
DeadlinesAreKnown ==
    /\ storage => cooling \subseteq stored
    /\ ~storage => cooling \subseteq memory

LEMMA CoolingIsSeen ==
    ASSUME TypeOK, DeadlinesAreKnown, NEW s \in cooling PROVE CoolingDown(s)
BY DEF TypeOK, DeadlinesAreKnown, CoolingDown

LEMMA DeadlinesStep ==
    ASSUME TypeOK, DeadlinesAreKnown, [Next]_vars
    PROVE  DeadlinesAreKnown' /\ [Limiter!RateLimitNext]_<<granted, cooling>>
<1>1. CASE UNCHANGED cooldown
  BY <1>1 DEF cooldown, DeadlinesAreKnown
<1>2. ASSUME NEW f \in Flows, Begin(f)
      PROVE  DeadlinesAreKnown' /\ Limiter!RateLimitNext
  <2> DEFINE s == ServerOf[flow[f].uid]
  <2>1. /\ s \in Servers /\ ~CoolingDown(s)
        /\ memory' = memory \cup {s} /\ stored' = IF storage THEN stored \cup {s} ELSE stored
        /\ cooling' = cooling \cup {s} /\ granted' = [granted EXCEPT ![s] = @ + 1]
        /\ UNCHANGED storage
    BY <1>2, ControlsAssumption DEF Begin, TypeOK
  <2>2. s \notin cooling
    BY <2>1, CoolingIsSeen
  <2> HIDE DEF s
  <2>3. DeadlinesAreKnown'
    BY <2>1 DEF DeadlinesAreKnown
  <2>4. Limiter!Grant(s)
    BY <2>1, <2>2 DEF Limiter!Grant
  <2> QED BY <2>1, <2>3, <2>4 DEF Limiter!RateLimitNext
<1>3. ASSUME NEW s \in Servers, Elapse(s)
      PROVE  DeadlinesAreKnown' /\ Limiter!RateLimitNext
  BY <1>3 DEF Elapse, DeadlinesAreKnown, Limiter!RateLimitNext, Limiter!CooldownsOver
<1>4. CASE Reload
  BY <1>4 DEF Reload, DeadlinesAreKnown, Limiter!RateLimitNext, Limiter!CooldownsOver
<1>5. ASSUME NEW f \in Flows, Step(f), ~Begin(f)
      PROVE  UNCHANGED cooldown
  BY <1>5 DEF Step, Abandon, StatusBefore, CollectAnswer, CollectFails, WaitEnds,
              AttemptSeen, SampleSeen, AutoRefresh
<1>6. CASE \/ Install \/ Tick \/ Click \/ Network
           \/ \E uid \in Dashboards : ShowControlState(uid)
           \/ \E s \in Servers : Collect(s) \/ Scrape(s)
           \/ \E to \in Location : Navigate(to)
  BY <1>1, <1>6 DEF Install, Tick, Click, Network, ContextAnswer, ContextFails,
                    ShowControlState, Collect, Scrape, Navigate
<1>7. CASE UNCHANGED vars
  BY <1>1, <1>7 DEF vars
<1> QED BY <1>1, <1>2, <1>3, <1>4, <1>5, <1>6, <1>7 DEF Next

\* The Refresh button implements RateLimit, for any number of clicks that wait for
\* their context, dashboards of one server, and reloads.
THEOREM RateLimited == Spec => OneCollectionPerCooldown
<1>1. Init => DeadlinesAreKnown /\ Limiter!RateLimitInit
  BY DEF Init, DeadlinesAreKnown, Limiter!RateLimitInit
<1>2. ControlsInv => TypeOK
  BY DEF ControlsInv
<1> QED BY <1>1, <1>2, ControlsInvInit, ControlsInvStep, DeadlinesStep, PTL
        DEF Spec, OneCollectionPerCooldown, Limiter!RateLimitSpec

-----------------------------------------------------------------------------
(* Requests come from clicks *)

Waiting(fl) == {f \in Flows : fl[f].pc = "context"}

\* Flows that a granted request of s started and that are still under way.
Under(fl, s) == {f \in Flows : fl[f].pc \notin {"idle", "context"} /\ ServerOf[fl[f].uid] = s}

\* Clicks that were neither swallowed nor abandoned wait, or were granted; granted
\* requests are under way, or refreshed the queries, or ended.
ClicksAreSpent ==
    /\ IsFiniteSet(Waiting(flow))
    /\ \A s \in Servers : /\ IsFiniteSet(Under(flow, s))
                          /\ granted[s] + Cardinality(Waiting(flow)) <= clicks
                          /\ autos[s] + Cardinality(Under(flow, s)) <= granted[s]
    /\ Cardinality(Waiting(flow)) <= clicks

LEMMA OneMore ==
    ASSUME NEW A, NEW B, NEW x, IsFiniteSet(A), B \subseteq A \cup {x}
    PROVE  IsFiniteSet(B) /\ Cardinality(B) \in Nat /\ Cardinality(A) \in Nat
           /\ Cardinality(B) <= Cardinality(A) + 1
<1>1. Cardinality(A) \in Nat /\ IsFiniteSet(A \cup {x})
  BY FS_AddElement, FS_CardinalityType
<1>2. Cardinality(A \cup {x}) <= Cardinality(A) + 1
  <2>1. CASE x \in A
    <3>1. A \cup {x} = A
      BY <2>1
    <3>2. Cardinality(A \cup {x}) = Cardinality(A)
      BY <3>1, Zenon
    <3> QED BY <1>1, <3>2
  <2>2. CASE x \notin A
    <3>1. Cardinality(A \cup {x}) = Cardinality(A) + 1
      BY <2>2, FS_AddElement
    <3> QED BY <1>1, <3>1
  <2> QED BY <2>1, <2>2
<1>3. IsFiniteSet(B) /\ Cardinality(B) <= Cardinality(A \cup {x})
  BY <1>1, FS_Subset
<1>4. Cardinality(B) \in Nat /\ Cardinality(A \cup {x}) \in Nat
  BY <1>1, <1>3, FS_CardinalityType
<1> QED BY <1>1, <1>2, <1>3, <1>4

LEMMA NoMore ==
    ASSUME NEW A, NEW B, IsFiniteSet(A), B \subseteq A
    PROVE  IsFiniteSet(B) /\ Cardinality(B) \in Nat /\ Cardinality(A) \in Nat
           /\ Cardinality(B) <= Cardinality(A)
BY FS_Subset, FS_CardinalityType

LEMMA OneLess ==
    ASSUME NEW A, NEW B, NEW x \in A, IsFiniteSet(A), B \subseteq A \ {x}
    PROVE  IsFiniteSet(B) /\ Cardinality(B) \in Nat /\ Cardinality(A) \in Nat
           /\ Cardinality(B) + 1 <= Cardinality(A)
<1>1. IsFiniteSet(A \ {x}) /\ Cardinality(A \ {x}) = Cardinality(A) - 1
  BY FS_RemoveElement
<1> QED BY <1>1, FS_Subset, FS_CardinalityType

LEMMA SpentFlows ==
    ASSUME TypeOK, ClicksAreSpent, UNCHANGED <<clicks, granted, autos>>,
           Waiting(flow') \subseteq Waiting(flow),
           \A s \in Servers : Under(flow', s) \subseteq Under(flow, s)
    PROVE  ClicksAreSpent'
<1>1. IsFiniteSet(Waiting(flow')) /\ Cardinality(Waiting(flow')) <= Cardinality(Waiting(flow))
      /\ Cardinality(Waiting(flow')) \in Nat /\ Cardinality(Waiting(flow)) \in Nat
  BY NoMore DEF ClicksAreSpent
<1>2. ASSUME NEW s \in Servers
      PROVE  IsFiniteSet(Under(flow', s)) /\ Cardinality(Under(flow', s)) <= Cardinality(Under(flow, s))
             /\ Cardinality(Under(flow', s)) \in Nat /\ Cardinality(Under(flow, s)) \in Nat
  BY NoMore DEF ClicksAreSpent
<1>3. clicks \in Nat /\ \A s \in Servers : granted[s] \in Nat /\ autos[s] \in Nat
  BY ControlsAssumption DEF TypeOK
<1> QED BY <1>1, <1>2, <1>3 DEF ClicksAreSpent

LEMMA ClickSpends ==
    ASSUME TypeOK, ClicksAreSpent, Click
    PROVE  ClicksAreSpent'
<1> DEFINE new == [NoFlow EXCEPT !.pc = "context", !.uid = loc.dash]
<1>1. /\ clicks' = clicks + 1 /\ UNCHANGED <<granted, autos>>
      /\ flow' = flow \/ flow' = [flow EXCEPT ![FreeFlow] = new]
  BY DEF Click, HandleDocumentClick, cooldown
<1>2. new.pc = "context"
  BY DEF NoFlow
<1> HIDE DEF new
<1>3. \A g \in Flows : flow'[g] = flow[g] \/ (g = FreeFlow /\ flow'[g].pc = "context")
  BY <1>1, <1>2 DEF TypeOK
<1>4. Waiting(flow') \subseteq Waiting(flow) \cup {FreeFlow}
  BY <1>3 DEF Waiting
<1>5. ASSUME NEW s \in Servers
      PROVE  Under(flow', s) \subseteq Under(flow, s)
  BY <1>3 DEF Under
<1>6. /\ IsFiniteSet(Waiting(flow')) /\ Cardinality(Waiting(flow')) \in Nat
      /\ Cardinality(Waiting(flow)) \in Nat
      /\ Cardinality(Waiting(flow')) <= Cardinality(Waiting(flow)) + 1
  BY <1>4, OneMore DEF ClicksAreSpent
<1>7. ASSUME NEW s \in Servers
      PROVE  IsFiniteSet(Under(flow', s)) /\ Cardinality(Under(flow', s)) <= Cardinality(Under(flow, s))
             /\ Cardinality(Under(flow', s)) \in Nat /\ Cardinality(Under(flow, s)) \in Nat
  BY <1>5, NoMore DEF ClicksAreSpent
<1>8. clicks \in Nat /\ \A s \in Servers : granted[s] \in Nat /\ autos[s] \in Nat
  BY ControlsAssumption DEF TypeOK
<1> QED BY <1>1, <1>6, <1>7, <1>8 DEF ClicksAreSpent

LEMMA BeginSpends ==
    ASSUME TypeOK, ClicksAreSpent, NEW f \in Flows, Begin(f)
    PROVE  ClicksAreSpent'
<1> DEFINE s == ServerOf[flow[f].uid]
<1>1. /\ s \in Servers /\ flow[f].pc = "context"
      /\ granted' = [granted EXCEPT ![s] = @ + 1]
      /\ flow' = [flow EXCEPT ![f].pc = "status", ![f].baseline = attempt[s]]
      /\ UNCHANGED <<clicks, autos>>
  BY ControlsAssumption DEF Begin, TypeOK
<1>2. \A g \in Flows : g # f => flow'[g] = flow[g]
  BY <1>1 DEF TypeOK
<1>3. flow'[f].pc = "status" /\ flow'[f].uid = flow[f].uid
  <2>1. flow'[f] = [flow[f] EXCEPT !.pc = "status", !.baseline = attempt[s]]
    BY <1>1 DEF TypeOK
  <2> QED BY <2>1 DEF TypeOK, Flow
<1>4. f \in Waiting(flow) /\ Waiting(flow') \subseteq Waiting(flow) \ {f}
  BY <1>1, <1>2, <1>3 DEF Waiting
<1>5. ASSUME NEW t \in Servers, t # s
      PROVE  Under(flow', t) \subseteq Under(flow, t)
  BY <1>2, <1>3, <1>5 DEF Under
<1>6. Under(flow', s) \subseteq Under(flow, s) \cup {f}
  BY <1>2 DEF Under
<1> HIDE DEF s
<1>7. /\ IsFiniteSet(Waiting(flow')) /\ Cardinality(Waiting(flow')) \in Nat
      /\ Cardinality(Waiting(flow)) \in Nat
      /\ Cardinality(Waiting(flow')) + 1 <= Cardinality(Waiting(flow))
  BY <1>4, OneLess DEF ClicksAreSpent
<1>8. ASSUME NEW t \in Servers
      PROVE  /\ IsFiniteSet(Under(flow', t))
             /\ Cardinality(Under(flow', t)) \in Nat /\ Cardinality(Under(flow, t)) \in Nat
             /\ Cardinality(Under(flow', t)) <= Cardinality(Under(flow, t)) + (IF t = s THEN 1 ELSE 0)
  <2>1. CASE t = s
    BY <1>6, <2>1, OneMore DEF ClicksAreSpent
  <2>2. CASE t # s
    BY <1>5, <2>2, NoMore DEF ClicksAreSpent
  <2> QED BY <2>1, <2>2
<1>9. clicks \in Nat /\ \A t \in Servers : granted[t] \in Nat /\ autos[t] \in Nat
  BY ControlsAssumption DEF TypeOK
<1>10. \A t \in Servers : granted'[t] = granted[t] + (IF t = s THEN 1 ELSE 0)
  BY <1>1, <1>9 DEF TypeOK
<1>11. /\ Cardinality(Waiting(flow)) <= clicks
       /\ \A t \in Servers : /\ granted[t] + Cardinality(Waiting(flow)) <= clicks
                             /\ autos[t] + Cardinality(Under(flow, t)) <= granted[t]
  BY DEF ClicksAreSpent
<1>12. Cardinality(Waiting(flow')) <= clicks
  BY <1>7, <1>9, <1>11
<1>13. ASSUME NEW t \in Servers
       PROVE  /\ granted'[t] + Cardinality(Waiting(flow')) <= clicks
              /\ autos[t] + Cardinality(Under(flow', t)) <= granted'[t]
  BY <1>7, <1>8, <1>9, <1>10, <1>11
<1>14. clicks' = clicks /\ autos' = autos
  BY <1>1
<1> QED BY <1>7, <1>8, <1>12, <1>13, <1>14 DEF ClicksAreSpent

LEMMA AutoSpends ==
    ASSUME TypeOK, FlowsHaveServers, ClicksAreSpent, NEW f \in Flows, AutoRefresh(f)
    PROVE  ClicksAreSpent'
<1> DEFINE s == ServerOf[flow[f].uid]
<1>1. /\ flow[f].pc = "cooldown" /\ UNCHANGED <<clicks, granted>>
      /\ flow' = [flow EXCEPT ![f] = NoFlow]
      /\ autos' = autos \/ autos' = [autos EXCEPT ![s] = @ + 1]
  BY DEF AutoRefresh, HandleDocumentClick, cooldown
<1>2. \A g \in Flows : flow'[g] = IF g = f THEN NoFlow ELSE flow[g]
  BY <1>1 DEF TypeOK
<1>3. s \in Servers
  BY <1>1 DEF FlowsHaveServers, HasServer
<1>4. Waiting(flow') \subseteq Waiting(flow)
  BY <1>2, NoFlowType DEF Waiting
<1>5. \A t \in Servers : Under(flow', t) \subseteq Under(flow, t)
  BY <1>2, NoFlowType DEF Under
<1>6. f \in Under(flow, s) /\ Under(flow', s) \subseteq Under(flow, s) \ {f}
  BY <1>1, <1>2, NoFlowType DEF Under
<1>7. CASE autos' = autos
  BY <1>1, <1>4, <1>5, <1>7, SpentFlows
<1>8. CASE autos' = [autos EXCEPT ![s] = @ + 1]
  <2> HIDE DEF s
  <2>1. /\ IsFiniteSet(Waiting(flow')) /\ Cardinality(Waiting(flow')) \in Nat
        /\ Cardinality(Waiting(flow)) \in Nat
        /\ Cardinality(Waiting(flow')) <= Cardinality(Waiting(flow))
    BY <1>4, NoMore DEF ClicksAreSpent
  <2>2. ASSUME NEW t \in Servers
        PROVE  /\ IsFiniteSet(Under(flow', t))
               /\ Cardinality(Under(flow', t)) \in Nat /\ Cardinality(Under(flow, t)) \in Nat
               /\ Cardinality(Under(flow', t)) + (IF t = s THEN 1 ELSE 0) <= Cardinality(Under(flow, t))
    <3>1. CASE t = s
      BY <1>6, <3>1, OneLess DEF ClicksAreSpent
    <3>2. CASE t # s
      BY <1>5, <3>2, NoMore DEF ClicksAreSpent
    <3> QED BY <3>1, <3>2
  <2>3. clicks \in Nat /\ \A t \in Servers : granted[t] \in Nat /\ autos[t] \in Nat
    BY ControlsAssumption DEF TypeOK
  <2>4. \A t \in Servers : autos'[t] = autos[t] + (IF t = s THEN 1 ELSE 0)
    BY <1>8, <2>3 DEF TypeOK
  <2>5. /\ Cardinality(Waiting(flow)) <= clicks
        /\ \A t \in Servers : /\ granted[t] + Cardinality(Waiting(flow)) <= clicks
                              /\ autos[t] + Cardinality(Under(flow, t)) <= granted[t]
    BY DEF ClicksAreSpent
  <2>6. Cardinality(Waiting(flow')) <= clicks
    BY <2>1, <2>3, <2>5
  <2>7. ASSUME NEW t \in Servers
        PROVE  /\ granted[t] + Cardinality(Waiting(flow')) <= clicks
               /\ autos'[t] + Cardinality(Under(flow', t)) <= granted[t]
    BY <2>1, <2>2, <2>3, <2>4, <2>5
  <2>8. clicks' = clicks /\ granted' = granted
    BY <1>1
  <2> QED BY <2>1, <2>2, <2>6, <2>7, <2>8 DEF ClicksAreSpent
<1> QED BY <1>1, <1>7, <1>8

LEMMA ClicksStep ==
    ASSUME ControlsInv, ClicksAreSpent, [Next]_vars
    PROVE  ClicksAreSpent'
<1>0. TypeOK /\ FlowsHaveServers
  BY ProgressHasServers DEF ControlsInv
<1>1. CASE UNCHANGED <<flow, clicks, granted, autos>>
  BY <1>1 DEF ClicksAreSpent
<1>2. ASSUME UNCHANGED <<clicks, granted, autos>>, \A f \in Flows : flow'[f] \in {NoFlow, flow[f]}
      PROVE  ClicksAreSpent'
  <2>1. Waiting(flow') \subseteq Waiting(flow)
    BY <1>2, NoFlowType DEF Waiting
  <2>2. \A s \in Servers : Under(flow', s) \subseteq Under(flow, s)
    BY <1>2, NoFlowType DEF Under
  <2> QED BY <1>0, <1>2, <2>1, <2>2, SpentFlows
<1>3. ASSUME NEW uid \in Dashboards, ContextFails(uid)
      PROVE  ClicksAreSpent'
  <2>1. \A f \in Flows : flow'[f] \in {NoFlow, flow[f]}
    BY <1>3 DEF ContextFails
  <2> QED BY <1>2, <1>3, <2>1 DEF ContextFails, cooldown
<1>4. CASE Reload
  <2>1. \A f \in Flows : flow'[f] \in {NoFlow, flow[f]}
    BY <1>4 DEF Reload
  <2> QED BY <1>2, <1>4, <2>1 DEF Reload
<1>5. CASE \/ Install \/ Tick
           \/ \E uid \in Dashboards : ContextAnswer(uid) \/ ShowControlState(uid)
           \/ \E s \in Servers : Elapse(s) \/ Collect(s) \/ Scrape(s)
           \/ \E to \in Location : Navigate(to)
  BY <1>1, <1>5 DEF Install, Tick, ContextAnswer, ShowControlState, Elapse, Collect, Scrape,
                    Navigate, cooldown
<1>6. CASE UNCHANGED vars
  BY <1>1, <1>6 DEF vars, cooldown
<1>7. ASSUME NEW f \in Flows, Step(f), ~Begin(f), ~AutoRefresh(f)
      PROVE  ClicksAreSpent'
  <2>0. flow[f] \in Flow
    BY <1>0 DEF TypeOK
  <2>1. UNCHANGED <<clicks, granted, autos>>
    BY <1>7 DEF Step, Abandon, StatusBefore, CollectAnswer, CollectFails, WaitEnds,
                AttemptSeen, SampleSeen, cooldown
  <2>2. CASE End(f)
    BY <1>0, <1>2, <2>1, <2>2 DEF End, TypeOK
  <2>3. CASE ~End(f)
    <3>1. /\ flow[f].pc \notin {"idle", "context"}
          /\ \/ \E b : flow' = [flow EXCEPT ![f].pc = "collect", ![f].baseline = b]
             \/ flow' = [flow EXCEPT ![f].pc = "attempt"]
             \/ \E c : flow' = [flow EXCEPT ![f].pc = "sample", ![f].completed = c]
             \/ flow' = [flow EXCEPT ![f].pc = "cooldown"]
      BY <1>7, <2>3 DEF Step, Abandon, StatusBefore, CollectAnswer, CollectFails, WaitEnds,
                        AttemptSeen, SampleSeen
    <3>2. \A g \in Flows : g # f => flow'[g] = flow[g]
      BY <1>0, <3>1 DEF TypeOK
    <3>3. flow'[f].pc \notin {"idle", "context"} /\ flow'[f].uid = flow[f].uid
      BY <1>0, <2>0, <3>1 DEF TypeOK, Flow
    <3>4. Waiting(flow') \subseteq Waiting(flow)
      BY <3>2, <3>3 DEF Waiting
    <3>5. \A s \in Servers : Under(flow', s) \subseteq Under(flow, s)
      BY <3>1, <3>2, <3>3 DEF Under
    <3> QED BY <1>0, <2>1, <3>4, <3>5, SpentFlows
  <2> QED BY <2>2, <2>3
<1> QED BY <1>0, <1>3, <1>4, <1>5, <1>6, <1>7, ClickSpends, BeginSpends, AutoSpends DEF Next, Network

LEMMA ClicksInit == Init => ClicksAreSpent
<1> SUFFICES ASSUME Init PROVE ClicksAreSpent
  OBVIOUS
<1>1. \A f \in Flows : flow[f].pc = "idle"
  BY NoFlowType DEF Init
<1>2. Waiting(flow) = {} /\ \A s \in Servers : Under(flow, s) = {}
  BY <1>1 DEF Waiting, Under
<1>3. IsFiniteSet({}) /\ Cardinality({}) = 0
  BY FS_EmptySet
<1>4. /\ IsFiniteSet(Waiting(flow)) /\ Cardinality(Waiting(flow)) = 0
      /\ \A s \in Servers : IsFiniteSet(Under(flow, s)) /\ Cardinality(Under(flow, s)) = 0
  BY <1>2, <1>3, Zenon
<1>5. clicks = 0 /\ \A s \in Servers : granted[s] = 0 /\ autos[s] = 0
  BY DEF Init
<1> QED BY <1>4, <1>5 DEF ClicksAreSpent

\* The flows of a granted request, counted, are what the property needs.
LEMMA ClicksSuffice ==
    ASSUME TypeOK, ClicksAreSpent PROVE RequestsComeFromClicks
<1>1. Cardinality(Waiting(flow)) <= clicks
  BY DEF ClicksAreSpent
<1>2. ASSUME NEW s \in Servers
      PROVE  granted[s] <= clicks /\ autos[s] <= granted[s]
  <2>1. Cardinality(Waiting(flow)) \in Nat /\ Cardinality(Under(flow, s)) \in Nat
    BY FS_CardinalityType DEF ClicksAreSpent
  <2>2. granted[s] \in Nat /\ autos[s] \in Nat /\ clicks \in Nat
    BY ControlsAssumption DEF TypeOK
  <2> QED BY <2>1, <2>2 DEF ClicksAreSpent
<1> QED BY <1>1, <1>2 DEF RequestsComeFromClicks, Waiting

\* triggerCollection refreshes the queries by itself at most once for a collection a
\* user asked for, with the data of that collection or a later one, on a page of its
\* server, and never takes its own click for the user's.
THEOREM AutomaticRefreshIsRight == Spec => AutomaticRefresh
<1>1. ControlsInv /\ ClicksAreSpent => RequestsComeFromClicks
  BY ClicksSuffice DEF ControlsInv
<1>2. Spec => []RequestsComeFromClicks
  BY <1>1, ControlsInvInit, ControlsInvStep, ClicksInit, ClicksStep, PTL DEF Spec
<1> QED BY <1>2, FreshRefresh, PTL DEF AutomaticRefresh
=============================================================================
