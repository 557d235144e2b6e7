------------------------------ MODULE Overview ------------------------------
(***************************************************************************)
(* The overview page of the Grafana plug-in (src/overview-page.js): which  *)
(* server it belongs to, which snapshot of Prometheus it shows, and the    *)
(* collection that its own button requests.                                *)
(*                                                                         *)
(* The page stays mounted when the user selects another dashboard: only    *)
(* dashboard_uid in the URL changes.  The request for the context of the   *)
(* dashboard left behind is cancelled by the cleanup of its effect;        *)
(* snapshots on their way, their repetitions and a manual collection       *)
(* belong to the server of the rendering that started them and go on.      *)
(***************************************************************************)
EXTENDS Integers, FiniteSets

CONSTANTS Pages,       \* values of dashboard_uid
          Servers,
          ServerOf,    \* the server of a dashboard, None without one
          None,
          Retries,     \* the number of prometheusSnapshotRetryDelaysMs
          Loads,       \* bound: loadSnapshot calls at a time
          MaxSwitches  \* bound: selections of another dashboard

OverviewAssumption ==
    /\ ServerOf \in [Pages -> Servers \cup {None}]
    /\ None \notin Pages /\ None \notin Servers
    /\ Retries \in Nat /\ MaxSwitches \in Nat

VARIABLES mounted,
          url,       \* dashboard_uid of the URL, None without one
          requests,  \* requests for a context; active until their effect is cleaned up
          context,   \* context.uid and context.server
          loads,     \* the calls of loadSnapshot
          collect,   \* progress of collectNow, busy unless idle
          shown,     \* the server whose snapshot is on the page
          error,     \* what the error line is about
          switches

vars == <<mounted, url, requests, context, loads, collect, shown, error, switches>>

NoLoad == [server |-> None, attempt |-> 0, manual |-> FALSE]

NoCollect == [pc |-> "idle", server |-> None]

TypeOK ==
    /\ mounted \in BOOLEAN
    /\ url \in Pages \cup {None}
    /\ requests \subseteq [uid : Pages, active : BOOLEAN]
    /\ context \in [uid : Pages \cup {None}, server : Servers \cup {None}]
    /\ loads \in [Loads -> [server : Servers \cup {None}, attempt : 0..Retries, manual : BOOLEAN]]
    /\ collect \in [pc : {"idle", "status", "collect", "attempt", "sample", "snapshot"},
                    server : Servers \cup {None}]
    /\ shown \in Servers \cup {None}
    /\ error \in {"", "uid", "context", "snapshot", "collect"}
    /\ switches \in 0..MaxSwitches

Init ==
    /\ mounted = FALSE /\ url = None /\ requests = {}
    /\ context = [uid |-> None, server |-> None]
    /\ loads = [l \in Loads |-> NoLoad] /\ collect = NoCollect
    /\ shown = None /\ error = "" /\ switches = 0

-----------------------------------------------------------------------------
(* Context *)

Idle == {l \in Loads : loads[l].server = None}

\* loadSnapshot of a rendering with this server, which may have none.
LoadSnapshot(server, manual) ==
    IF server = None
    THEN UNCHANGED loads
    ELSE /\ Idle # {}
         /\ loads' = [loads EXCEPT ![CHOOSE l \in Idle : TRUE] =
                         [server |-> server, attempt |-> 0, manual |-> manual]]

\* Mistake: the effect has no cleanup.
KeptActive(r) == r

CleanedUp(r) == [r EXCEPT !.active = FALSE]

\* The effect on initialUID, after the cleanup of the previous one.
LoadContext(uid) ==
    requests' = {CleanedUp(r) : r \in requests} \cup
                (IF uid = None THEN {} ELSE {[uid |-> uid, active |-> TRUE]})

\* RootPage renders OverviewPage; the URL may name a server, too.
Mount(uid, server) ==
    /\ ~mounted /\ mounted' = TRUE
    /\ url' = uid
    /\ context' = [uid |-> uid, server |-> server]
    /\ error' = IF uid = None THEN "uid" ELSE ""
    /\ LoadContext(uid)
    /\ LoadSnapshot(server, FALSE)
    /\ UNCHANGED <<collect, shown, switches>>

\* Another dashboard in the URL: chosen in the list, or a link.
Switch(uid) ==
    /\ mounted /\ uid # url
    /\ switches < MaxSwitches /\ switches' = switches + 1
    /\ url' = uid
    /\ LoadContext(uid)
    /\ UNCHANGED <<mounted, context, loads, collect, shown, error>>

\* An active answer is the new context; a new server is loaded at once.
ContextAnswer(r) ==
    /\ r \in requests /\ requests' = requests \ {r}
    /\ IF r.active
       THEN /\ context' = [uid |-> r.uid, server |-> ServerOf[r.uid]]
            /\ IF context'.server # context.server
               THEN LoadSnapshot(context'.server, FALSE)
               ELSE UNCHANGED loads
       ELSE UNCHANGED <<context, loads>>
    /\ UNCHANGED <<mounted, url, collect, shown, error, switches>>

ContextFails(r) ==
    /\ r \in requests /\ requests' = requests \ {r}
    /\ error' = IF r.active THEN "context" ELSE error
    /\ UNCHANGED <<mounted, url, context, loads, collect, shown, switches>>

-----------------------------------------------------------------------------
(* Snapshots *)

\* The effect on context.server: cleared and set again for every server.
IntervalServer == context.server

\* Every 30 minutes.
Interval ==
    /\ mounted /\ IntervalServer # None
    /\ LoadSnapshot(IntervalServer, FALSE)
    /\ UNCHANGED <<mounted, url, requests, context, collect, shown, error, switches>>

\* loadSnapshot returns, and with it the collectNow that awaits it.
Return(l) ==
    /\ loads' = [loads EXCEPT ![l] = NoLoad]
    /\ collect' = IF loads[l].manual THEN NoCollect ELSE collect

\* setSnapshot, whatever the page shows by now.
Snapshot(l) ==
    /\ loads[l].server # None
    /\ shown' = loads[l].server
    /\ error' = ""
    /\ Return(l)
    /\ UNCHANGED <<mounted, url, requests, context, switches>>

\* Mistake: one delay too many.
HasDelayOneMore(attempt) == attempt <= Retries

\* There is a delay for this attempt.
HasDelay(attempt) == attempt < Retries

\* prometheusSnapshotRetryDelayMs: a passing failure is repeated after a delay.
Retry(l) ==
    /\ loads[l].server # None /\ HasDelay(loads[l].attempt)
    /\ loads' = [loads EXCEPT ![l].attempt = @ + 1]
    /\ UNCHANGED <<mounted, url, requests, context, collect, shown, error, switches>>

\* Any other failure, or the last one, is shown.
SnapshotFails(l) ==
    /\ loads[l].server # None
    /\ error' = "snapshot"
    /\ Return(l)
    /\ UNCHANGED <<mounted, url, requests, context, shown, switches>>

-----------------------------------------------------------------------------
(* collectNow *)

\* The button is disabled without a server and while a collection is busy.
CollectNow ==
    /\ context.server # None /\ collect.pc = "idle"
    /\ collect' = [pc |-> "status", server |-> context.server]
    /\ error' = ""
    /\ UNCHANGED <<mounted, url, requests, context, loads, shown, switches>>

Following == [status |-> "collect", collect |-> "attempt", attempt |-> "sample", sample |-> "snapshot"]

\* The status (or none), the answer of POST collect, a newer last_attempt, a
\* sample that is not older; then loadSnapshot.
CollectProceeds ==
    /\ collect.pc \in DOMAIN Following
    /\ collect' = [collect EXCEPT !.pc = Following[@]]
    /\ IF collect'.pc = "snapshot" THEN LoadSnapshot(collect.server, TRUE) ELSE UNCHANGED loads
    /\ UNCHANGED <<mounted, url, requests, context, shown, error, switches>>

\* Mistake: a failure leaves the function without the finally.
AfterFailureBusy == collect

AfterFailure == NoCollect

\* POST fails, or one of the two waits ends at its deadline.
CollectFails ==
    /\ collect.pc \in {"collect", "attempt", "sample"}
    /\ error' = "collect"
    /\ collect' = AfterFailure
    /\ UNCHANGED <<mounted, url, requests, context, loads, shown, switches>>

-----------------------------------------------------------------------------
Load(l) == Snapshot(l) \/ Retry(l) \/ SnapshotFails(l)

Next ==
    \/ \E uid \in Pages \cup {None}, server \in Servers \cup {None} : Mount(uid, server)
    \/ \E uid \in Pages : Switch(uid)
    \/ \E r \in requests : ContextAnswer(r) \/ ContextFails(r)
    \/ Interval
    \/ \E l \in Loads : Load(l)
    \/ CollectNow \/ CollectProceeds \/ CollectFails

\* Requests are answered or fail, waits have deadlines, the interval timer runs,
\* and Prometheus does not fail for ever.  Nobody has to click.
Fairness ==
    /\ WF_vars(\E r \in requests : ContextAnswer(r) \/ ContextFails(r))
    /\ WF_vars(Interval)
    /\ \A l \in Loads : WF_vars(Load(l))
    /\ SF_vars(\E l \in Loads : loads[l].server = context.server /\ Snapshot(l))
    /\ WF_vars(CollectProceeds \/ CollectFails)

Spec == Init /\ [][Next]_vars

FairSpec == Spec /\ Fairness

-----------------------------------------------------------------------------
(* Properties *)

\* Contexts never arrive out of order: the page belongs to the dashboard of the
\* URL as soon as no request for it is open, unless that request failed.
ContextFollowsURL ==
    [][context'.uid # context.uid => context'.uid = url']_vars

\* A page that is neither loading nor collecting shows data or says why not.
NoSilentFailure ==
    context.server # None /\ collect.pc = "idle" /\ Idle = Loads /\ error = "" => shown # None

\* Snapshots carry no check that their server is still the one of the page, so
\* the previous server's data may be shown; the interval replaces them.  Only a
\* dashboard without a server leaves them for good.
SnapshotRecovers == context.server # None ~> context.server \in {shown, None}

\* The button of the page becomes usable again.
BusyEnds == collect.pc # "idle" ~> collect.pc = "idle"
=============================================================================
