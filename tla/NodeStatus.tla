----------------------------- MODULE NodeStatus -----------------------------
(***************************************************************************)
(* What one server's goroutine publishes (internal/exporter): the series   *)
(* erlang_server_up, erlang_host_up and erlang_node_up, the runtime status *)
(* of the server, and the confirmation rounds that follow an abnormal      *)
(* collection.  The goroutine is sequential; the adversary is the server,  *)
(* which may answer every collection in any way internal/sshprobe can      *)
(* report.  Poller models when collections start.                          *)
(*                                                                         *)
(* A BEAM node is known by its full name (name@host).  A node that is not  *)
(* running is only known by the name of its instance directory, the short  *)
(* form of the name.                                                       *)
(***************************************************************************)
EXTENDS Integers, Sequences, FiniteSets

CONSTANTS Nodes,   \* full names of BEAM nodes
          Dirs,    \* names of instance directories
          Short,   \* shortNodeName: the part of a full name before the @
          None     \* no status has been recorded

ASSUME NodeStatusAssumption ==
    /\ Nodes \cap Dirs = {}
    /\ Short \in [Nodes -> Dirs]
    /\ IsFiniteSet(Nodes) /\ IsFiniteSet(Dirs)

Names == Nodes \cup Dirs

Series == {"none", "up", "down"}

\* NodeErrors: a node-level failure, or a node blamed for the transport error.
Errors == [Names -> {"none", "node", "transport"}]

ServerStatus == [state : {"healthy", "degraded", "down"}, nodes : Nat,
                 errors : Errors, hostError : BOOLEAN]

ASSUME NoneAssumption == None \notin ServerStatus

Scope == [full : BOOLEAN, host : BOOLEAN, failures : SUBSET Names, busy : SUBSET Nodes]

VARIABLES nodeUp,     \* erlang_node_up
          serverUp,   \* erlang_server_up
          hostUp,     \* erlang_host_up
          known,      \* p.knownNodes
          status,     \* the server's entry of the status store
          schedule,   \* confirm: the rounds that are left, <<>> between collections
          cancelled,  \* the goroutine's context
          rechecked,  \* history: failure confirmations a name has had since the collection
          total       \* history: nodes the last full collection reported on

vars == <<nodeUp, serverUp, hostUp, known, status, schedule, cancelled, rechecked, total>>

FailedIn(errors) == {n \in Names : errors[n] # "none"}

TypeOK ==
    /\ nodeUp \in [Names -> Series]
    /\ serverUp \in Series
    /\ hostUp \in Series
    /\ known \subseteq Names
    /\ status \in ServerStatus \cup {None}
    /\ schedule \in Seq(Scope)
    /\ cancelled \in BOOLEAN
    /\ rechecked \in [Names -> 0..2]
    /\ total \in Nat

Init ==
    /\ nodeUp = [n \in Names |-> "none"]
    /\ serverUp = "none"
    /\ hostUp = "none"
    /\ known = {}
    /\ status = None
    /\ schedule = <<>>
    /\ cancelled = FALSE
    /\ rechecked = [n \in Names |-> 0]
    /\ total = 0

-----------------------------------------------------------------------------
(* sshprobe.collect: everything one collection may report *)

\* err is nil unless nothing could be collected from any node.
Result(host, nodes, busy, failures, err) ==
    [host |-> host, nodes |-> nodes, busy |-> busy, failures |-> failures, err |-> err]

DialFailed == Result("skipped", {}, {}, {}, TRUE)

\* Host metrics are collected when asked for, before node discovery.
HostParts(includeHost) == IF includeHost THEN {"ok", "error"} ELSE {"skipped"}

\* The directory scan or the process listing failed.
DiscoveryFailed(includeHost) == {Result(h, {}, {}, {}, TRUE) : h \in HostParts(includeHost)}

\* The collection as a whole failed when no node answered.
NoneAnswered(nodes) == nodes = {}

\* probed nodes answer or fail one by one; missing names fail without a probe.
Probed(includeHost, probed, missing) ==
    UNION {{Result(h, nodes, busy, missing \cup (probed \ nodes), NoneAnswered(nodes)) :
               h \in HostParts(includeHost), busy \in SUBSET nodes} : nodes \in SUBSET probed}

\* missingExpectedNodes.
MissingDirs(expected, running) == {d \in expected : \A p \in running : Short[p] # d}

\* collect: expected is what the directory scan found, running the BEAM processes.
AllResults(includeHost) ==
    {DialFailed} \cup DiscoveryFailed(includeHost) \cup
    UNION {Probed(includeHost, running, MissingDirs(expected, running)) :
               running \in SUBSET Nodes, expected \in SUBSET Dirs}

\* Collect.
FullResults == AllResults(TRUE)

\* selectBeamProcesses: a short name that two processes share selects neither.
Selects(name, running) ==
    IF name \in Nodes THEN {name} \cap running
    ELSE LET same == {p \in running : Short[p] = name}
         IN IF Cardinality(same) = 1 THEN same ELSE {}

\* CollectSelected.
SelectedResults(names, includeHost) ==
    {DialFailed} \cup
    IF names = {}
    THEN {Result(h, {}, {}, {}, FALSE) : h \in HostParts(includeHost)}
    ELSE DiscoveryFailed(includeHost) \cup
         UNION {Probed(includeHost,
                       UNION {Selects(n, running) : n \in names},
                       {n \in names : Selects(n, running) = {}}) : running \in SUBSET Nodes}

-----------------------------------------------------------------------------
(* Confirmation scopes and their schedule *)

Required(scope) == scope.full \/ scope.host \/ scope.failures # {} \/ scope.busy # {}

\* Mistake: the nodes that failed are rechecked with the fast round as well.
ConfirmationScopeAll(r) ==
    [full     |-> r.err /\ r.failures = {} /\ r.host # "error",
     host     |-> r.host = "error",
     failures |-> r.failures,
     busy     |-> r.busy \cup r.failures]

ConfirmationScopeFor(r) ==
    [full     |-> r.err /\ r.failures = {} /\ r.host # "error",
     host     |-> r.host = "error",
     failures |-> r.failures,
     busy     |-> r.busy]

FailureScope(nodes) == [full |-> FALSE, host |-> FALSE, failures |-> nodes, busy |-> {}]

\* A fast round for what is not a node failure, a round for the node failures;
\* the intervals of the configuration order them.
ConfirmationSchedule(scope, failureFirst) ==
    LET fast == [scope EXCEPT !.failures = {}]
        fastRound == IF Required(fast) THEN <<fast>> ELSE <<>>
        failureRound == IF scope.failures # {} THEN <<FailureScope(scope.failures)>> ELSE <<>>
    IN IF failureFirst THEN failureRound \o fastRound ELSE fastRound \o failureRound

\* New failures join the pending failure round, else they get one at the end
\* (the fast round runs at most once, so nothing is left that sorts after it).
AddFailureConfirmation(rest, nodes) ==
    LET pending == {i \in DOMAIN rest : rest[i].failures # {}}
    IN IF pending = {} THEN Append(rest, FailureScope(nodes))
       ELSE [i \in DOMAIN rest |->
                IF i \in pending /\ \A j \in pending : i <= j
                THEN [rest[i] EXCEPT !.failures = @ \cup nodes] ELSE rest[i]]

-----------------------------------------------------------------------------
(* Publishing a result *)

SetSeries(up, down, deleted) ==
    nodeUp' = [n \in Names |-> IF n \in deleted THEN "none"
                               ELSE IF n \in up THEN "up"
                               ELSE IF n \in down THEN "down" ELSE nodeUp[n]]

SetStatus(state, nodes, errors, hostError) ==
    status' = [state |-> state, nodes |-> nodes, errors |-> errors, hostError |-> hostError]

\* The transport or the discovery failed: there is no node-level result.
WithoutNodes(r) == r.err /\ r.failures = {}

\* removeStaleNodes: the names that become known, and the series it deletes.
Current(r) == r.nodes \cup r.failures

\* Mistake: failing nodes count as stale.
StaleOrFailing(r) == IF WithoutNodes(r) THEN {} ELSE known \ r.nodes

Stale(r) == IF WithoutNodes(r) THEN {} ELSE known \ Current(r)

\* collect: a failure without node-level results takes every known node down
\* and keeps knownNodes; every other result replaces knownNodes and deletes the
\* series of the nodes that it dropped (removeStaleNodes).
PublishFull(r) ==
    LET unscoped == WithoutNodes(r)
        down == IF unscoped THEN known ELSE r.failures
        errors == [n \in Names |-> IF n \notin down THEN "none"
                                   ELSE IF unscoped THEN "transport" ELSE "node"]
        hostError == r.host = "error"
    IN /\ hostUp' = IF r.host = "ok" THEN "up" ELSE "down"
       /\ serverUp' = IF r.err THEN "down" ELSE "up"
       /\ SetSeries(r.nodes, down, Stale(r))
       /\ known' = IF unscoped THEN known ELSE Current(r)
       /\ SetStatus(IF r.err THEN "down"
                    ELSE IF r.failures # {} \/ hostError THEN "degraded" ELSE "healthy",
                    Cardinality(r.nodes), errors, hostError)
       /\ total' = Cardinality(r.nodes) + Cardinality(down)

\* Targets that recovered, under their own name or as the short name of a node.
Succeeded(r) == r.nodes \cup {Short[n] : n \in r.nodes}

\* Mistake: a node that keeps failing is taken off the live nodes again.
NewlyFailedAny(failing, wasFailed) == failing

\* Nodes that leave the counter of live nodes.
NewlyFailed(failing, wasFailed) == failing \ wasFailed

\* A server that was down is up again with the first node that answers.
ServerUpAfter(r) ==
    IF status.state = "down" /\ r.nodes # {} /\ ~r.err THEN "up" ELSE serverUp

\* applySelectedConfirmation: only the targets move; a placeholder that turned
\* into a node loses its series.  The entry it looks up exists: only
\* deleteServerState removes it, and never during a confirmation.
ApplySelectedConfirmation(scope, r) ==
    LET targets == scope.failures \cup scope.busy
        cleared == targets \cap Succeeded(r)
        blamed == IF r.err THEN targets \ (Succeeded(r) \cup r.failures) ELSE {}
        failing == (targets \cap (r.failures \cup blamed)) \ cleared
        wasFailed == FailedIn(status.errors)
        errors == [n \in Names |-> IF n \in cleared THEN "none"
                                   ELSE IF n \in failing \cap blamed THEN "transport"
                                   ELSE IF n \in failing THEN "node" ELSE status.errors[n]]
        gained == Cardinality(cleared \cap wasFailed)
        lost == Cardinality(NewlyFailed(failing, wasFailed))
        nodes == IF status.nodes + gained >= lost THEN status.nodes + gained - lost ELSE 0
        hostError == IF ~scope.host THEN status.hostError
                     ELSE r.host # "ok" /\ (r.host = "error" \/ r.err \/ status.hostError)
        state == IF nodes = 0 /\ FailedIn(errors) # {} THEN "down"
                 ELSE IF FailedIn(errors) # {} \/ hostError \/ r.err THEN "degraded"
                 ELSE "healthy"
    IN /\ hostUp' = IF ~scope.host THEN hostUp ELSE IF r.host = "ok" THEN "up" ELSE "down"
       /\ SetSeries(r.nodes, r.failures \cup blamed, cleared \ r.nodes)
       /\ SetStatus(state, nodes, errors, hostError)
       /\ serverUp' = ServerUpAfter(r)
       /\ UNCHANGED <<known, total>>

-----------------------------------------------------------------------------
(* The goroutine *)

\* collectAndConfirm, the collection.
Collect ==
    /\ schedule = <<>>
    /\ \E r \in FullResults, failureFirst \in BOOLEAN :
          /\ PublishFull(r)
          /\ schedule' = ConfirmationSchedule(ConfirmationScopeFor(r), failureFirst)
    /\ rechecked' = [n \in Names |-> 0]
    /\ UNCHANGED cancelled

\* A name's second and later confirmations alternate between 2 and 1, so that a
\* round that changes nothing else is a step all the same.
Count(n) == IF n = 1 THEN 2 ELSE 1

\* Mistake: whatever fails is confirmed again.
UnconfirmedAlways(item, r) == r.failures

\* Failures found by a round that was not a failure confirmation itself.
Unconfirmed(item, r) == IF item.failures = {} THEN r.failures ELSE {}

RoundResults(item) ==
    IF item.full THEN FullResults ELSE SelectedResults(item.failures \cup item.busy, item.host)

\* confirm: one iteration of its loop, runConfirmation included.
Round ==
    /\ schedule # <<>> /\ ~cancelled
    /\ LET item == Head(schedule)
           rest == Tail(schedule)
       IN /\ \E r \in RoundResults(item) :
                /\ IF item.full THEN PublishFull(r) ELSE ApplySelectedConfirmation(item, r)
                /\ schedule' = IF Unconfirmed(item, r) = {} THEN rest
                               ELSE AddFailureConfirmation(rest, Unconfirmed(item, r))
          /\ rechecked' = [n \in Names |-> IF n \in item.failures THEN Count(rechecked[n])
                                           ELSE rechecked[n]]
    /\ UNCHANGED cancelled

\* waitForConfirmation returns false: the remaining rounds are given up.
AbandonConfirmation ==
    /\ schedule # <<>> /\ cancelled
    /\ schedule' = <<>>
    /\ UNCHANGED <<nodeUp, serverUp, hostUp, known, status, cancelled, rechecked, total>>

\* The server is retired, or the exporter stops.
Cancel ==
    /\ ~cancelled /\ cancelled' = TRUE
    /\ UNCHANGED <<nodeUp, serverUp, hostUp, known, status, schedule, rechecked, total>>

\* deleteServerState: after the goroutine ended, or because of a new name or
\* address; the next goroutine gets a context of its own.
DeleteServerState ==
    /\ schedule = <<>>
    /\ nodeUp' = [n \in Names |-> "none"]
    /\ serverUp' = "none" /\ hostUp' = "none"
    /\ known' = {} /\ status' = None
    /\ cancelled' = FALSE
    /\ rechecked' = [n \in Names |-> 0] /\ total' = 0
    /\ UNCHANGED schedule

Next == Collect \/ Round \/ AbandonConfirmation \/ Cancel \/ DeleteServerState

Spec == Init /\ [][Next]_vars

\* The waits are timers and every remote command has a timeout.
FairSpec == Spec /\ WF_vars(Round \/ AbandonConfirmation)

-----------------------------------------------------------------------------
(* Properties *)

\* The published series tell what the status tells, so alerts and node table agree
\* with it: what it reports as failing, a node or the host, is exposed as down, and
\* a server with live nodes goes with server_up 1, even if a confirmation found them.
\* The placeholder of a missing directory has a series only while knownNodes can
\* remove it.
SeriesAgreeWithStatus ==
    /\ {d \in Dirs : nodeUp[d] # "none"} \subseteq known
    /\ status # None =>
        /\ \A n \in FailedIn(status.errors) : nodeUp[n] = "down"
        /\ status.hostError => hostUp = "down"
        /\ status.nodes > 0 /\ status.state # "down" => serverUp = "up"

\* Confirmations move nodes between the two counters of the status; they never
\* invent or lose one, and the counter of live nodes never hits its clamp at zero.
NodesAreConserved ==
    status # None => status.nodes + Cardinality(FailedIn(status.errors)) = total

\* confirm_attempts is 1: each failure is confirmed once.  No name is the target
\* of a second failure confirmation after one collection, whichever round found it
\* failing, and when a confirmation has run to its end, each node-level failure the
\* status still reports has been confirmed after the long interval.
FailuresAreConfirmedOnce ==
    /\ \A n \in Names : rechecked[n] <= 1
    /\ schedule = <<>> /\ ~cancelled /\ status # None =>
          \A n \in Names : status.errors[n] = "node" => rechecked[n] = 1

\* The goroutine gets back to its select: confirmations do not breed.
ConfirmationEnds == schedule # <<>> ~> schedule = <<>>

\* The collection failed before it had any node-level result.
Unscoped(st) == st # None /\ st.state = "down" /\ \A n \in Names : st.errors[n] # "node"

\* exporter.go:511-513: such a failure marks every previously known node down
\* "so the node table cannot look healthy while the server is unreachable".
UnreachableLooksDown ==
    [][schedule = <<>> /\ status' # status /\ Unscoped(status')
          => \A n \in Names : nodeUp'[n] # "up"]_vars

\* exporter.go:614-615: such a failure "receives exactly one full retry".
UnscopedFailureGetsFullRetry ==
    [][schedule = <<>> /\ status' # status /\ Unscoped(status')
          => schedule' # <<>> /\ Head(schedule').full]_vars
=============================================================================
