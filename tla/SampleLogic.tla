---------------------------- MODULE SampleLogic ----------------------------
(***************************************************************************)
(* Pure functions behind the overview page (src/overview-logic.js, with    *)
(* prometheusSamples and the levels of overview-page.js): what is made of  *)
(* the answers of Prometheus and of the alert rules.  Null is a missing    *)
(* value.                                                                  *)
(***************************************************************************)
EXTENDS Integers, Sequences, FiniteSets, SequencesExt, Lists

Null == -1

\* A label that is there; a missing one is the empty string.
NoLabel == ""

IsNamed(label) == label # NoLabel

-----------------------------------------------------------------------------
(* prometheusSamples, mergeNodeSamples *)

\* A value that is not finite is dropped, whatever the query.
PrometheusSamples(results) == Kept(results, {r \in ToSet(results) : r.value # Null})

\* Two of the seven queries with one value for each node; the others are alike.
NewRow == [up |-> Null, online |-> Null, connections |-> <<>>]

\* Mistake: a node that is known gets a row of its own again.
RowOfNew(rows, node) == NewRow

RowOf(rows, node) == IF node \in DOMAIN rows THEN rows[node] ELSE NewRow

MergeSample(rows, sample) ==
    IF IsNamed(sample.node)
    THEN With(rows, sample.node, [RowOf(rows, sample.node) EXCEPT ![sample.query] = sample.value])
    ELSE rows

ConnectionTypes == {"central", "region"}

MergeConnection(rows, c) ==
    IF IsNamed(c.node) /\ c.type \in ConnectionTypes
    THEN With(rows, c.node, [RowOf(rows, c.node) EXCEPT !.connections = Append(@, c)])
    ELSE rows

\* Central connections first, then by identifier.
ConnectionBefore(left, right) ==
    IF left.type = right.type THEN left.id < right.id ELSE left.type = "central"

ConnectionOrder(connections) == {p \in connections \X connections : ConnectionBefore(p[1], p[2])}

SampleRows(samples) == FoldLeft(MergeSample, <<>>, samples)

ConnectionRows(rows, connections) == FoldLeft(MergeConnection, rows, connections)

\* Rows by name of the node.
MergeNodeSamples(results, connections) ==
    LET rows == ConnectionRows(SampleRows(PrometheusSamples(results)), connections)
    IN [n \in DOMAIN rows |->
           [rows[n] EXCEPT !.connections = Sorted(@, ConnectionOrder(ToSet(@)))]]

-----------------------------------------------------------------------------
(* activeAlertsFromRules *)

Shown == {"firing", "pending"}

Rank(severity) ==
    CASE severity = "critical" -> 0 [] severity = "warning" -> 1 [] OTHER -> 2

\* Labels of an alert override those of its rule, and so does its state.
Over(own, general) == IF IsNamed(own) THEN own ELSE general

Alert(rule, alert) ==
    [server |-> Over(alert.server, rule.server), severity |-> Over(alert.severity, rule.severity),
     state |-> Over(alert.state, rule.state), since |-> alert.since]

\* "since" stands for activeAt and, after it, the fingerprint.
AlertBefore(left, right) ==
    \/ Rank(left.severity) < Rank(right.severity)
    \/ Rank(left.severity) = Rank(right.severity) /\ left.since < right.since

AlertOrder(alerts) == {p \in alerts \X alerts : AlertBefore(p[1], p[2])}

AlertsOf(rules) ==
    FlattenSeq([i \in DOMAIN rules |->
        [k \in DOMAIN rules[i].alerts |-> Alert(rules[i], rules[i].alerts[k])]])

ActiveAlertsFromRules(rules, server) ==
    LET all == ToSet(AlertsOf(rules))
        active == {a \in all : a.server = server /\ a.state \in Shown}
    IN Sorted(Kept(AlertsOf(rules), active), AlertOrder(all))

-----------------------------------------------------------------------------
(* Levels of the host *)

\* gibibytes of a scalar: Number(null) is 0, so a missing sample counts as none.
Gibibytes(scalar) == IF scalar = Null THEN 0 ELSE scalar

\* memoryPercent and diskPercent, in whole percent.
Percent(total, available) ==
    IF Gibibytes(total) > 0
    THEN ((Gibibytes(total) - Gibibytes(available)) * 100) \div Gibibytes(total)
    ELSE Null

CpuCapacityPercent(logical) == IF logical > 0 THEN logical * 100 ELSE Null

\* ratio is in percent of all cores, "cores" in percent of one.
CpuCurrent(cores, ratio, logical) ==
    IF cores # Null THEN cores
    ELSE IF ratio # Null /\ logical # Null THEN ratio * logical ELSE Null

CpuFill(cores, ratio, logical) ==
    LET capacity == CpuCapacityPercent(logical)
        now == CpuCurrent(cores, ratio, logical)
    IN IF capacity > 0 /\ now # Null THEN (now * 100) \div capacity ELSE Null

-----------------------------------------------------------------------------
(* What is expected of them *)

Count(s, e) == Cardinality({i \in DOMAIN s : s[i] = e})

InOrder(s, Before(_, _)) == IsSorted(s, LAMBDA x, y : ~Before(y, x))

\* There is one row for each node that any query names, with the last finite
\* value of each query and all its connections, wherever the node came up first.
NodesAreMerged(results, connections) ==
    LET rows == MergeNodeSamples(results, connections)
        Of(n, q) == {i \in DOMAIN results :
                        results[i].node = n /\ results[i].query = q /\ results[i].value # Null}
        Own(n) == {c \in ToSet(connections) : c.node = n /\ c.type \in ConnectionTypes}
        names == {r.node : r \in ToSet(results) \cup ToSet(connections)}
    IN /\ DOMAIN rows = {n \in names : /\ IsNamed(n)
                                       /\ Of(n, "up") \cup Of(n, "online") # {} \/ Own(n) # {}}
       /\ \A n \in DOMAIN rows :
             /\ \A q \in {"up", "online"} :
                   IF Of(n, q) = {}
                   THEN rows[n][q] = Null
                   ELSE \E i \in Of(n, q) : (\A j \in Of(n, q) : j <= i) /\ rows[n][q] = results[i].value
             /\ InOrder(rows[n].connections, ConnectionBefore)
             /\ \A i \in DOMAIN connections :
                   Count(rows[n].connections, connections[i]) =
                      IF connections[i] \in Own(n) THEN Count(connections, connections[i]) ELSE 0

\* The list shows each active alert of the server once, the severest and, among
\* equals, the oldest first; the state and server of an alert count, not its rule's.
AlertsAreOfServer(rules, server) ==
    LET alerts == ActiveAlertsFromRules(rules, server)
        all == AlertsOf(rules)
    IN /\ InOrder(alerts, AlertBefore)
       /\ \A i \in DOMAIN all :
             Count(alerts, all[i]) =
                IF all[i].server = server /\ all[i].state \in Shown THEN Count(all, all[i]) ELSE 0
       /\ \A r \in DOMAIN rules : \A k \in DOMAIN rules[r].alerts :
             LET alert == rules[r].alerts[k]
             IN /\ IsNamed(alert.server) /\ alert.server # server => Len(alerts) < Len(all)
                /\ alert.state = "firing" /\ alert.server = server =>
                      \E i \in DOMAIN alerts : alerts[i].since = alert.since

\* A level is either unknown or within its scale, with any sample missing; a
\* cpu level that is computed from the ratio is that ratio.
LevelsFitScale(total, available, cores, ratio, logical) ==
    /\ available <= total => Percent(total, available) \in 0..100 \cup {Null}
    /\ cores <= 100 * logical => CpuFill(cores, ratio, logical) \in 0..100 \cup {Null}
    /\ cores = Null /\ ratio # Null /\ logical > 0 => CpuFill(cores, ratio, logical) = ratio
=============================================================================
