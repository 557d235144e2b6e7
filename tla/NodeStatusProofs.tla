-------------------------- MODULE NodeStatusProofs --------------------------
(***************************************************************************)
(* Proofs about what one server's goroutine publishes, for any nodes,      *)
(* directories and results of the collections.  The inductive invariant    *)
(* IInv says what the goroutine knows and what its confirmation rounds are *)
(* still about: a round only ever aims at known names, no name is known    *)
(* twice, as a node and as the directory it belongs to, and the nodes of   *)
(* the status are exactly the known ones.                                  *)
(***************************************************************************)
EXTENDS NodeStatus, FiniteSetTheorems, SequenceTheorems, TLAPS

\* Names a round is about.
Targets(item) == item.failures \cup item.busy

\* The three rounds ConfirmationSchedule and AddFailureConfirmation make.
FullRound(item) == item.full /\ ~item.host /\ item.failures = {} /\ item.busy = {}

FastRound(item) == ~item.full /\ item.failures = {}

FailureRound(item) == ~item.full /\ ~item.host /\ item.failures # {} /\ item.busy = {}

\* Names the rounds of a schedule are about, and those that have a failure round to come.
Aims(s) == UNION {Targets(s[i]) : i \in DOMAIN s}

Pending(s) == UNION {s[i].failures : i \in DOMAIN s}

\* At most one round of each kind, the two of them about different names.
Rounds(s) ==
    \/ s = <<>>
    \/ \E f \in Scope : s = <<f>> /\ (FullRound(f) \/ FastRound(f) \/ FailureRound(f))
    \/ \E f, g \in Scope : /\ s = <<f, g>> /\ Targets(f) \cap Targets(g) = {}
                           /\ \/ FastRound(f) /\ FailureRound(g)
                              \/ FailureRound(f) /\ FastRound(g)

\* No round is about a name whose failure was confirmed before, or that is not known.
ScheduleInv ==
    /\ schedule # <<>> => status # None
    /\ Rounds(schedule)
    /\ Aims(schedule) \subseteq known
    /\ \A n \in Aims(schedule) : rechecked[n] = 0
    /\ schedule # <<>> /\ Head(schedule).full => \A n \in Names : rechecked[n] = 0

\* No name is known both as a node and as its directory.
KnownInv == \A p \in Nodes : ~(p \in known /\ Short[p] \in known)

\* The status is about the known names, and "down" is what it says without a live node.
StatusInv ==
    status # None =>
        /\ FailedIn(status.errors) \subseteq known
        /\ total = Cardinality(known)
        /\ status.state = "down" => status.nodes = 0
        /\ status.nodes = 0 /\ FailedIn(status.errors) # {} => status.state = "down"

\* A node-level failure has been confirmed or will be, unless the goroutine was stopped.
ConfirmationInv ==
    status # None => \A n \in Names : status.errors[n] = "node" =>
        \/ rechecked[n] = 1
        \/ n \in Pending(schedule)
        \/ cancelled /\ schedule = <<>>

\* What is published, whatever the rounds are.
PublishedInv ==
    /\ nodeUp \in [Names -> Series] /\ serverUp \in Series /\ hostUp \in Series
    /\ known \subseteq Names /\ status \in ServerStatus \cup {None} /\ total \in Nat
    /\ KnownInv /\ StatusInv /\ SeriesAgreeWithStatus /\ NodesAreConserved

IInv == TypeOK /\ PublishedInv /\ ScheduleInv /\ ConfirmationInv /\ FailuresAreConfirmedOnce


-----------------------------------------------------------------------------
(* What a collection may report *)

\* The shape of every result.
ResultOK(r) ==
    /\ r.host \in {"ok", "error", "skipped"} /\ r.nodes \subseteq Nodes /\ r.busy \subseteq r.nodes
    /\ r.failures \subseteq Names /\ r.err \in BOOLEAN

\* Probes answer or fail; the names that are missing fail.
LEMMA ProbedResult ==
    ASSUME NEW includeHost, NEW probed \in SUBSET Nodes, NEW missing \in SUBSET Names,
           NEW r \in Probed(includeHost, probed, missing)
    PROVE  /\ ResultOK(r) /\ r.nodes \subseteq probed
           /\ r.failures = missing \cup (probed \ r.nodes)
           /\ r.err <=> r.nodes = {}
<1>1. \E nodes \in SUBSET probed : \E h \in HostParts(includeHost), busy \in SUBSET nodes :
         r = Result(h, nodes, busy, missing \cup (probed \ nodes), NoneAnswered(nodes))
  BY DEF Probed
<1>2. PICK nodes \in SUBSET probed : \E h \in HostParts(includeHost), busy \in SUBSET nodes :
         r = Result(h, nodes, busy, missing \cup (probed \ nodes), NoneAnswered(nodes))
  BY <1>1
<1>3. PICK h \in HostParts(includeHost), busy \in SUBSET nodes :
         r = Result(h, nodes, busy, missing \cup (probed \ nodes), NoneAnswered(nodes))
  BY <1>2
<1>4. PICK err \in BOOLEAN : err = NoneAnswered(nodes)
  BY DEF NoneAnswered
<1>5. PICK failures : failures = missing \cup (probed \ nodes)
  OBVIOUS
<1>6. r = [host |-> h, nodes |-> nodes, busy |-> busy, failures |-> failures, err |-> err]
  BY <1>3, <1>4, <1>5 DEF Result
<1>7. h \in {"ok", "error", "skipped"} /\ failures \subseteq Names
  BY <1>5 DEF HostParts, Names
<1>8. err <=> nodes = {}
  BY <1>4 DEF NoneAnswered
<1>9. QED
  BY <1>5, <1>6, <1>7, <1>8 DEF ResultOK

\* Nothing could be collected from any node, and no node is to blame.
LEMMA FailedResult ==
    ASSUME NEW includeHost, NEW r, r = DialFailed \/ r \in DiscoveryFailed(includeHost)
    PROVE  ResultOK(r) /\ r.nodes = {} /\ r.failures = {} /\ r.err
<1>1. CASE r = DialFailed
  BY <1>1 DEF DialFailed, Result, ResultOK
<1>2. CASE r \in DiscoveryFailed(includeHost)
  <2>1. PICK h \in HostParts(includeHost) : r = Result(h, {}, {}, {}, TRUE)
    BY <1>2, Zenon DEF DiscoveryFailed
  <2>2. r = [host |-> h, nodes |-> {}, busy |-> {}, failures |-> {}, err |-> TRUE]
    BY <2>1 DEF Result
  <2>3. QED
    BY <2>2 DEF HostParts, ResultOK
<1>3. QED
  BY <1>1, <1>2

\* A collection of all nodes: a name is reported once, as live or as failing, and a node
\* never together with its directory.
LEMMA FullResult ==
    ASSUME NEW r \in FullResults
    PROVE  /\ ResultOK(r) /\ (r.err <=> r.nodes = {}) /\ r.nodes \cap r.failures = {}
           /\ \A p \in Nodes : ~(p \in Current(r) /\ Short[p] \in Current(r))
<1> USE NodeStatusAssumption
<1>1. PICK includeHost : r \in AllResults(includeHost)
  BY DEF FullResults
<1>2. CASE r = DialFailed \/ r \in DiscoveryFailed(includeHost)
  BY <1>2, FailedResult DEF Current
<1>3. CASE ~(r = DialFailed \/ r \in DiscoveryFailed(includeHost))
  <2>1. PICK running \in SUBSET Nodes, expected \in SUBSET Dirs :
           r \in Probed(includeHost, running, MissingDirs(expected, running))
    BY <1>1, <1>3 DEF AllResults
  <2>2. PICK missing : missing = MissingDirs(expected, running)
    OBVIOUS
  <2>3. missing \subseteq Dirs /\ missing \subseteq Names
    BY <2>2 DEF MissingDirs, Names
  <2>4. /\ ResultOK(r) /\ r.nodes \subseteq running
        /\ r.failures = missing \cup (running \ r.nodes)
        /\ r.err <=> r.nodes = {}
    BY <2>1, <2>2, <2>3, ProbedResult
  <2>5. r.nodes \cap r.failures = {}
    BY <2>3, <2>4
  <2>6. ASSUME NEW p \in Nodes, p \in Current(r), Short[p] \in Current(r) PROVE FALSE
    <3>1. p \in running /\ Short[p] \in missing
      BY <2>3, <2>4, <2>6 DEF Current
    <3>2. QED
      BY <2>2, <3>1 DEF MissingDirs
  <2>7. QED
    BY <2>4, <2>5, <2>6
<1>4. QED
  BY <1>2, <1>3

\* The nodes a name selects.
LEMMA Selected ==
    ASSUME NEW name \in Names, NEW running \in SUBSET Nodes
    PROVE  /\ Selects(name, running) \subseteq running
           /\ name \in Nodes => Selects(name, running) \subseteq {name}
           /\ \A p \in Selects(name, running) : p = name \/ Short[p] = name
BY DEF Selects, Names

\* A round for some names reports on those names, and on the nodes of directories among them.
LEMMA SelectedResult ==
    ASSUME NEW names \in SUBSET Names, NEW includeHost, NEW r \in SelectedResults(names, includeHost)
    PROVE  /\ ResultOK(r)
           /\ r.nodes # {} => ~r.err
           /\ r.failures \cap Dirs \subseteq names
           /\ names \subseteq Nodes => r.failures \subseteq names
           /\ \A p \in r.nodes : p \in names \/ Short[p] \in names
<1>1. CASE r = DialFailed \/ r \in DiscoveryFailed(includeHost)
  BY <1>1, FailedResult
<1>2. CASE ~(r = DialFailed \/ r \in DiscoveryFailed(includeHost))
  <2>1. CASE names = {}
    <3>1. PICK h \in HostParts(includeHost) : r = Result(h, {}, {}, {}, FALSE)
      BY <1>2, <2>1, Zenon DEF SelectedResults
    <3>2. QED
      BY <3>1 DEF Result, ResultOK, HostParts
  <2>2. CASE names # {}
    <3>1. PICK running \in SUBSET Nodes :
             r \in Probed(includeHost, UNION {Selects(n, running) : n \in names},
                          {n \in names : Selects(n, running) = {}})
      BY <1>2, <2>2, Zenon DEF SelectedResults
    <3>2. PICK probed : probed = UNION {Selects(n, running) : n \in names}
      OBVIOUS
    <3>3. PICK missing : missing = {n \in names : Selects(n, running) = {}}
      OBVIOUS
    <3>4. probed \subseteq Nodes /\ \A p \in probed : p \in names \/ Short[p] \in names
      BY <3>2, Selected
    <3>5. /\ ResultOK(r) /\ r.nodes \subseteq probed
          /\ r.failures = missing \cup (probed \ r.nodes)
          /\ r.err <=> r.nodes = {}
      <4>1. r \in Probed(includeHost, probed, missing)
        BY <3>1, <3>2, <3>3, Zenon
      <4>2. missing \subseteq Names
        BY <3>3
      <4>3. QED
        BY <3>4, <4>1, <4>2, ProbedResult
    <3>6. ASSUME names \subseteq Nodes PROVE r.failures \subseteq names
      BY <3>2, <3>3, <3>5, <3>6, Selected
    <3>7. QED
      BY <3>3, <3>4, <3>5, <3>6, NodeStatusAssumption
  <2>3. QED
    BY <2>1, <2>2
<1>3. QED
  BY <1>1, <1>2

-----------------------------------------------------------------------------
(* Publishing a result *)

\* Sets of names are finite and can be counted.
LEMMA NamesAreFinite ==
    /\ IsFiniteSet(Names)
    /\ \A S \in SUBSET Names : IsFiniteSet(S) /\ Cardinality(S) \in Nat
<1>1. IsFiniteSet(Names)
  BY NodeStatusAssumption, FS_Union DEF Names
<1>2. ASSUME NEW S \in SUBSET Names PROVE IsFiniteSet(S) /\ Cardinality(S) \in Nat
  BY <1>1, FS_Subset, FS_CardinalityType
<1>3. QED
  BY <1>1, <1>2

\* collect publishes a result: the status is about the names that are known from now on.
LEMMA PublishFullStep ==
    ASSUME PublishedInv, NEW r \in FullResults, PublishFull(r)
    PROVE  /\ PublishedInv' /\ status' # None
           /\ r.failures \cup r.busy \subseteq known'
           /\ \A n \in Names : status'.errors[n] = "node" => n \in r.failures
<1> USE DEF PublishedInv
<1>1. /\ ResultOK(r) /\ (r.err <=> r.nodes = {}) /\ r.nodes \cap r.failures = {}
      /\ \A p \in Nodes : ~(p \in Current(r) /\ Short[p] \in Current(r))
  BY FullResult
<1>2. /\ r.nodes \subseteq Names /\ r.failures \subseteq Names /\ r.busy \subseteq r.nodes
      /\ r.nodes \cap Dirs = {} /\ r.err \in BOOLEAN /\ r.host \in {"ok", "error", "skipped"}
  BY <1>1, NodeStatusAssumption DEF ResultOK, Names
<1>3. PICK unscoped \in BOOLEAN : unscoped = WithoutNodes(r)
  BY <1>2 DEF WithoutNodes
<1>4. unscoped => r.err /\ r.failures = {} /\ r.nodes = {} /\ r.busy = {}
  BY <1>1, <1>2, <1>3 DEF WithoutNodes
<1>5. PICK down : down = IF unscoped THEN known ELSE r.failures
  OBVIOUS
<1>6. PICK e : e = [n \in Names |-> IF n \notin down THEN "none" ELSE IF unscoped THEN "transport" ELSE "node"]
  OBVIOUS
<1>7. PICK h \in BOOLEAN : h = (r.host = "error")
  OBVIOUS
<1>8. PICK st : st = IF r.err THEN "down" ELSE IF r.failures # {} \/ h THEN "degraded" ELSE "healthy"
  OBVIOUS
<1>9. PICK c : c = Cardinality(r.nodes)
  OBVIOUS
<1>10. /\ hostUp' = (IF r.host = "ok" THEN "up" ELSE "down")
       /\ serverUp' = (IF r.err THEN "down" ELSE "up")
       /\ SetSeries(r.nodes, down, Stale(r))
       /\ known' = (IF unscoped THEN known ELSE Current(r))
       /\ total' = c + Cardinality(down)
  BY <1>3, <1>5, <1>9 DEF PublishFull
<1>11. status' = [state |-> st, nodes |-> c, errors |-> e, hostError |-> h]
  BY <1>3, <1>5, <1>6, <1>7, <1>8, <1>9 DEF PublishFull, SetStatus
<1>12. down \subseteq Names /\ down \subseteq known' /\ known' \subseteq Names
  BY <1>2, <1>4, <1>5, <1>10 DEF Current
<1>13. c \in Nat /\ Cardinality(down) \in Nat
  BY <1>2, <1>9, <1>12, NamesAreFinite
<1>14. e \in Errors /\ \A n \in Names : (e[n] # "none" <=> n \in down) /\ (e[n] = "node" => n \in r.failures)
  BY <1>5, <1>6, <1>12 DEF Errors
<1>15. st \in {"healthy", "degraded", "down"} /\ (st = "down" <=> r.err)
  BY <1>2, <1>8
<1>16. status' \in ServerStatus /\ status' # None
  <2>1. e \in Errors
    BY <1>14
  <2>2. [state |-> st, nodes |-> c, errors |-> e, hostError |-> h] \in ServerStatus
    BY <1>7, <1>13, <1>15, <2>1 DEF ServerStatus
  <2>3. QED
    BY <1>11, <2>2, NoneAssumption
<1>17. /\ status'.state = st /\ status'.nodes = c /\ status'.errors = e /\ (status'.hostError <=> r.host = "error")
       /\ FailedIn(e) = down
  BY <1>7, <1>11, <1>12, <1>14 DEF FailedIn
<1>18. /\ nodeUp' \in [Names -> Series]
       /\ \A n \in Names : nodeUp'[n] = IF n \in Stale(r) THEN "none"
                               ELSE IF n \in r.nodes THEN "up"
                               ELSE IF n \in down THEN "down" ELSE nodeUp[n]
  BY <1>10 DEF SetSeries, Series
<1>19. c = 0 <=> r.err
  BY <1>1, <1>2, <1>9, NamesAreFinite, FS_EmptySet
<1>20. KnownInv'
  BY <1>1, <1>10 DEF KnownInv
<1>21. StatusInv'
  <2>1. total' = Cardinality(known')
    <3>1. CASE unscoped
      BY <1>4, <1>5, <1>9, <1>10, <1>13, <3>1, FS_EmptySet
    <3>2. CASE ~unscoped
      <4>1. IsFiniteSet(r.nodes) /\ IsFiniteSet(r.failures)
        BY <1>2, NamesAreFinite
      <4>2. Cardinality(r.nodes \cup r.failures) = Cardinality(r.nodes) + Cardinality(r.failures) - Cardinality(r.nodes \cap r.failures)
        BY <4>1, FS_Union
      <4>3. Cardinality(r.nodes \cap r.failures) = 0
        BY <1>1, FS_EmptySet
      <4>4. known' = r.nodes \cup r.failures /\ down = r.failures
        BY <1>5, <1>10, <3>2 DEF Current
      <4>5. Cardinality(known') = c + Cardinality(down) - 0
        BY <1>9, <4>2, <4>3, <4>4, Zenon
      <4>6. QED
        BY <1>10, <1>13, <4>5
    <3>3. QED
      BY <3>1, <3>2
  <2>2. QED
    BY <1>12, <1>15, <1>17, <1>19, <2>1 DEF StatusInv
<1>22. SeriesAgreeWithStatus'
  <2>1. ASSUME NEW d \in Dirs, nodeUp'[d] # "none" PROVE d \in known'
    <3>1. d \in Names /\ d \notin r.nodes
      BY <1>2 DEF Names
    <3>2. CASE d \in down
      BY <1>12, <3>2
    <3>3. CASE d \notin down
      <4>1. d \notin Stale(r) /\ nodeUp[d] # "none"
        BY <1>18, <2>1, <3>1, <3>3
      <4>2. d \in known
        BY <4>1 DEF SeriesAgreeWithStatus
      <4>3. QED
        BY <1>3, <1>10, <4>1, <4>2 DEF Stale
    <3>4. QED
      BY <3>2, <3>3
  <2>2. ASSUME NEW n \in down PROVE nodeUp'[n] = "down"
    <3>1. n \in Names /\ n \notin r.nodes
      BY <1>1, <1>4, <1>5, <1>12
    <3>2. n \notin Stale(r)
      BY <1>3, <1>5 DEF Stale, Current
    <3>3. QED
      BY <1>18, <3>1, <3>2
  <2>3. r.host = "error" => hostUp' = "down"
    BY <1>10
  <2>4. st # "down" => serverUp' = "up"
    BY <1>2, <1>10, <1>15
  <2>5. QED
    BY <1>17, <2>1, <2>2, <2>3, <2>4 DEF SeriesAgreeWithStatus
<1>23. NodesAreConserved'
  BY <1>10, <1>17 DEF NodesAreConserved
<1>24. r.failures \cup r.busy \subseteq known'
  BY <1>2, <1>4, <1>10 DEF Current
<1>25. total' \in Nat /\ serverUp' \in Series /\ hostUp' \in Series
  BY <1>2, <1>10, <1>13 DEF Series
<1>26. QED
  BY <1>12, <1>14, <1>16, <1>17, <1>18, <1>20, <1>21, <1>22, <1>23, <1>24, <1>25

\* Counting what confirmations move: names that recovered leave the failing ones, names that fail join them.
LEMMA CountMoved ==
    ASSUME NEW W \in SUBSET Names, NEW C \in SUBSET Names, NEW F \in SUBSET Names, F \cap C = {}
    PROVE  Cardinality((W \ C) \cup F) = Cardinality(W) - Cardinality(C \cap W) + Cardinality(F \ W)
<1>1. IsFiniteSet(W) /\ IsFiniteSet(W \ C) /\ IsFiniteSet(F \ W)
  BY NamesAreFinite
<1>2. (W \ C) \cup F = (W \ C) \cup (F \ W) /\ (W \ C) \cap (F \ W) = {} /\ W \cap C = C \cap W
  OBVIOUS
<1>3. Cardinality(W \ C) = Cardinality(W) - Cardinality(W \cap C)
  BY <1>1, FS_Difference
<1>4. Cardinality((W \ C) \cup (F \ W))
        = Cardinality(W \ C) + Cardinality(F \ W) - Cardinality((W \ C) \cap (F \ W))
  BY <1>1, FS_Union
<1>5. Cardinality((W \ C) \cap (F \ W)) = 0
  BY <1>2, FS_EmptySet
<1>6. /\ Cardinality(W) \in Nat /\ Cardinality(C \cap W) \in Nat /\ Cardinality(F \ W) \in Nat
      /\ Cardinality(W \ C) \in Nat
  BY NamesAreFinite
<1>7. Cardinality((W \ C) \cup F) = Cardinality(W \ C) + Cardinality(F \ W) - 0
  BY <1>2, <1>4, <1>5, Zenon
<1>8. Cardinality(W \ C) = Cardinality(W) - Cardinality(C \cap W)
  BY <1>2, <1>3, Zenon
<1>9. QED
  BY <1>6, <1>7, <1>8

\* A confirmation moves its targets between the live and the failing nodes, and nothing else.
LEMMA ApplyStep ==
    ASSUME PublishedInv, status # None, NEW item \in Scope, Targets(item) \subseteq known,
           NEW r \in SelectedResults(item.failures \cup item.busy, item.host),
           ApplySelectedConfirmation(item, r)
    PROVE  /\ PublishedInv' /\ status' # None /\ known' = known
           /\ \A n \in Names : status'.errors[n] = "node" =>
                 status.errors[n] = "node" \/ n \in Targets(item) \cap r.failures
<1> USE DEF PublishedInv
<1>1. PICK T : T = item.failures \cup item.busy
  OBVIOUS
<1>2. /\ T \subseteq known /\ T \subseteq Names /\ item.host \in BOOLEAN
  BY <1>1 DEF Targets, Scope
<1>3. /\ ResultOK(r)
      /\ r.nodes # {} => ~r.err
      /\ r.failures \cap Dirs \subseteq T
      /\ \A p \in r.nodes : p \in T \/ Short[p] \in T
  <2>1. T \in SUBSET Names /\ r \in SelectedResults(T, item.host)
    BY <1>1, <1>2
  <2>2. QED
    BY <2>1, SelectedResult, Zenon
<1>4. /\ r.nodes \subseteq Nodes /\ r.nodes \subseteq Names /\ r.failures \subseteq Names
      /\ r.err \in BOOLEAN /\ r.host \in {"ok", "error", "skipped"}
  BY <1>3 DEF ResultOK, Names
<1>5. /\ status \in ServerStatus /\ status.nodes \in Nat /\ status.errors \in Errors
      /\ status.hostError \in BOOLEAN
  BY DEF ServerStatus
<1>6. PICK S : S = Succeeded(r)
  OBVIOUS
<1>7. PICK C : C = T \cap S
  OBVIOUS
<1>8. PICK B : B = IF r.err THEN T \ (S \cup r.failures) ELSE {}
  OBVIOUS
<1>9. PICK F : F = (T \cap (r.failures \cup B)) \ C
  OBVIOUS
<1>10. PICK W : W = FailedIn(status.errors)
  OBVIOUS
<1>11. PICK e : e = [n \in Names |-> IF n \in C THEN "none"
                                    ELSE IF n \in F \cap B THEN "transport"
                                    ELSE IF n \in F THEN "node" ELSE status.errors[n]]
  OBVIOUS
<1>12. PICK gained : gained = Cardinality(C \cap W)
  OBVIOUS
<1>13. PICK lost : lost = Cardinality(F \ W)
  OBVIOUS
<1>14. PICK k : k = IF status.nodes + gained >= lost THEN status.nodes + gained - lost ELSE 0
  OBVIOUS
<1>15. PICK h \in BOOLEAN : h = (IF ~item.host THEN status.hostError
                                 ELSE r.host # "ok" /\ (r.host = "error" \/ r.err \/ status.hostError))
  BY <1>5
<1>16. PICK st : st = IF k = 0 /\ FailedIn(e) # {} THEN "down"
                      ELSE IF FailedIn(e) # {} \/ h \/ r.err THEN "degraded" ELSE "healthy"
  OBVIOUS
<1>17. /\ hostUp' = (IF ~item.host THEN hostUp ELSE IF r.host = "ok" THEN "up" ELSE "down")
       /\ SetSeries(r.nodes, r.failures \cup B, C \ r.nodes)
       /\ serverUp' = ServerUpAfter(r)
       /\ known' = known /\ total' = total
  BY <1>1, <1>6, <1>7, <1>8 DEF ApplySelectedConfirmation
<1>18. status' = [state |-> st, nodes |-> k, errors |-> e, hostError |-> h]
  BY <1>1, <1>6, <1>7, <1>8, <1>9, <1>10, <1>11, <1>12, <1>13, <1>14, <1>15, <1>16
     DEF ApplySelectedConfirmation, SetStatus, NewlyFailed
<1>19. W \in SUBSET Names /\ C \in SUBSET Names /\ F \in SUBSET Names /\ F \cap C = {}
  BY <1>2, <1>7, <1>9, <1>10 DEF FailedIn
<1>20. gained \in Nat /\ lost \in Nat /\ k \in Nat
  <2>1. C \cap W \in SUBSET Names /\ F \ W \in SUBSET Names
    BY <1>19
  <2>2. gained \in Nat /\ lost \in Nat
    BY <1>12, <1>13, <2>1, NamesAreFinite
  <2>3. QED
    BY <1>5, <1>14, <2>2
<1>21. e \in Errors
  BY <1>5, <1>11 DEF Errors
<1>22. FailedIn(e) = (W \ C) \cup F
  <2>1. ASSUME NEW n \in Names PROVE e[n] # "none" <=> n \in (W \ C) \cup F
    BY <1>10, <1>11, <1>19, <2>1 DEF FailedIn
  <2>2. QED
    BY <1>19, <2>1 DEF FailedIn
<1>23. \A n \in Names : e[n] = "node" => status.errors[n] = "node" \/ n \in T \cap r.failures
  <2>1. ASSUME NEW n \in Names, e[n] = "node" PROVE status.errors[n] = "node" \/ n \in F \ B
    BY <1>11, <2>1
  <2>2. F \ B \subseteq T \cap r.failures
    BY <1>9
  <2>3. QED
    BY <2>1, <2>2
<1>24. FailedIn(e) \subseteq known /\ W \subseteq known
  BY <1>2, <1>9, <1>10, <1>22 DEF StatusInv
<1>25. k + Cardinality(FailedIn(e)) = total
  <2>1. Cardinality(FailedIn(e)) = Cardinality(W) - gained + lost
    BY <1>12, <1>13, <1>19, <1>22, CountMoved
  <2>2. status.nodes + Cardinality(W) = total /\ total = Cardinality(known)
    BY <1>10 DEF NodesAreConserved, StatusInv
  <2>3. Cardinality(FailedIn(e)) <= Cardinality(known)
    BY <1>24, NamesAreFinite, FS_Subset
  <2>4. Cardinality(W) \in Nat /\ Cardinality(FailedIn(e)) \in Nat /\ Cardinality(known) \in Nat
    BY <1>19, <1>24, NamesAreFinite
  <2>5. QED
    BY <1>5, <1>14, <1>20, <2>1, <2>2, <2>3, <2>4
<1>26. /\ st \in {"healthy", "degraded", "down"}
       /\ st = "down" <=> k = 0 /\ FailedIn(e) # {}
  BY <1>16
<1>27. status' \in ServerStatus /\ status' # None
  <2>1. [state |-> st, nodes |-> k, errors |-> e, hostError |-> h] \in ServerStatus
    BY <1>15, <1>20, <1>21, <1>26 DEF ServerStatus
  <2>2. QED
    BY <1>18, <2>1, NoneAssumption
<1>28. status'.state = st /\ status'.nodes = k /\ status'.errors = e /\ status'.hostError = h
  BY <1>18
<1>29. /\ nodeUp' \in [Names -> Series]
       /\ \A n \in Names : nodeUp'[n] = IF n \in C \ r.nodes THEN "none"
                               ELSE IF n \in r.nodes THEN "up"
                               ELSE IF n \in r.failures \cup B THEN "down" ELSE nodeUp[n]
  BY <1>17 DEF SetSeries, Series
<1>30. KnownInv' /\ StatusInv' /\ NodesAreConserved'
  <2>1. KnownInv'
    BY <1>17 DEF KnownInv
  <2>2. total' = Cardinality(known')
    BY <1>17 DEF StatusInv
  <2>3. StatusInv'
    BY <1>17, <1>24, <1>26, <1>28, <2>2 DEF StatusInv
  <2>4. NodesAreConserved'
    BY <1>17, <1>25, <1>28 DEF NodesAreConserved
  <2>5. QED
    BY <2>1, <2>3, <2>4
<1>31. SeriesAgreeWithStatus'
  <2>1. ASSUME NEW d \in Dirs, nodeUp'[d] # "none" PROVE d \in known
    <3>1. d \in Names /\ d \notin r.nodes
      BY <1>4, NodeStatusAssumption DEF Names
    <3>2. CASE d \in r.failures \cup B
      BY <1>2, <1>3, <1>8, <3>2
    <3>3. CASE d \notin r.failures \cup B
      BY <1>29, <2>1, <3>1, <3>3 DEF SeriesAgreeWithStatus
    <3>4. QED
      BY <3>2, <3>3
  <2>2. ASSUME NEW n \in FailedIn(e) PROVE nodeUp'[n] = "down"
    <3>1. n \in Names /\ n \notin C /\ (n \in F \/ n \in W)
      BY <1>19, <1>22
    <3>2. n \notin r.nodes
      <4>1. SUFFICES ASSUME n \in r.nodes PROVE FALSE
        OBVIOUS
      <4>2. n \notin T
        BY <1>6, <1>7, <3>1, <4>1 DEF Succeeded
      <4>3. n \in known /\ Short[n] \in known
        BY <1>2, <1>3, <1>24, <4>1, <4>2
      <4>4. QED
        BY <1>4, <4>1, <4>3 DEF KnownInv
    <3>3. CASE n \in F
      BY <1>9, <1>29, <3>1, <3>2, <3>3
    <3>4. CASE n \in W
      BY <1>10, <1>29, <3>1, <3>2, <3>4 DEF SeriesAgreeWithStatus
    <3>5. QED
      BY <3>1, <3>3, <3>4
  <2>3. h => hostUp' = "down"
    <3>1. CASE item.host
      BY <1>15, <1>17, <3>1
    <3>2. CASE ~item.host
      BY <1>15, <1>17, <3>2 DEF SeriesAgreeWithStatus
    <3>3. QED
      BY <3>1, <3>2
  <2>4. ASSUME k > 0 PROVE serverUp' = "up"
    <3>1. CASE status.nodes > 0 /\ status.state # "down"
      BY <1>17, <3>1 DEF SeriesAgreeWithStatus, ServerUpAfter
    <3>2. CASE status.nodes = 0
      <4>1. gained # 0
        BY <1>14, <1>20, <2>4, <3>2
      <4>2. C \cap W # {}
        BY <1>12, <4>1, FS_EmptySet
      <4>3. r.nodes # {} /\ W # {}
        BY <1>6, <1>7, <4>2 DEF Succeeded
      <4>4. status.state = "down" /\ ~r.err
        BY <1>3, <1>10, <3>2, <4>3 DEF StatusInv
      <4>5. QED
        BY <1>17, <4>3, <4>4 DEF ServerUpAfter
    <3>3. CASE status.state = "down"
      BY <3>2, <3>3 DEF StatusInv
    <3>4. QED
      BY <1>5, <3>1, <3>2, <3>3
  <2>5. QED
    BY <1>17, <1>28, <2>1, <2>2, <2>3, <2>4 DEF SeriesAgreeWithStatus
<1>32. serverUp' \in Series /\ hostUp' \in Series
  BY <1>17 DEF Series, ServerUpAfter
<1>33. QED
  BY <1>1, <1>17, <1>23, <1>27, <1>28, <1>29, <1>30, <1>31, <1>32 DEF Targets

-----------------------------------------------------------------------------
(* The schedule *)

\* One and two rounds as sequences.
LEMMA RoundSequences ==
    ASSUME NEW f \in Scope, NEW g \in Scope
    PROVE  /\ <<>> \in Seq(Scope) /\ <<f>> \in Seq(Scope) /\ <<f, g>> \in Seq(Scope)
           /\ <<f>> # <<>> /\ <<f, g>> # <<>>
           /\ Head(<<f>>) = f /\ Tail(<<f>>) = <<>> /\ Head(<<f, g>>) = f /\ Tail(<<f, g>>) = <<g>>
           /\ Append(<<>>, f) = <<f>>
           /\ <<f>> \o <<g>> = <<f, g>> /\ <<>> \o <<f>> = <<f>> /\ <<f>> \o <<>> = <<f>> /\ <<>> \o <<>> = <<>>
           /\ Aims(<<>>) = {} /\ Aims(<<f>>) = Targets(f) /\ Aims(<<f, g>>) = Targets(f) \cup Targets(g)
           /\ Pending(<<>>) = {} /\ Pending(<<f>>) = f.failures /\ Pending(<<f, g>>) = f.failures \cup g.failures
<1>1. /\ <<>> \in Seq(Scope) /\ <<f>> \in Seq(Scope) /\ <<f, g>> \in Seq(Scope)
      /\ <<f>> # <<>> /\ <<f, g>> # <<>>
  OBVIOUS
<1>2. Head(<<f>>) = f /\ Tail(<<f>>) = <<>> /\ Head(<<f, g>>) = f /\ Tail(<<f, g>>) = <<g>>
  OBVIOUS
<1>3. Append(<<>>, f) = <<f>> /\ <<>> \o <<f>> = <<f>> /\ <<f>> \o <<>> = <<f>> /\ <<>> \o <<>> = <<>>
  OBVIOUS
<1>4. <<f>> \o <<g>> = <<f, g>>
  <2>1. PICK s : s = <<f>> \o <<g>>
    OBVIOUS
  <2>2. PICK t : t = <<f, g>>
    OBVIOUS
  <2>3. <<f>> \in Seq(Scope) /\ <<g>> \in Seq(Scope) /\ Len(<<f>>) = 1 /\ Len(<<g>>) = 1
    OBVIOUS
  <2>4. s \in Seq(Scope) /\ Len(s) = 2 /\ s[1] = f /\ s[2] = g
    BY <2>1, <2>3, ConcatProperties
  <2>5. t \in Seq(Scope) /\ Len(t) = 2 /\ t[1] = f /\ t[2] = g
    BY <2>2
  <2>6. \A i \in 1..2 : i = 1 \/ i = 2
    OBVIOUS
  <2>7. \A i \in 1..Len(s) : s[i] = t[i]
    BY <2>4, <2>5, <2>6
  <2>8. s = t
    BY <2>4, <2>5, <2>7, SeqEqual
  <2>9. QED
    BY <2>1, <2>2, <2>8
<1>5. /\ DOMAIN <<>> = {} /\ DOMAIN <<f>> = {1} /\ DOMAIN <<f, g>> = {1, 2}
      /\ <<f>>[1] = f /\ <<f, g>>[1] = f /\ <<f, g>>[2] = g
  OBVIOUS
<1>6. Aims(<<>>) = {} /\ Aims(<<f>>) = Targets(f) /\ Aims(<<f, g>>) = Targets(f) \cup Targets(g)
  BY <1>5 DEF Aims
<1>7. Pending(<<>>) = {} /\ Pending(<<f>>) = f.failures /\ Pending(<<f, g>>) = f.failures \cup g.failures
  BY <1>5 DEF Pending
<1>8. QED
  BY <1>1, <1>2, <1>3, <1>4, <1>6, <1>7

\* What ConfirmationSchedule makes of the result of a collection of all nodes: the names that
\* failed, and only they, get a failure round.
LEMMA ScheduleOfCollection ==
    ASSUME NEW r \in FullResults, NEW failureFirst \in BOOLEAN, NEW s,
           s = ConfirmationSchedule(ConfirmationScopeFor(r), failureFirst)
    PROVE  /\ s \in Seq(Scope) /\ Rounds(s)
           /\ Aims(s) \subseteq r.failures \cup r.busy
           /\ Pending(s) = r.failures
<1>1. /\ r.failures \subseteq Names /\ r.busy \subseteq r.nodes /\ r.nodes \subseteq Nodes
      /\ r.nodes \cap r.failures = {} /\ r.host \in {"ok", "error", "skipped"} /\ r.err \in BOOLEAN
      /\ r.err <=> r.nodes = {}
  BY FullResult DEF ResultOK
<1>2. PICK full \in BOOLEAN : full = (r.err /\ r.failures = {} /\ r.host # "error")
  OBVIOUS
<1>3. PICK host \in BOOLEAN : host = (r.host = "error")
  OBVIOUS
<1>4. PICK f : f = [full |-> full, host |-> host, failures |-> {}, busy |-> r.busy]
  OBVIOUS
<1>5. PICK g : g = FailureScope(r.failures)
  OBVIOUS
<1>6. f \in Scope /\ f.full = full /\ f.host = host /\ f.failures = {} /\ f.busy = r.busy
  BY <1>1, <1>4 DEF Scope
<1>7. g \in Scope /\ ~g.full /\ ~g.host /\ g.failures = r.failures /\ g.busy = {}
  BY <1>1, <1>5 DEF FailureScope, Scope
<1>8. FullRound(f) \/ FastRound(f)
  BY <1>1, <1>2, <1>3, <1>6 DEF FullRound, FastRound
<1>9. r.failures # {} => FastRound(f) /\ FailureRound(g) /\ Targets(f) \cap Targets(g) = {}
  BY <1>1, <1>2, <1>6, <1>7 DEF FastRound, FailureRound, Targets
<1>10. PICK fast : fast = IF Required(f) THEN <<f>> ELSE <<>>
  OBVIOUS
<1>11. PICK fail : fail = IF r.failures # {} THEN <<g>> ELSE <<>>
  OBVIOUS
<1>12. s = IF failureFirst THEN fail \o fast ELSE fast \o fail
  <2>1. PICK scope : scope = ConfirmationScopeFor(r)
    OBVIOUS
  <2>2. scope = [full |-> full, host |-> host, failures |-> r.failures, busy |-> r.busy]
    BY <1>2, <1>3, <2>1 DEF ConfirmationScopeFor
  <2>3. [scope EXCEPT !.failures = {}] = f /\ scope.failures = r.failures
    BY <1>4, <2>2
  <2>4. s = ConfirmationSchedule(scope, failureFirst)
    BY <2>1
  <2>5. QED
    BY <1>5, <1>10, <1>11, <2>3, <2>4 DEF ConfirmationSchedule
<1>13. CASE r.failures = {}
  <2>1. s = <<f>> \/ s = <<>>
    BY <1>6, <1>10, <1>11, <1>12, <1>13, RoundSequences
  <2>2. QED
    BY <1>6, <1>8, <1>13, <2>1, RoundSequences DEF Rounds, Targets
<1>14. CASE r.failures # {}
  <2>1. fail = <<g>> /\ (fast = <<f>> \/ fast = <<>>)
    BY <1>10, <1>11, <1>14
  <2>2. s = <<g, f>> \/ s = <<f, g>> \/ s = <<g>>
    <3>1. /\ <<g>> \o <<f>> = <<g, f>> /\ <<f>> \o <<g>> = <<f, g>>
          /\ <<g>> \o <<>> = <<g>> /\ <<>> \o <<g>> = <<g>>
      BY <1>6, <1>7, RoundSequences, Zenon
    <3>2. s = fail \o fast \/ s = fast \o fail
      BY <1>12
    <3>3. CASE fast = <<f>>
      BY <2>1, <3>1, <3>2, <3>3, Zenon
    <3>4. CASE fast = <<>>
      BY <2>1, <3>1, <3>2, <3>4, Zenon
    <3>5. QED
      BY <2>1, <3>3, <3>4
  <2>3. Rounds(s)
    BY <1>6, <1>7, <1>9, <1>14, <2>2 DEF Rounds
  <2>4. /\ s \in Seq(Scope) /\ Aims(s) \subseteq Targets(f) \cup Targets(g)
        /\ Pending(s) = f.failures \cup g.failures
    <3>1. /\ <<g>> \in Seq(Scope) /\ <<g, f>> \in Seq(Scope) /\ <<f, g>> \in Seq(Scope)
          /\ Aims(<<g>>) = Targets(g) /\ Aims(<<g, f>>) = Targets(g) \cup Targets(f)
          /\ Aims(<<f, g>>) = Targets(f) \cup Targets(g)
      BY <1>6, <1>7, RoundSequences, Zenon
    <3>2. /\ Pending(<<g>>) = g.failures /\ Pending(<<g, f>>) = g.failures \cup f.failures
          /\ Pending(<<f, g>>) = f.failures \cup g.failures
      BY <1>6, <1>7, RoundSequences, Zenon
    <3>3. CASE s = <<g, f>>
      <4>1. s \in Seq(Scope) /\ Aims(s) = Targets(g) \cup Targets(f) /\ Pending(s) = g.failures \cup f.failures
        BY <3>1, <3>2, <3>3, Zenon
      <4>2. QED
        BY <4>1
    <3>4. CASE s = <<f, g>>
      <4>1. s \in Seq(Scope) /\ Aims(s) = Targets(f) \cup Targets(g) /\ Pending(s) = f.failures \cup g.failures
        BY <3>1, <3>2, <3>4, Zenon
      <4>2. QED
        BY <4>1
    <3>5. CASE s = <<g>>
      <4>1. s \in Seq(Scope) /\ Aims(s) = Targets(g) /\ Pending(s) = g.failures
        BY <3>1, <3>2, <3>5, Zenon
      <4>2. f.failures = {}
        BY <1>6
      <4>3. QED
        BY <4>1, <4>2
    <3>6. QED
      BY <2>2, <3>3, <3>4, <3>5
  <2>5. QED
    BY <1>6, <1>7, <2>3, <2>4 DEF Targets
<1>15. QED
  BY <1>13, <1>14

\* A failure that a round finds joins the pending failure round, or gets one.
LEMMA AddedFailures ==
    ASSUME NEW rest, NEW nodes \in SUBSET Names, nodes # {},
           rest = <<>> \/ \E g \in Scope : rest = <<g>> /\ FailureRound(g),
           NEW s, s = AddFailureConfirmation(rest, nodes)
    PROVE  \E h \in Scope : /\ s = <<h>> /\ FailureRound(h)
                            /\ h.failures = Pending(rest) \cup nodes
<1>1. CASE rest = <<>>
  <2>1. PICK h : h = FailureScope(nodes)
    OBVIOUS
  <2>2. h \in Scope /\ FailureRound(h) /\ h.failures = nodes
    BY <2>1 DEF FailureScope, Scope, FailureRound
  <2>3. {i \in DOMAIN rest : rest[i].failures # {}} = {} /\ Pending(rest) = {}
    BY <1>1 DEF Pending
  <2>4. s = Append(rest, h)
    BY <2>1, <2>3 DEF AddFailureConfirmation
  <2>5. s = <<h>>
    BY <1>1, <2>2, <2>4, RoundSequences
  <2>6. QED
    BY <2>2, <2>3, <2>5
<1>2. CASE rest # <<>>
  <2>1. PICK g \in Scope : rest = <<g>> /\ FailureRound(g)
    BY <1>2
  <2>2. PICK h : h = [g EXCEPT !.failures = @ \cup nodes]
    OBVIOUS
  <2>3. h \in Scope /\ FailureRound(h) /\ h.failures = g.failures \cup nodes
    BY <2>1, <2>2 DEF Scope, FailureRound
  <2>4. DOMAIN rest = {1} /\ rest[1] = g /\ g.failures # {}
    BY <2>1 DEF FailureRound
  <2>5. {i \in DOMAIN rest : rest[i].failures # {}} = {1}
    BY <2>4
  <2>6. s = [i \in {1} |-> IF i \in {1} /\ \A j \in {1} : i <= j
                          THEN [rest[i] EXCEPT !.failures = @ \cup nodes] ELSE rest[i]]
    BY <2>4, <2>5, Zenon DEF AddFailureConfirmation
  <2>7. [rest[1] EXCEPT !.failures = @ \cup nodes] = h
    BY <2>2, <2>4
  <2>8. \A i \in {1} : (IF i \in {1} /\ \A j \in {1} : i <= j
                       THEN [rest[i] EXCEPT !.failures = @ \cup nodes] ELSE rest[i]) = h
    BY <2>7
  <2>9. s = <<h>>
    <3>1. DOMAIN s = 1..1 /\ s[1] = h
      BY <2>6, <2>8
    <3>2. PICK u : u = <<h>>
      OBVIOUS
    <3>3. u \in Seq(Scope) /\ Len(u) = 1 /\ u[1] = h
      BY <2>3, <3>2
    <3>4. 1..1 = {1} /\ s = [i \in {1} |-> s[i]]
      BY <2>6
    <3>5. \A i \in 1..1 : s[i] = h
      BY <3>1
    <3>6. s \in [1..1 -> Scope]
      BY <2>3, <3>4, <3>5
    <3>7. s \in Seq(Scope) /\ Len(s) = 1
      <4>1. PICK n \in Nat : n = 1
        OBVIOUS
      <4>2. s \in [1..n -> Scope]
        BY <3>6, <4>1
      <4>3. s \in Seq(Scope) /\ Len(s) = n
        BY <4>2, SeqDef
      <4>4. QED
        BY <4>1, <4>3
    <3>8. s = u
      BY <3>1, <3>3, <3>5, <3>7, SeqEqual
    <3>9. QED
      BY <3>2, <3>8
  <2>10. QED
    BY <2>1, <2>3, <2>9, RoundSequences
<1>3. QED
  BY <1>1, <1>2

\* The schedule s less its first round, with a round for the failures nodes, is t.
AfterRound(s, nodes, t) ==
    /\ Head(s) \in Scope /\ (FullRound(Head(s)) \/ FastRound(Head(s)) \/ FailureRound(Head(s)))
    /\ Head(s).full => Tail(s) = <<>>
    /\ Aims(s) = Targets(Head(s)) \cup Aims(Tail(s))
    /\ Pending(s) = Head(s).failures \cup Pending(Tail(s))
    /\ Targets(Head(s)) \cap Aims(Tail(s)) = {}
    /\ t \in Seq(Scope) /\ Rounds(t)
    /\ Aims(t) = Aims(Tail(s)) \cup nodes /\ Pending(t) = Pending(Tail(s)) \cup nodes
    /\ t # <<>> => ~Head(t).full

\* What is left of a schedule after its first round, which found failures in nodes.
LEMMA ScheduleAfterRound ==
    ASSUME NEW s, Rounds(s), s # <<>>, NEW nodes \in SUBSET Names,
           nodes # {} => Head(s).failures = {},
           NEW t, t = IF nodes = {} THEN Tail(s) ELSE AddFailureConfirmation(Tail(s), nodes)
    PROVE  AfterRound(s, nodes, t)
<1>1. PICK item : item = Head(s)
  OBVIOUS
<1>2. PICK rest : rest = Tail(s)
  OBVIOUS
<1>3. /\ item \in Scope /\ (FullRound(item) \/ FastRound(item) \/ FailureRound(item))
      /\ \/ s = <<item>> /\ rest = <<>>
         \/ \E g \in Scope : /\ s = <<item, g>> /\ rest = <<g>> /\ Targets(item) \cap Targets(g) = {}
                             /\ \/ FastRound(item) /\ FailureRound(g)
                                \/ FailureRound(item) /\ FastRound(g)
  <2>1. CASE \E f \in Scope : s = <<f>> /\ (FullRound(f) \/ FastRound(f) \/ FailureRound(f))
    BY <1>1, <1>2, <2>1, RoundSequences
  <2>2. CASE \E f, g \in Scope : /\ s = <<f, g>> /\ Targets(f) \cap Targets(g) = {}
                                 /\ \/ FastRound(f) /\ FailureRound(g)
                                    \/ FailureRound(f) /\ FastRound(g)
    <3>1. PICK f \in Scope, g \in Scope : /\ s = <<f, g>> /\ Targets(f) \cap Targets(g) = {}
                                 /\ \/ FastRound(f) /\ FailureRound(g)
                                    \/ FailureRound(f) /\ FastRound(g)
      BY <2>2
    <3>2. item = f /\ rest = <<g>>
      BY <1>1, <1>2, <3>1, RoundSequences
    <3>3. QED
      BY <3>1, <3>2
  <2>3. QED
    BY <2>1, <2>2 DEF Rounds
<1>4. /\ Aims(s) = Targets(item) \cup Aims(rest) /\ Pending(s) = item.failures \cup Pending(rest)
      /\ Targets(item) \cap Aims(rest) = {} /\ rest \in Seq(Scope) /\ Rounds(rest)
      /\ item.full => rest = <<>>
      /\ rest # <<>> => ~Head(rest).full
  <2>1. CASE s = <<item>> /\ rest = <<>>
    BY <1>3, <2>1, RoundSequences DEF Rounds
  <2>2. CASE ~(s = <<item>> /\ rest = <<>>)
    <3>1. PICK g \in Scope : /\ s = <<item, g>> /\ rest = <<g>> /\ Targets(item) \cap Targets(g) = {}
                             /\ \/ FastRound(item) /\ FailureRound(g)
                                \/ FailureRound(item) /\ FastRound(g)
      BY <1>3, <2>2
    <3>2. /\ Aims(s) = Targets(item) \cup Targets(g) /\ Aims(rest) = Targets(g)
          /\ Pending(s) = item.failures \cup g.failures /\ Pending(rest) = g.failures
          /\ Head(rest) = g /\ rest \in Seq(Scope)
      BY <1>3, <3>1, RoundSequences
    <3>3. Rounds(rest)
      BY <3>1 DEF Rounds
    <3>4. ~item.full /\ ~g.full
      BY <3>1 DEF FastRound, FailureRound
    <3>5. QED
      BY <3>1, <3>2, <3>3, <3>4
  <2>3. QED
    BY <2>1, <2>2
<1>5. CASE nodes = {}
  BY <1>1, <1>2, <1>3, <1>4, <1>5 DEF AfterRound
<1>6. CASE nodes # {}
  <2>1. item.failures = {} /\ t = AddFailureConfirmation(rest, nodes)
    BY <1>1, <1>2, <1>6
  <2>2. rest = <<>> \/ \E g \in Scope : rest = <<g>> /\ FailureRound(g)
    BY <1>3, <2>1 DEF FailureRound
  <2>3. PICK h \in Scope : t = <<h>> /\ FailureRound(h) /\ h.failures = Pending(rest) \cup nodes
    BY <1>6, <2>1, <2>2, AddedFailures
  <2>4. Aims(rest) = Pending(rest)
    <3>1. CASE rest = <<>>
      BY <1>3, <3>1, RoundSequences
    <3>2. CASE \E g \in Scope : rest = <<g>> /\ FailureRound(g)
      <4>1. PICK g \in Scope : rest = <<g>> /\ FailureRound(g)
        BY <3>2
      <4>2. Aims(rest) = Targets(g) /\ Pending(rest) = g.failures
        BY <4>1, RoundSequences
      <4>3. QED
        BY <4>1, <4>2 DEF FailureRound, Targets
    <3>3. QED
      BY <2>2, <3>1, <3>2
  <2>5. /\ Aims(t) = Pending(rest) \cup nodes /\ Pending(t) = Pending(rest) \cup nodes
        /\ t \in Seq(Scope) /\ Head(t) = h /\ ~h.full
    BY <2>3, RoundSequences DEF FailureRound, Targets
  <2>6. Rounds(t)
    BY <2>3 DEF Rounds
  <2>7. QED
    BY <1>1, <1>2, <1>3, <1>4, <2>4, <2>5, <2>6 DEF AfterRound
<1>7. QED
  BY <1>5, <1>6

-----------------------------------------------------------------------------
(* The actions *)

\* A step after which what is published, the schedule and the confirmations are in order.
LEMMA StepInOrder ==
    ASSUME PublishedInv', ScheduleInv', ConfirmationInv',
           schedule' \in Seq(Scope), cancelled' \in BOOLEAN, rechecked' \in [Names -> 0..2],
           \A n \in Names : rechecked'[n] <= 1
    PROVE  IInv'
<1>1. TypeOK'
  BY DEF TypeOK, PublishedInv
<1>2. FailuresAreConfirmedOnce'
  <2>1. schedule' = <<>> => Pending(schedule)' = {}
    BY DEF Pending
  <2>2. QED
    BY <2>1 DEF ConfirmationInv, FailuresAreConfirmedOnce
<1>3. QED
  BY <1>1, <1>2 DEF IInv

\* A collection of all nodes publishes its result and plans the confirmations.
LEMMA CollectStep ==
    ASSUME IInv, Collect
    PROVE  IInv'
<1>1. PICK r \in FullResults, failureFirst \in BOOLEAN :
         /\ PublishFull(r)
         /\ schedule' = ConfirmationSchedule(ConfirmationScopeFor(r), failureFirst)
  BY DEF Collect
<1>2. /\ PublishedInv' /\ status' # None
      /\ r.failures \cup r.busy \subseteq known'
      /\ \A n \in Names : status'.errors[n] = "node" => n \in r.failures
  BY <1>1, PublishFullStep DEF IInv
<1>3. PICK s : s = schedule'
  OBVIOUS
<1>4. /\ s \in Seq(Scope) /\ Rounds(s)
      /\ Aims(s) \subseteq r.failures \cup r.busy
      /\ Pending(s) = r.failures
  BY <1>1, <1>3, ScheduleOfCollection
<1>5. /\ rechecked' \in [Names -> 0..2] /\ cancelled' \in BOOLEAN
      /\ \A n \in Names : rechecked'[n] = 0
  BY DEF Collect, IInv, TypeOK
<1>6. Aims(s) \subseteq Names
  BY <1>2, <1>4 DEF PublishedInv
<1>7. ScheduleInv'
  <2>1. Rounds(s)' /\ Aims(s)' = Aims(s)
    BY <1>4 DEF Aims, Rounds, Targets, FullRound, FastRound, FailureRound
  <2>2. QED
    BY <1>2, <1>3, <1>4, <1>5, <1>6, <2>1 DEF ScheduleInv
<1>8. ConfirmationInv'
  <2>1. Pending(s)' = Pending(s)
    BY DEF Pending
  <2>2. QED
    BY <1>2, <1>3, <1>4, <2>1 DEF ConfirmationInv
<1>9. QED
  BY <1>2, <1>3, <1>4, <1>5, <1>7, <1>8, StepInOrder

\* A round publishes its result and confirms the failures it was for; failures that another round
\* found get a round of their own.
LEMMA RoundStep ==
    ASSUME IInv, Round
    PROVE  IInv'
<1>1. PICK item : item = Head(schedule)
  OBVIOUS
<1>2. PICK r \in RoundResults(item) :
         /\ IF item.full THEN PublishFull(r) ELSE ApplySelectedConfirmation(item, r)
         /\ schedule' = IF Unconfirmed(item, r) = {} THEN Tail(schedule)
                        ELSE AddFailureConfirmation(Tail(schedule), Unconfirmed(item, r))
  BY <1>1 DEF Round
<1>3. PICK nodes : nodes = Unconfirmed(item, r)
  OBVIOUS
<1>4. PICK rest : rest = Tail(schedule)
  OBVIOUS
<1>5. PICK t : t = schedule'
  OBVIOUS
<1>6. /\ schedule # <<>> /\ ~cancelled /\ cancelled' = cancelled
      /\ rechecked' = [n \in Names |-> IF n \in item.failures THEN Count(rechecked[n]) ELSE rechecked[n]]
  BY <1>1 DEF Round
<1>7. /\ PublishedInv /\ status # None /\ Rounds(schedule) /\ Aims(schedule) \subseteq known /\ known \subseteq Names
      /\ \A n \in Aims(schedule) : rechecked[n] = 0
      /\ item.full => \A n \in Names : rechecked[n] = 0
      /\ \A n \in Names : rechecked[n] \in 0..1
      /\ rechecked \in [Names -> 0..2]
  BY <1>1, <1>6 DEF IInv, TypeOK, ScheduleInv, PublishedInv, FailuresAreConfirmedOnce
<1>8. item \in Scope /\ (FullRound(item) \/ FastRound(item) \/ FailureRound(item))
  <2>1. PICK none : none = {}
    OBVIOUS
  <2>2. PICK u : u = IF none = {} THEN Tail(schedule) ELSE AddFailureConfirmation(Tail(schedule), none)
    OBVIOUS
  <2>3. none \in SUBSET Names
    BY <2>1
  <2>4. none # {} => Head(schedule).failures = {}
    BY <2>1
  <2>5. Rounds(schedule)
    BY <1>7
  <2>6. schedule # <<>>
    BY <1>6
  <2>7. AfterRound(schedule, none, u)
    BY <2>2, <2>3, <2>4, <2>5, <2>6, ScheduleAfterRound
  <2>8. QED
    BY <1>1, <2>7 DEF AfterRound
<1>9. /\ item.full \in BOOLEAN /\ item.host \in BOOLEAN
      /\ item.failures \subseteq Names /\ item.busy \subseteq Nodes
  BY <1>8 DEF Scope
<1>10. r \in FullResults \/ (~item.full /\ r \in SelectedResults(item.failures \cup item.busy, item.host))
  BY <1>9 DEF RoundResults
<1>11. ResultOK(r) /\ r.failures \subseteq Names
  <2>1. CASE r \in FullResults
    BY <2>1, FullResult DEF ResultOK
  <2>2. CASE r \in SelectedResults(item.failures \cup item.busy, item.host)
    <3>1. PICK names : names = item.failures \cup item.busy
      OBVIOUS
    <3>2. names \in SUBSET Names
      BY <1>9, <3>1 DEF Names
    <3>3. r \in SelectedResults(names, item.host)
      BY <2>2, <3>1
    <3>4. QED
      BY <3>2, <3>3, SelectedResult DEF ResultOK
  <2>3. QED
    BY <1>10, <2>1, <2>2
<1>12. nodes \in SUBSET Names /\ (nodes # {} => item.failures = {}) /\ (item.failures = {} => nodes = r.failures)
  BY <1>3, <1>11 DEF Unconfirmed
<1>13. /\ item.full => rest = <<>>
       /\ Aims(schedule) = Targets(item) \cup Aims(rest)
       /\ Pending(schedule) = item.failures \cup Pending(rest)
       /\ Targets(item) \cap Aims(rest) = {}
       /\ t \in Seq(Scope) /\ Rounds(t)
       /\ Aims(t) = Aims(rest) \cup nodes /\ Pending(t) = Pending(rest) \cup nodes
       /\ t # <<>> => ~Head(t).full
  <2>1. t = IF nodes = {} THEN Tail(schedule) ELSE AddFailureConfirmation(Tail(schedule), nodes)
    BY <1>2, <1>3, <1>5
  <2>2. nodes # {} => Head(schedule).failures = {}
    BY <1>1, <1>12
  <2>3. Rounds(schedule)
    BY <1>7
  <2>4. schedule # <<>>
    BY <1>6
  <2>5. nodes \in SUBSET Names
    BY <1>12
  <2>6. AfterRound(schedule, nodes, t)
    BY <2>1, <2>2, <2>3, <2>4, <2>5, ScheduleAfterRound
  <2>7. QED
    BY <1>1, <1>4, <2>6 DEF AfterRound
<1>14. /\ rechecked' \in [Names -> 0..2]
       /\ \A n \in Names : rechecked'[n] <= 1
       /\ \A n \in item.failures : rechecked'[n] = 1
       /\ \A n \in Names : n \notin item.failures => rechecked'[n] = rechecked[n]
  <2>1. \A n \in item.failures : n \in Aims(schedule) /\ rechecked[n] = 0 /\ Count(rechecked[n]) = 1
    BY <1>7, <1>13 DEF Targets, Count
  <2>2. QED
    BY <1>6, <1>7, <1>9, <2>1
<1>15. ASSUME item.full
       PROVE  /\ PublishedInv' /\ status' # None
              /\ Aims(t) \subseteq known' /\ \A n \in Aims(t) : rechecked'[n] = 0
              /\ \A n \in Names : status'.errors[n] = "node" => (rechecked'[n] = 1 \/ n \in Pending(t))
  <2>1. /\ PublishedInv' /\ status' # None /\ r.failures \subseteq known'
        /\ \A n \in Names : status'.errors[n] = "node" => n \in r.failures
    <3>1. r \in FullResults /\ PublishFull(r)
      BY <1>2, <1>15 DEF RoundResults
    <3>2. QED
      BY <1>7, <3>1, PublishFullStep
  <2>2. item.failures = {} /\ nodes = r.failures /\ Aims(rest) = {} /\ Pending(rest) = {}
    BY <1>8, <1>12, <1>13, <1>15 DEF FullRound, FastRound, FailureRound, Aims, Pending
  <2>3. Aims(t) \subseteq known' /\ \A n \in Aims(t) : rechecked'[n] = 0
    BY <1>7, <1>11, <1>13, <1>14, <1>15, <2>1, <2>2
  <2>4. \A n \in Names : status'.errors[n] = "node" => n \in Pending(t)
    BY <1>13, <2>1, <2>2
  <2>5. QED
    BY <2>1, <2>3, <2>4
<1>16. ASSUME ~item.full
       PROVE  /\ PublishedInv' /\ status' # None
              /\ Aims(t) \subseteq known' /\ \A n \in Aims(t) : rechecked'[n] = 0
              /\ \A n \in Names : status'.errors[n] = "node" => (rechecked'[n] = 1 \/ n \in Pending(t))
  <2>1. /\ PublishedInv' /\ status' # None /\ known' = known
        /\ \A n \in Names : status'.errors[n] = "node" =>
              status.errors[n] = "node" \/ n \in Targets(item) \cap r.failures
    <3>1. r \in SelectedResults(item.failures \cup item.busy, item.host) /\ ApplySelectedConfirmation(item, r)
      BY <1>2, <1>16 DEF RoundResults
    <3>2. Targets(item) \subseteq known
      BY <1>7, <1>13
    <3>3. QED
      BY <1>7, <1>8, <3>1, <3>2, ApplyStep
  <2>2. nodes \subseteq Targets(item) /\ (nodes # {} => item.failures = {})
    <3>1. CASE item.failures = {}
      <4>1. PICK names : names = item.failures \cup item.busy
        OBVIOUS
      <4>2. names \in SUBSET Names /\ names \subseteq Nodes /\ names = Targets(item)
        BY <1>9, <3>1, <4>1 DEF Names, Targets
      <4>3. r \in SelectedResults(names, item.host)
        BY <1>16, <4>1 DEF RoundResults
      <4>4. QED
        BY <1>12, <3>1, <4>2, <4>3, SelectedResult
    <3>2. CASE item.failures # {}
      BY <1>12, <3>2
    <3>3. QED
      BY <3>1, <3>2
  <2>3. Aims(t) \subseteq known' /\ \A n \in Aims(t) : rechecked'[n] = 0
    <3>1. Aims(t) \subseteq Aims(schedule)
      BY <1>13, <2>2
    <3>2. Aims(t) \cap item.failures = {}
      BY <1>13, <2>2 DEF Targets
    <3>3. QED
      BY <1>7, <1>14, <2>1, <3>1, <3>2
  <2>4. ASSUME NEW n \in Names, status'.errors[n] = "node" PROVE rechecked'[n] = 1 \/ n \in Pending(t)
    <3>1. CASE n \in item.failures
      BY <1>14, <3>1
    <3>2. CASE n \notin item.failures /\ status.errors[n] = "node"
      <4>1. rechecked[n] = 1 \/ n \in Pending(schedule)
        BY <1>6, <1>7, <3>2 DEF IInv, ConfirmationInv
      <4>2. QED
        BY <1>13, <1>14, <3>2, <4>1
    <3>3. CASE n \notin item.failures /\ status.errors[n] # "node"
      <4>1. n \in item.busy /\ n \in r.failures
        BY <2>1, <2>4, <3>3 DEF Targets
      <4>2. item.failures = {}
        BY <1>8, <1>16, <4>1 DEF FastRound, FailureRound, FullRound
      <4>3. QED
        BY <1>12, <1>13, <4>1, <4>2
    <3>4. QED
      BY <3>1, <3>2, <3>3
  <2>5. QED
    BY <2>1, <2>3, <2>4
<1>17. /\ PublishedInv' /\ status' # None
       /\ Aims(t) \subseteq known' /\ \A n \in Aims(t) : rechecked'[n] = 0
       /\ \A n \in Names : status'.errors[n] = "node" => (rechecked'[n] = 1 \/ n \in Pending(t))
  BY <1>9, <1>15, <1>16
<1>18. ScheduleInv'
  <2>1. Rounds(t)' /\ Aims(t)' = Aims(t)
    BY <1>13 DEF Aims, Rounds, Targets, FullRound, FastRound, FailureRound
  <2>2. QED
    BY <1>5, <1>13, <1>17, <2>1 DEF ScheduleInv
<1>19. ConfirmationInv'
  <2>1. Pending(t)' = Pending(t)
    BY DEF Pending
  <2>2. QED
    BY <1>5, <1>17, <2>1 DEF ConfirmationInv
<1>20. cancelled' \in BOOLEAN /\ schedule' \in Seq(Scope)
  BY <1>5, <1>6, <1>13 DEF IInv, TypeOK
<1>21. QED
  BY <1>14, <1>17, <1>18, <1>19, <1>20, StepInOrder

\* The remaining rounds are given up.
LEMMA AbandonStep ==
    ASSUME IInv, AbandonConfirmation
    PROVE  IInv'
<1>1. /\ cancelled /\ schedule' = <<>>
      /\ UNCHANGED <<nodeUp, serverUp, hostUp, known, status, cancelled, rechecked, total>>
  BY DEF AbandonConfirmation
<1>2. PublishedInv'
  BY <1>1 DEF IInv, PublishedInv, KnownInv, StatusInv, SeriesAgreeWithStatus, NodesAreConserved
<1>3. ScheduleInv'
  BY <1>1 DEF ScheduleInv, Rounds, Aims
<1>4. ConfirmationInv'
  BY <1>1 DEF ConfirmationInv
<1>5. /\ schedule' \in Seq(Scope) /\ cancelled' \in BOOLEAN /\ rechecked' \in [Names -> 0..2]
      /\ \A n \in Names : rechecked'[n] <= 1
  BY <1>1 DEF IInv, TypeOK, FailuresAreConfirmedOnce
<1>6. QED
  BY <1>2, <1>3, <1>4, <1>5, StepInOrder

\* The context of the goroutine is cancelled, or nothing changes.
LEMMA CancelStep ==
    ASSUME IInv, Cancel \/ UNCHANGED vars
    PROVE  IInv'
<1>1. /\ cancelled' \in BOOLEAN /\ (cancelled => cancelled')
      /\ UNCHANGED <<nodeUp, serverUp, hostUp, known, status, schedule, rechecked, total>>
  BY DEF Cancel, vars, IInv, TypeOK
<1>2. PublishedInv'
  BY <1>1 DEF IInv, PublishedInv, KnownInv, StatusInv, SeriesAgreeWithStatus, NodesAreConserved
<1>3. PICK s : s = schedule
  OBVIOUS
<1>4. ScheduleInv'
  <2>1. Rounds(s)' = Rounds(s) /\ Aims(s)' = Aims(s)
    BY DEF Aims, Rounds, Targets, FullRound, FastRound, FailureRound
  <2>2. QED
    BY <1>1, <1>3, <2>1 DEF IInv, ScheduleInv
<1>5. ConfirmationInv'
  <2>1. Pending(s)' = Pending(s)
    BY DEF Pending
  <2>2. QED
    BY <1>1, <1>3, <2>1 DEF IInv, ConfirmationInv
<1>6. /\ schedule' \in Seq(Scope) /\ rechecked' \in [Names -> 0..2]
      /\ \A n \in Names : rechecked'[n] <= 1
  BY <1>1 DEF IInv, TypeOK, FailuresAreConfirmedOnce
<1>7. QED
  BY <1>1, <1>2, <1>4, <1>5, <1>6, StepInOrder

\* The state of the server is deleted: as at the start.
LEMMA DeleteStep ==
    ASSUME IInv, DeleteServerState
    PROVE  IInv'
<1>1. /\ nodeUp' = [n \in Names |-> "none"] /\ serverUp' = "none" /\ hostUp' = "none"
      /\ known' = {} /\ status' = None /\ cancelled' = FALSE /\ schedule = <<>> /\ schedule' = <<>>
      /\ rechecked' = [n \in Names |-> 0] /\ total' = 0
  BY DEF DeleteServerState
<1>2. PublishedInv'
  <2>1. \A d \in Dirs : nodeUp'[d] = "none"
    BY <1>1 DEF Names
  <2>2. SeriesAgreeWithStatus'
    BY <1>1, <2>1 DEF SeriesAgreeWithStatus
  <2>3. QED
    BY <1>1, <2>2 DEF PublishedInv, KnownInv, StatusInv, NodesAreConserved, Series
<1>3. ScheduleInv' /\ ConfirmationInv'
  BY <1>1 DEF ScheduleInv, Rounds, Aims, ConfirmationInv
<1>4. /\ schedule' \in Seq(Scope) /\ cancelled' \in BOOLEAN /\ rechecked' \in [Names -> 0..2]
      /\ \A n \in Names : rechecked'[n] <= 1
  <2>1. PICK scopes : scopes = Scope
    OBVIOUS
  <2>2. schedule' \in Seq(scopes)
    BY <1>1
  <2>3. rechecked' \in [Names -> 0..2] /\ \A n \in Names : rechecked'[n] <= 1
    BY <1>1
  <2>4. QED
    BY <1>1, <2>1, <2>2, <2>3
<1>5. QED
  BY <1>2, <1>3, <1>4, StepInOrder

-----------------------------------------------------------------------------
(* The inductive invariant *)

LEMMA InitHolds == Init => IInv
<1> SUFFICES ASSUME Init PROVE IInv
  OBVIOUS
<1> USE DEF Init
<1>1. \A d \in Dirs : nodeUp[d] = "none"
  BY DEF Names
<1>2. SeriesAgreeWithStatus
  BY <1>1 DEF SeriesAgreeWithStatus
<1>3. PublishedInv
  BY <1>2 DEF PublishedInv, KnownInv, StatusInv, NodesAreConserved, Series
<1>4. ScheduleInv /\ ConfirmationInv
  BY DEF ScheduleInv, Rounds, Aims, ConfirmationInv
<1>5. TypeOK
  <2>1. PICK scopes : scopes = Scope
    OBVIOUS
  <2>2. schedule \in Seq(scopes)
    OBVIOUS
  <2>3. rechecked \in [Names -> 0..2]
    OBVIOUS
  <2>4. QED
    BY <1>3, <2>1, <2>2, <2>3 DEF TypeOK, PublishedInv
<1>6. FailuresAreConfirmedOnce
  BY DEF FailuresAreConfirmedOnce
<1>7. QED
  BY <1>3, <1>4, <1>5, <1>6 DEF IInv

\* Everything the theorems below say of the states of one server's goroutine.
THEOREM NodeStatusInductive == Spec => []IInv
<1>1. IInv /\ [Next]_vars => IInv'
  <2>1. SUFFICES ASSUME IInv, [Next]_vars PROVE IInv'
    OBVIOUS
  <2>2. QED
    BY <2>1, CollectStep, RoundStep, AbandonStep, CancelStep, DeleteStep DEF Next
<1>2. QED
  BY <1>1, InitHolds, PTL DEF Spec

\* Every state of the goroutine has its type.
THEOREM NodeStatusTypeCorrect == Spec => []TypeOK
<1>1. IInv => TypeOK
  BY DEF IInv
<1>2. QED
  BY <1>1, NodeStatusInductive, PTL

\* Whatever collections and confirmations report, the series and the status of a server tell the
\* same: alerts and the node table never contradict each other.
THEOREM SeriesTellTheStatus == Spec => []SeriesAgreeWithStatus
<1>1. IInv => SeriesAgreeWithStatus
  BY DEF IInv, PublishedInv
<1>2. QED
  BY <1>1, NodeStatusInductive, PTL

\* Confirmations move nodes between the counters of the status and never lose or invent one.
THEOREM CountersConserveNodes == Spec => []NodesAreConserved
<1>1. IInv => NodesAreConserved
  BY DEF IInv, PublishedInv
<1>2. QED
  BY <1>1, NodeStatusInductive, PTL

\* A failure is confirmed once after a collection, whichever round found it.
THEOREM OneConfirmationPerFailure == Spec => []FailuresAreConfirmedOnce
<1>1. IInv => FailuresAreConfirmedOnce
  BY DEF IInv
<1>2. QED
  BY <1>1, NodeStatusInductive, PTL
=============================================================================
