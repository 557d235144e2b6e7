---------------------------- MODULE PollerProofs ----------------------------
(***************************************************************************)
(* Proofs about the scheduler for any set of servers, clients, identities  *)
(* and settings and any bounds.  The inductive invariant IInv ties the     *)
(* registration of a worker (p.workers) to its goroutine, to the retiring  *)
(* half of ApplyConfig, to its mailbox and to the series it leaves behind. *)
(***************************************************************************)
EXTENDS Poller, TLAPS

\* Where ApplyConfig stands bounds what its work lists may hold.
ApplierInv ==
    /\ applier.changed \subseteq workers
    /\ applier.target # None => applier.pc = "reconcile" /\ applier.target \in applier.changed
    /\ applier.pc # "reconcile" => applier.changed = {}
    /\ applier.pc = "idle" => applier.retired = {}
    /\ \A s \in applier.retired : s \notin workers /\ ~Active(config[s])

\* A goroutine lives exactly while it is registered, or is being waited for;
\* a registered one only ends with the exporter.
GoroutineInv ==
    \A s \in Servers :
        /\ Running(s) => worker[s].server \in Entry
        /\ Running(s) => s \in workers \/ s \in applier.retired
        /\ s \in workers /\ ~down => Running(s) /\ Active(config[s])
        /\ applier.pc # "reconcile" /\ ~down => s \notin ToStart

\* Series belong to a registered server, or to one that is being retired.
SeriesInv ==
    \A s \in Servers :
        /\ series[s] # {} => s \in workers \/ s \in applier.retired

\* A goroutine that runs update or manual collections kept its timer, and a
\* select chosen by an outdated mode has not seen its timer set again.
TimerInv ==
    \A s \in Servers :
        /\ worker[s].pc = "collect" /\ worker[s].cause \in {"update", "manual"}
               => worker[s].timer # "off"
        /\ worker[s].pc = "select" /\ worker[s].mode /\ ~control[s].auto => ~rearmed[s]

IInv == /\ TypeOK /\ ApplierInv /\ GoroutineInv /\ SeriesInv /\ TimerInv
        /\ LatestConfigWins /\ QueueNeverBlocks /\ SeriesCarryOneIdentity /\ TimerSurvives

\* A collection ends and its results are published or discarded
\* (Poller.collectAndConfirm).
LEMMA FinishCollectStep ==
    ASSUME IInv, NEW s \in Servers, FinishCollect(s)
    PROVE  IInv'
<1> USE NoneAssumption DEF IInv
<1> DEFINE w == IF ResetsAfter(s) THEN [worker[s] EXCEPT !.timer = "armed", !.pc = "top"]
                   ELSE [worker[s] EXCEPT !.pc = "top"]
<1>1. worker[s] \in Worker
  BY DEF TypeOK
<1>2. /\ w \in Worker
      /\ w.pc = "top"
      /\ w.server = worker[s].server
      /\ w.timer # "off"
  BY <1>1 DEF TypeOK, Worker, TimerInv, ResetsAfter, FinishCollect, Causes
<1>3. /\ worker' = [worker EXCEPT ![s] = w]
      /\ worker[s].pc = "collect"
      /\ series' = [series EXCEPT ![s] = @ \cup {worker[s].server.ident}]
      /\ rearmed' \in [Servers -> BOOLEAN]
      /\ \A t \in Servers \ {s} : rearmed'[t] = rearmed[t]
      /\ UNCHANGED <<config, control, workers, update, applier, client, down, applies, requests>>
  BY DEF FinishCollect, ResetTimer, KeepTimer, TypeOK
<1> HIDE DEF w
<1>4. /\ worker' \in [Servers -> Worker]
      /\ worker'[s] = w
      /\ \A t \in Servers \ {s} : worker'[t] = worker[t]
  BY <1>2, <1>3 DEF TypeOK
<1>5. worker[s].server \in Entry
  BY <1>3 DEF GoroutineInv, Running
<1>6. TypeOK'
  BY <1>2, <1>3, <1>4, <1>5 DEF TypeOK, Entry
<1>7. ApplierInv'
  BY <1>2, <1>3, <1>4, <1>5 DEF ApplierInv, Active, TypeOK
<1>8. GoroutineInv'
  BY <1>2, <1>3, <1>4, <1>5 DEF GoroutineInv, Running, ToStart, Active, TypeOK
<1>9. SeriesInv'
  BY <1>2, <1>3, <1>4, <1>5 DEF SeriesInv, GoroutineInv, Running, TypeOK
<1>10. TimerInv'
  BY <1>2, <1>3, <1>4, <1>5 DEF TimerInv, TypeOK
<1>11. LatestConfigWins'
  BY <1>2, <1>3, <1>4, <1>5 DEF LatestConfigWins, Mailbox, TypeOK
<1>12. QueueNeverBlocks'
  BY <1>2, <1>3, <1>4, <1>5 DEF QueueNeverBlocks, TypeOK
<1>13. SeriesCarryOneIdentity'
  BY <1>2, <1>3, <1>4, <1>5 DEF SeriesCarryOneIdentity, Running, TypeOK
<1>14. TimerSurvives'
  BY <1>2, <1>3, <1>4, <1>5 DEF TimerSurvives, TypeOK
<1>15. QED
  BY <1>6, <1>7, <1>8, <1>9, <1>10, <1>11, <1>12, <1>13, <1>14

\* The top of runServer's loop re-arms the timer, or leaves it off.
LEMMA LoopTopStep ==
    ASSUME IInv, NEW s \in Servers, LoopTop(s)
    PROVE  IInv'
<1> USE NoneAssumption DEF IInv
<1> DEFINE w == [worker[s] EXCEPT !.pc = "select", !.mode = control[s].auto]
<1>1. worker[s] \in Worker
  BY DEF TypeOK
<1>2. /\ w \in Worker
      /\ w.pc = "select"
      /\ w.server = worker[s].server
      /\ w.timer = worker[s].timer
      /\ w.mode = control[s].auto
  BY <1>1 DEF TypeOK, Worker, Control
<1>3. /\ worker' = [worker EXCEPT ![s] = w]
      /\ worker[s].pc = "top"
      /\ UNCHANGED <<config, control, workers, update, applier, series, client, down, rearmed, applies, requests>>
  BY DEF LoopTop
<1> HIDE DEF w
<1>4. /\ worker' \in [Servers -> Worker]
      /\ worker'[s] = w
      /\ \A t \in Servers \ {s} : worker'[t] = worker[t]
  BY <1>2, <1>3 DEF TypeOK
<1>5. TypeOK'
  BY <1>2, <1>3, <1>4 DEF TypeOK
<1>6. ApplierInv'
  BY <1>2, <1>3, <1>4 DEF ApplierInv, Active, TypeOK
<1>7. GoroutineInv'
  BY <1>2, <1>3, <1>4 DEF GoroutineInv, Running, ToStart, Active, TypeOK
<1>8. SeriesInv'
  BY <1>2, <1>3, <1>4 DEF SeriesInv, TypeOK
<1>9. TimerInv'
  BY <1>2, <1>3, <1>4 DEF TimerInv, TypeOK
<1>10. LatestConfigWins'
  BY <1>2, <1>3, <1>4 DEF LatestConfigWins, Mailbox, TypeOK
<1>11. QueueNeverBlocks'
  BY <1>2, <1>3, <1>4 DEF QueueNeverBlocks, TypeOK
<1>12. SeriesCarryOneIdentity'
  BY <1>2, <1>3, <1>4 DEF SeriesCarryOneIdentity, Running, TypeOK
<1>13. TimerSurvives'
  BY <1>2, <1>3, <1>4 DEF TimerSurvives, TypeOK
<1>14. QED
  BY <1>5, <1>6, <1>7, <1>8, <1>9, <1>10, <1>11, <1>12, <1>13

\* The select takes the cancelled context: the goroutine ends.
LEMMA SelectDoneStep ==
    ASSUME IInv, NEW s \in Servers, SelectDone(s)
    PROVE  IInv'
<1> USE NoneAssumption DEF IInv
<1> DEFINE w == NoWorker
<1>1. worker[s] \in Worker
  BY DEF TypeOK
<1>2. /\ w \in Worker
      /\ w.pc = "off"
  BY <1>1 DEF TypeOK, Worker, NoWorker, Causes
<1>3. /\ worker' = [worker EXCEPT ![s] = w]
      /\ worker[s].pc = "select"
      /\ Cancelled(s)
      /\ UNCHANGED <<config, control, workers, update, applier, series, client, down, rearmed, applies, requests>>
  BY DEF SelectDone
<1> HIDE DEF w
<1>4. /\ worker' \in [Servers -> Worker]
      /\ worker'[s] = w
      /\ \A t \in Servers \ {s} : worker'[t] = worker[t]
  BY <1>2, <1>3 DEF TypeOK
<1>5. TypeOK'
  BY <1>2, <1>3, <1>4 DEF TypeOK
<1>6. ApplierInv'
  BY <1>2, <1>3, <1>4 DEF ApplierInv, Active, Cancelled, TypeOK
<1>7. GoroutineInv'
  BY <1>2, <1>3, <1>4 DEF GoroutineInv, Running, ToStart, Active, Cancelled, TypeOK
<1>8. SeriesInv'
  BY <1>2, <1>3, <1>4 DEF SeriesInv, Cancelled, TypeOK
<1>9. TimerInv'
  BY <1>2, <1>3, <1>4 DEF TimerInv, Cancelled, TypeOK
<1>10. LatestConfigWins'
  BY <1>2, <1>3, <1>4 DEF LatestConfigWins, Mailbox, Cancelled, TypeOK
<1>11. QueueNeverBlocks'
  BY <1>2, <1>3, <1>4 DEF QueueNeverBlocks, Cancelled, TypeOK
<1>12. SeriesCarryOneIdentity'
  BY <1>2, <1>3, <1>4 DEF SeriesCarryOneIdentity, Running, Cancelled, TypeOK
<1>13. TimerSurvives'
  BY <1>2, <1>3, <1>4 DEF TimerSurvives, Cancelled, TypeOK
<1>14. QED
  BY <1>5, <1>6, <1>7, <1>8, <1>9, <1>10, <1>11, <1>12, <1>13

\* The select takes a configuration from the worker's channel.
LEMMA SelectUpdateStep ==
    ASSUME IInv, NEW s \in Servers, SelectUpdate(s)
    PROVE  IInv'
<1> USE NoneAssumption DEF IInv
<1> DEFINE w == [Collecting(s, "update") EXCEPT !.server = update[s]]
<1>1. worker[s] \in Worker
  BY DEF TypeOK
<1>2. /\ w \in Worker
      /\ w.pc = "collect"
      /\ w.server = update[s]
      /\ w.timer = worker[s].timer
  BY <1>1 DEF TypeOK, Worker, SelectUpdate, Collecting, Causes
<1>3. /\ worker' = [worker EXCEPT ![s] = w]
      /\ worker[s].pc = "select"
      /\ update[s] # None
      /\ update[s] \in Entry
      /\ update' = [update EXCEPT ![s] = None]
      /\ series' = [series EXCEPT ![s] = IF worker[s].server.ident # update[s].ident THEN {} ELSE @]
      /\ UNCHANGED <<config, control, workers, applier, client, down, rearmed, applies, requests>>
  BY DEF SelectUpdate, TypeOK
<1> HIDE DEF w
<1>4. /\ worker' \in [Servers -> Worker]
      /\ worker'[s] = w
      /\ \A t \in Servers \ {s} : worker'[t] = worker[t]
  BY <1>2, <1>3 DEF TypeOK
<1>5. TypeOK'
  BY <1>2, <1>3, <1>4 DEF TypeOK
<1>6. ApplierInv'
  BY <1>2, <1>3, <1>4 DEF ApplierInv, Active, TypeOK
<1>7. GoroutineInv'
  BY <1>2, <1>3, <1>4 DEF GoroutineInv, Running, ToStart, Active, TypeOK
<1>8. SeriesInv'
  BY <1>2, <1>3, <1>4 DEF SeriesInv, TypeOK
<1>9. TimerInv'
  BY <1>2, <1>3, <1>4 DEF TimerInv, TimerSurvives, TypeOK
<1>10. LatestConfigWins'
  BY <1>2, <1>3, <1>4 DEF LatestConfigWins, Mailbox, TypeOK
<1>11. QueueNeverBlocks'
  BY <1>2, <1>3, <1>4 DEF QueueNeverBlocks, TypeOK
<1>12. SeriesCarryOneIdentity'
  BY <1>2, <1>3, <1>4 DEF SeriesCarryOneIdentity, Running, TypeOK
<1>13. TimerSurvives'
  BY <1>2, <1>3, <1>4 DEF TimerSurvives, TypeOK
<1>14. QED
  BY <1>5, <1>6, <1>7, <1>8, <1>9, <1>10, <1>11, <1>12, <1>13

\* The select takes the schedule-changed signal.
LEMMA SelectWakeStep ==
    ASSUME IInv, NEW s \in Servers, SelectWake(s)
    PROVE  IInv'
<1> USE NoneAssumption DEF IInv
<1> DEFINE w == IF worker[s].mode \/ control[s].auto
                   THEN [worker[s] EXCEPT !.timer = "armed", !.pc = "top"]
                   ELSE [worker[s] EXCEPT !.pc = "top"]
<1>1. worker[s] \in Worker
  BY DEF TypeOK
<1>2. /\ w \in Worker
      /\ w.pc = "top"
      /\ w.server = worker[s].server
      /\ w.timer # "off"
  BY <1>1 DEF TypeOK, Worker, TimerSurvives, SelectWake
<1>3. /\ worker' = [worker EXCEPT ![s] = w]
      /\ worker[s].pc = "select"
      /\ control' \in [Servers -> Control]
      /\ \A t \in Servers : control'[t].auto = control[t].auto
      /\ rearmed' \in [Servers -> BOOLEAN]
      /\ \A t \in Servers \ {s} : rearmed'[t] = rearmed[t]
      /\ UNCHANGED <<config, workers, update, applier, series, client, down, applies, requests>>
  <2>1. worker' = [worker EXCEPT ![s] = w] /\ worker[s].pc = "select"
    BY DEF SelectWake, ResetTimer, KeepTimer
  <2>2. rearmed' = [rearmed EXCEPT ![s] = TRUE] \/ rearmed' = rearmed
    BY DEF SelectWake, ResetTimer, KeepTimer
  <2>3. control' = [control EXCEPT ![s] = [control[s] EXCEPT !.wake = FALSE]]
    BY DEF SelectWake
  <2>4. control[s] \in Control /\ control \in [Servers -> Control] /\ rearmed \in [Servers -> BOOLEAN]
    BY DEF TypeOK
  <2>5. [control[s] EXCEPT !.wake = FALSE] \in Control /\ [control[s] EXCEPT !.wake = FALSE].auto = control[s].auto
    BY <2>4 DEF Control
  <2>6. control' \in [Servers -> Control] /\ \A t \in Servers : control'[t].auto = control[t].auto
    BY <2>3, <2>4, <2>5
  <2>7. rearmed' \in [Servers -> BOOLEAN] /\ \A t \in Servers \ {s} : rearmed'[t] = rearmed[t]
    BY <2>2, <2>4
  <2>8. UNCHANGED <<config, workers, update, applier, series, client, down, applies, requests>>
    BY DEF SelectWake
  <2>9. QED
    BY <2>1, <2>6, <2>7, <2>8
<1> HIDE DEF w
<1>4. /\ worker' \in [Servers -> Worker]
      /\ worker'[s] = w
      /\ \A t \in Servers \ {s} : worker'[t] = worker[t]
  BY <1>2, <1>3 DEF TypeOK
<1>5. TypeOK'
  BY <1>2, <1>3, <1>4 DEF TypeOK
<1>6. ApplierInv'
  BY <1>2, <1>3, <1>4 DEF ApplierInv, Active, TypeOK
<1>7. GoroutineInv'
  BY <1>2, <1>3, <1>4 DEF GoroutineInv, Running, ToStart, Active, TypeOK
<1>8. SeriesInv'
  BY <1>2, <1>3, <1>4 DEF SeriesInv, TypeOK
<1>9. TimerInv'
  BY <1>2, <1>3, <1>4 DEF TimerInv, TypeOK
<1>10. LatestConfigWins'
  BY <1>2, <1>3, <1>4 DEF LatestConfigWins, Mailbox, TypeOK
<1>11. QueueNeverBlocks'
  BY <1>2, <1>3, <1>4 DEF QueueNeverBlocks, TypeOK
<1>12. SeriesCarryOneIdentity'
  BY <1>2, <1>3, <1>4 DEF SeriesCarryOneIdentity, Running, TypeOK
<1>13. TimerSurvives'
  BY <1>2, <1>3, <1>4 DEF TimerSurvives, TypeOK
<1>14. QED
  BY <1>5, <1>6, <1>7, <1>8, <1>9, <1>10, <1>11, <1>12, <1>13

\* The select takes a request for one collection.
LEMMA SelectManualStep ==
    ASSUME IInv, NEW s \in Servers, SelectManual(s)
    PROVE  IInv'
<1> USE NoneAssumption DEF IInv
<1> DEFINE w == Collecting(s, "manual")
<1>1. worker[s] \in Worker
  BY DEF TypeOK
<1>2. /\ w \in Worker
      /\ w.pc = "collect"
      /\ w.server = worker[s].server
      /\ w.timer = worker[s].timer
  BY <1>1 DEF TypeOK, Worker, Collecting, Causes
<1>3. /\ worker' = [worker EXCEPT ![s] = w]
      /\ worker[s].pc = "select"
      /\ control' \in [Servers -> Control]
      /\ \A t \in Servers : control'[t].auto = control[t].auto
      /\ UNCHANGED <<config, workers, update, applier, series, client, down, rearmed, applies, requests>>
  BY DEF SelectManual, TypeOK, Control
<1> HIDE DEF w
<1>4. /\ worker' \in [Servers -> Worker]
      /\ worker'[s] = w
      /\ \A t \in Servers \ {s} : worker'[t] = worker[t]
  BY <1>2, <1>3 DEF TypeOK
<1>5. TypeOK'
  BY <1>2, <1>3, <1>4 DEF TypeOK
<1>6. ApplierInv'
  BY <1>2, <1>3, <1>4 DEF ApplierInv, Active, TypeOK
<1>7. GoroutineInv'
  BY <1>2, <1>3, <1>4 DEF GoroutineInv, Running, ToStart, Active, TypeOK
<1>8. SeriesInv'
  BY <1>2, <1>3, <1>4 DEF SeriesInv, TypeOK
<1>9. TimerInv'
  BY <1>2, <1>3, <1>4 DEF TimerInv, TimerSurvives, TypeOK
<1>10. LatestConfigWins'
  BY <1>2, <1>3, <1>4 DEF LatestConfigWins, Mailbox, TypeOK
<1>11. QueueNeverBlocks'
  BY <1>2, <1>3, <1>4 DEF QueueNeverBlocks, TypeOK
<1>12. SeriesCarryOneIdentity'
  BY <1>2, <1>3, <1>4 DEF SeriesCarryOneIdentity, Running, TypeOK
<1>13. TimerSurvives'
  BY <1>2, <1>3, <1>4 DEF TimerSurvives, TypeOK
<1>14. QED
  BY <1>5, <1>6, <1>7, <1>8, <1>9, <1>10, <1>11, <1>12, <1>13

\* The select takes the timer's tick.
LEMMA SelectTimerStep ==
    ASSUME IInv, NEW s \in Servers, SelectTimer(s)
    PROVE  IInv'
<1> USE NoneAssumption DEF IInv
<1> DEFINE w == [Collecting(s, "timer") EXCEPT !.timer = "off"]
<1>1. worker[s] \in Worker
  BY DEF TypeOK
<1>2. /\ w \in Worker
      /\ w.pc = "collect"
      /\ w.cause = "timer"
      /\ w.server = worker[s].server
  BY <1>1 DEF TypeOK, Worker, Collecting, Causes
<1>3. /\ worker' = [worker EXCEPT ![s] = w]
      /\ worker[s].pc = "select"
      /\ UNCHANGED <<config, control, workers, update, applier, series, client, down, rearmed, applies, requests>>
  BY DEF SelectTimer
<1> HIDE DEF w
<1>4. /\ worker' \in [Servers -> Worker]
      /\ worker'[s] = w
      /\ \A t \in Servers \ {s} : worker'[t] = worker[t]
  BY <1>2, <1>3 DEF TypeOK
<1>5. TypeOK'
  BY <1>2, <1>3, <1>4 DEF TypeOK
<1>6. ApplierInv'
  BY <1>2, <1>3, <1>4 DEF ApplierInv, Active, TypeOK
<1>7. GoroutineInv'
  BY <1>2, <1>3, <1>4 DEF GoroutineInv, Running, ToStart, Active, TypeOK
<1>8. SeriesInv'
  BY <1>2, <1>3, <1>4 DEF SeriesInv, TypeOK
<1>9. TimerInv'
  BY <1>2, <1>3, <1>4 DEF TimerInv, TypeOK
<1>10. LatestConfigWins'
  BY <1>2, <1>3, <1>4 DEF LatestConfigWins, Mailbox, TypeOK
<1>11. QueueNeverBlocks'
  BY <1>2, <1>3, <1>4 DEF QueueNeverBlocks, TypeOK
<1>12. SeriesCarryOneIdentity'
  BY <1>2, <1>3, <1>4 DEF SeriesCarryOneIdentity, Running, TypeOK
<1>13. TimerSurvives'
  BY <1>2, <1>3, <1>4 DEF TimerSurvives, TypeOK
<1>14. QED
  BY <1>5, <1>6, <1>7, <1>8, <1>9, <1>10, <1>11, <1>12, <1>13

\* An armed timer puts its tick in the channel.
LEMMA TimerFireStep ==
    ASSUME IInv, NEW s \in Servers, TimerFire(s)
    PROVE  IInv'
<1> USE NoneAssumption DEF IInv
<1> DEFINE w == [worker[s] EXCEPT !.timer = "ticked"]
<1>1. worker[s] \in Worker
  BY DEF TypeOK
<1>2. /\ w \in Worker
      /\ w.pc = worker[s].pc
      /\ w.mode = worker[s].mode
      /\ w.server = worker[s].server
      /\ w.timer # "off"
  BY <1>1 DEF TypeOK, Worker, TimerFire
<1>3. /\ worker' = [worker EXCEPT ![s] = w]
      /\ UNCHANGED <<config, control, workers, update, applier, series, client, down, rearmed, applies, requests>>
  BY DEF TimerFire
<1> HIDE DEF w
<1>4. /\ worker' \in [Servers -> Worker]
      /\ worker'[s] = w
      /\ \A t \in Servers \ {s} : worker'[t] = worker[t]
  BY <1>2, <1>3 DEF TypeOK
<1>5. TypeOK'
  BY <1>2, <1>3, <1>4 DEF TypeOK
<1>6. ApplierInv'
  BY <1>2, <1>3, <1>4 DEF ApplierInv, Active, TypeOK
<1>7. GoroutineInv'
  BY <1>2, <1>3, <1>4 DEF GoroutineInv, Running, ToStart, Active, TypeOK
<1>8. SeriesInv'
  BY <1>2, <1>3, <1>4 DEF SeriesInv, TypeOK
<1>9. TimerInv'
  BY <1>2, <1>3, <1>4 DEF TimerInv, TypeOK
<1>10. LatestConfigWins'
  BY <1>2, <1>3, <1>4 DEF LatestConfigWins, Mailbox, TypeOK
<1>11. QueueNeverBlocks'
  BY <1>2, <1>3, <1>4 DEF QueueNeverBlocks, TypeOK
<1>12. SeriesCarryOneIdentity'
  BY <1>2, <1>3, <1>4 DEF SeriesCarryOneIdentity, Running, TypeOK
<1>13. TimerSurvives'
  BY <1>2, <1>3, <1>4 DEF TimerSurvives, TypeOK
<1>14. QED
  BY <1>5, <1>6, <1>7, <1>8, <1>9, <1>10, <1>11, <1>12, <1>13

\* queueServerUpdate's first send, which succeeds or finds the channel full.
LEMMA QueueTryStep ==
    ASSUME IInv, NEW s \in Servers, QueueTry(s)
    PROVE  IInv'
<1> USE NoneAssumption DEF IInv
<1>1. /\ applier.pc = "reconcile" /\ applier.target = None /\ s \in applier.changed
      /\ UNCHANGED <<config, control, workers, worker, series, client, down, rearmed, applies, requests>>
  BY DEF QueueTry
<1>2. config[s] \in Entry \cup {None} /\ (~down => config[s] # None)
  BY <1>1 DEF ApplierInv, GoroutineInv, TypeOK, Active
<1>3. applier' \in Applier /\ applier'.pc = applier.pc /\ applier'.retired = applier.retired
  <2>1. CASE update[s] = None
    BY <2>1 DEF QueueTry, TypeOK, Applier
  <2>2. CASE update[s] # None
    <3>1. applier' = [applier EXCEPT !.target = s, !.stage = "drain"]
      BY <2>2 DEF QueueTry
    <3>2. QED
      BY <3>1 DEF TypeOK, Applier
  <2>3. QED
    BY <2>1, <2>2
<1>4. \/ /\ update[s] = None
         /\ update' = [update EXCEPT ![s] = config[s]]
         /\ applier'.changed = applier.changed \ {s}
         /\ applier'.target = None
      \/ /\ update[s] # None
         /\ update' = update
         /\ applier'.changed = applier.changed
         /\ applier'.target = s /\ applier'.stage = "drain"
  <2>1. applier \in Applier
    BY DEF TypeOK
  <2>2. CASE update[s] = None
    BY <1>1, <2>1, <2>2 DEF QueueTry, Applier
  <2>3. CASE update[s] # None
    BY <1>1, <2>1, <2>3 DEF QueueTry, Applier
  <2>4. QED
    BY <2>2, <2>3
<1>5. TypeOK'
  BY <1>1, <1>2, <1>3, <1>4 DEF TypeOK
<1>6. ApplierInv'
  BY <1>1, <1>3, <1>4 DEF ApplierInv, Active
<1>7. GoroutineInv'
  BY <1>1, <1>3 DEF GoroutineInv, Running, ToStart, Active
<1>8. SeriesInv' /\ TimerInv' /\ SeriesCarryOneIdentity' /\ TimerSurvives'
  BY <1>1, <1>3 DEF SeriesInv, TimerInv, SeriesCarryOneIdentity, TimerSurvives, Running
<1>9. LatestConfigWins'
  BY <1>1, <1>2, <1>4 DEF LatestConfigWins, Mailbox, TypeOK
<1>10. QueueNeverBlocks'
  BY <1>1, <1>4 DEF QueueNeverBlocks
<1>11. QED
  BY <1>5, <1>6, <1>7, <1>8, <1>9, <1>10

\* queueServerUpdate drops the update that fills the channel, if it is still
\* there.
LEMMA QueueDrainStep ==
    ASSUME IInv, QueueDrain
    PROVE  IInv'
<1> USE NoneAssumption DEF IInv
<1> DEFINE s == applier.target
<1>1. /\ s \in Servers /\ s \in applier.changed
      /\ update' = [update EXCEPT ![s] = None]
      /\ UNCHANGED <<config, control, workers, worker, series, client, down, rearmed, applies, requests>>
  BY DEF QueueDrain, ApplierInv, TypeOK
<1>2. /\ applier' \in Applier /\ applier'.pc = applier.pc /\ applier'.retired = applier.retired
      /\ applier'.changed = applier.changed /\ applier'.target = s
  BY DEF QueueDrain, TypeOK, Applier
<1>3. TypeOK' /\ QueueNeverBlocks'
  BY <1>1, <1>2 DEF TypeOK, QueueNeverBlocks
<1>4. ApplierInv' /\ SeriesInv' /\ TimerInv' /\ SeriesCarryOneIdentity' /\ TimerSurvives'
  BY <1>1, <1>2 DEF ApplierInv, SeriesInv, TimerInv, SeriesCarryOneIdentity, TimerSurvives, Running
<1>5. GoroutineInv'
  BY <1>1, <1>2 DEF GoroutineInv, Running, ToStart, Active
<1>6. LatestConfigWins'
  BY <1>1, <1>2 DEF LatestConfigWins, Mailbox, TypeOK
<1>7. QED
  BY <1>3, <1>4, <1>5, <1>6

\* queueServerUpdate's last send, which must find room.
LEMMA QueueSendStep ==
    ASSUME IInv, QueueSend
    PROVE  IInv'
<1> USE NoneAssumption DEF IInv
<1> DEFINE s == applier.target
<1>1. /\ s \in Servers /\ s \in applier.changed
      /\ update' = [update EXCEPT ![s] = config[s]]
      /\ UNCHANGED <<config, control, workers, worker, series, client, down, rearmed, applies, requests>>
  BY DEF QueueSend, ApplierInv, TypeOK
<1>2. config[s] \in Entry \cup {None}
  BY <1>1 DEF TypeOK
<1>3. /\ applier' \in Applier /\ applier'.pc = applier.pc /\ applier'.retired = applier.retired
      /\ applier'.changed = applier.changed \ {s} /\ applier'.target = None
  BY DEF QueueSend, TypeOK, Applier
<1>4. TypeOK' /\ QueueNeverBlocks'
  BY <1>1, <1>2, <1>3 DEF TypeOK, QueueNeverBlocks
<1>5. ApplierInv' /\ SeriesInv' /\ TimerInv' /\ SeriesCarryOneIdentity' /\ TimerSurvives'
  BY <1>1, <1>3 DEF ApplierInv, SeriesInv, TimerInv, SeriesCarryOneIdentity, TimerSurvives, Running
<1>6. GoroutineInv'
  BY <1>1, <1>3 DEF GoroutineInv, Running, ToStart, Active
<1>7. LatestConfigWins'
  <2>1. ~down => s \in workers /\ config[s] # None
    BY <1>1 DEF ApplierInv, GoroutineInv, Active
  <2>2. QED
    BY <1>1, <1>3, <2>1 DEF LatestConfigWins, Mailbox, TypeOK
<1>8. QED
  BY <1>4, <1>5, <1>6, <1>7

\* ApplyConfig cancels the workers the new configuration does not need.
LEMMA ApplyRetireStep ==
    ASSUME IInv, NEW s \in Servers, ApplyRetire(s)
    PROVE  IInv'
<1> USE NoneAssumption DEF IInv
<1>1. /\ applier.pc = "retire" /\ s \in applier.retired /\ ~Running(s)
      /\ series' = [series EXCEPT ![s] = {}]
      /\ UNCHANGED <<config, control, workers, worker, update, client, down, rearmed, applies, requests>>
  BY DEF ApplyRetire
<1>2. /\ applier' \in Applier /\ applier'.pc \in {"idle", "retire"}
      /\ applier'.pc = "idle" => applier'.retired = {}
      /\ applier'.retired = applier.retired \ {s}
      /\ applier'.changed = applier.changed /\ applier'.target = applier.target
  BY DEF ApplyRetire, TypeOK, Applier
<1>3. TypeOK'
  BY <1>1, <1>2 DEF TypeOK
<1>4. ApplierInv'
  BY <1>1, <1>2 DEF ApplierInv, Active
<1>5. GoroutineInv'
  BY <1>1, <1>2 DEF GoroutineInv, Running, ToStart, Active
<1>6. SeriesInv'
  BY <1>1, <1>2 DEF SeriesInv, TypeOK
<1>7. TimerInv' /\ TimerSurvives' /\ LatestConfigWins' /\ QueueNeverBlocks'
  BY <1>1, <1>2 DEF TimerInv, TimerSurvives, LatestConfigWins, Mailbox, QueueNeverBlocks, ApplierInv
<1>8. SeriesCarryOneIdentity'
  BY <1>1 DEF SeriesCarryOneIdentity, Running, TypeOK
<1>9. QED
  BY <1>3, <1>4, <1>5, <1>6, <1>7, <1>8

\* ApplyConfig starts a goroutine for every new server.
LEMMA ApplyStartStep ==
    ASSUME IInv, ApplyStart
    PROVE  IInv'
<1> USE NoneAssumption DEF IInv
<1> DEFINE S == ToStart
<1>1. S \subseteq Servers /\ \A s \in S : config[s] \in Entry
  BY DEF ToStart, Active, TypeOK
<1>2. /\ applier.pc = "reconcile" /\ applier.changed = {}
      /\ workers' = workers \cup S
      /\ UNCHANGED <<config, control, series, client, down, rearmed, applies, requests>>
      /\ update' = [s \in Servers |-> IF s \in S THEN None ELSE update[s]]
  BY DEF ApplyStart
<1>3. /\ applier' \in Applier /\ applier'.pc \in {"idle", "retire"}
      /\ applier'.pc = "idle" => applier'.retired = {}
      /\ applier'.retired = applier.retired
      /\ applier'.changed = {} /\ applier'.target = None
  BY <1>2 DEF ApplyStart, TypeOK, Applier, ApplierInv
<1>4. \A s \in S : /\ NewWorker(config[s]) \in Worker
                   /\ NewWorker(config[s]).pc = "collect"
                   /\ NewWorker(config[s]).cause = "initial"
                   /\ NewWorker(config[s]).server = config[s]
  BY <1>1 DEF NewWorker, NoWorker, Worker, Causes
<1>5. /\ \A s \in S : worker'[s] = NewWorker(config[s])
      /\ \A s \in Servers \ S : worker'[s] = worker[s]
      /\ worker' \in [Servers -> Worker]
  BY <1>1, <1>4 DEF ApplyStart, TypeOK
<1>6. \A s \in S : series[s] = {} /\ s \notin applier.retired
  BY <1>1 DEF SeriesInv, ApplierInv, ToStart
<1> HIDE DEF S
<1>7. TypeOK'
  BY <1>1, <1>2, <1>3, <1>5 DEF TypeOK
<1>8. ApplierInv'
  BY <1>2, <1>3, <1>6 DEF ApplierInv, Active
<1>9. GoroutineInv'
  BY <1>1, <1>2, <1>3, <1>4, <1>5 DEF GoroutineInv, Running, ToStart, Active, S
<1>10. SeriesInv'
  BY <1>2, <1>3 DEF SeriesInv
<1>11. TimerInv' /\ TimerSurvives'
  BY <1>2, <1>4, <1>5 DEF TimerInv, TimerSurvives
<1>12. LatestConfigWins'
  BY <1>1, <1>2, <1>3, <1>4, <1>5 DEF LatestConfigWins, Mailbox, TypeOK
<1>13. QueueNeverBlocks'
  BY <1>3 DEF QueueNeverBlocks
<1>14. SeriesCarryOneIdentity'
  BY <1>2, <1>4, <1>5, <1>6 DEF SeriesCarryOneIdentity, Running
<1>15. QED
  BY <1>7, <1>8, <1>9, <1>10, <1>11, <1>12, <1>13, <1>14

\* ApplyConfig takes the lock and publishes the new configuration.
LEMMA ApplyBeginStep ==
    ASSUME IInv, NEW new \in [Servers -> Entry \cup {None}], ApplyBegin(new)
    PROVE  IInv'
<1> USE NoneAssumption DEF IInv
<1>1. /\ applier.pc = "idle" /\ applies' \in 0..MaxApplies /\ config' = new
      /\ UNCHANGED <<worker, update, series, down, requests>>
  BY PollerAssumption DEF ApplyBegin, TypeOK
<1>2. /\ control' \in [Servers -> Control] /\ rearmed' \in [Servers -> BOOLEAN]
      /\ \A s \in Servers : control'[s].auto \/ (control'[s] = control[s] /\ rearmed'[s] = rearmed[s])
  BY DEF ApplyBegin, TypeOK, NewControl, Control
<1>3. client' \in [Clients -> Client]
  <2>1. \A c \in Clients, b \in BOOLEAN : [client[c] EXCEPT !.orphan = @ \/ b] \in Client
    BY DEF TypeOK, Client
  <2>2. PICK created \in SUBSET Servers :
            client' = [c \in Clients |-> [client[c] EXCEPT
                          !.orphan = @ \/ (client[c].pc # "idle" /\ client[c].server \in created)]]
    BY DEF ApplyBegin
  <2>3. QED
    BY <2>1, <2>2
<1>4. applier.changed = {} /\ applier.retired = {} /\ applier.target = None
  BY <1>1 DEF ApplierInv
<1>5. TimerInv' /\ TimerSurvives' /\ SeriesCarryOneIdentity'
  BY <1>1, <1>2 DEF TimerInv, TimerSurvives, SeriesCarryOneIdentity, Running
<1>6. CASE down
  <2>1. UNCHANGED <<applier, workers>>
    BY <1>6 DEF ApplyBegin
  <2>2. TypeOK' /\ ApplierInv' /\ SeriesInv' /\ QueueNeverBlocks'
    BY <1>1, <1>2, <1>3, <1>4, <2>1 DEF TypeOK, ApplierInv, SeriesInv, QueueNeverBlocks
  <2>3. GoroutineInv' /\ LatestConfigWins'
    BY <1>1, <1>6, <2>1 DEF GoroutineInv, LatestConfigWins, Running
  <2>4. QED
    BY <1>5, <2>2, <2>3
<1>7. CASE ~down
  <2> DEFINE R == {s \in workers : ~Active(new[s])}
  <2>1. /\ workers' = workers \ R
        /\ applier' \in Applier /\ applier'.pc = "reconcile" /\ applier'.retired = R
        /\ applier'.changed = {s \in workers \ R : config[s] # new[s]}
        /\ applier'.target = None
    <3>1. R \in SUBSET Servers /\ {s \in workers \ R : config[s] # new[s]} \in SUBSET Servers
      BY DEF TypeOK
    <3>2. /\ workers' = workers \ R
          /\ applier' = [Idle EXCEPT !.pc = "reconcile", !.retired = R,
                                     !.changed = {s \in workers \ R : config[s] # new[s]}]
      BY <1>7 DEF ApplyBegin
    <3>3. QED
      BY <3>1, <3>2 DEF Idle, Applier
  <2>2. TypeOK'
    BY <1>1, <1>2, <1>3, <2>1 DEF TypeOK
  <2>3. ApplierInv' /\ QueueNeverBlocks'
    BY <1>1, <2>1 DEF ApplierInv, QueueNeverBlocks, Active
  <2>4. GoroutineInv'
    BY <1>1, <1>4, <1>7, <2>1 DEF GoroutineInv, Running, Active
  <2>5. SeriesInv'
    BY <1>1, <1>4, <2>1 DEF SeriesInv
  <2>6. LatestConfigWins'
    BY <1>1, <1>4, <1>7, <2>1 DEF LatestConfigWins, Mailbox
  <2>7. QED
    BY <1>5, <2>2, <2>3, <2>4, <2>5, <2>6
<1>8. QED
  BY <1>6, <1>7

\* The handlers leave the workers and ApplyConfig alone.
LEMMA HandlerFrame ==
    ASSUME IInv, TypeOK',
           UNCHANGED <<config, workers, worker, update, applier, series, down>>,
           \A s \in Servers : control'[s].auto \/ ~rearmed'[s]
                              \/ (control'[s].auto = control[s].auto /\ rearmed'[s] = rearmed[s])
    PROVE  IInv'
<1> USE DEF IInv
<1>1. ApplierInv' /\ SeriesInv' /\ LatestConfigWins' /\ QueueNeverBlocks'
  BY DEF ApplierInv, SeriesInv, LatestConfigWins, Mailbox, QueueNeverBlocks
<1>2. GoroutineInv' /\ SeriesCarryOneIdentity' /\ TimerSurvives'
  BY DEF GoroutineInv, SeriesCarryOneIdentity, TimerSurvives, Running, ToStart
<1>3. TimerInv'
  BY DEF TimerInv
<1>4. QED
  BY <1>1, <1>2, <1>3

\* An HTTP handler reads the worker it will act on.
LEMMA FetchStep ==
    ASSUME IInv, NEW c \in Clients, NEW op \in {"auto", "refresh", "collect"},
           NEW s \in Servers, Fetch(c, op, s)
    PROVE  IInv'
<1>1. [pc |-> "fetched", op |-> op, server |-> s, orphan |-> FALSE] \in Client
  BY DEF Client
<1>2. TypeOK'
  BY <1>1, PollerAssumption DEF IInv, TypeOK, Fetch
<1>3. QED
  BY <1>2, HandlerFrame DEF Fetch

\* The polling and schedule handlers store the mode.
LEMMA SetFlagStep ==
    ASSUME IInv, NEW c \in Clients, SetFlag(c)
    PROVE  IInv'
<1>1. client' \in [Clients -> Client]
  <2>1. [client[c] EXCEPT !.pc = "flagged"] \in Client
    BY DEF IInv, TypeOK, Client
  <2>2. QED
    BY <2>1 DEF IInv, TypeOK, SetFlag
<1>2. /\ control' \in [Servers -> Control] /\ rearmed' \in [Servers -> BOOLEAN]
      /\ \A s \in Servers : control'[s].auto \/ ~rearmed'[s]
                            \/ (control'[s].auto = control[s].auto /\ rearmed'[s] = rearmed[s])
  <2>1. CASE client[c].orphan
    BY <2>1 DEF IInv, TypeOK, SetFlag
  <2>2. CASE ~client[c].orphan
    <3>1. /\ control' = [control EXCEPT ![client[c].server].auto = (client[c].op = "auto")]
          /\ rearmed' = [rearmed EXCEPT ![client[c].server] =
                            @ /\ control[client[c].server].auto = (client[c].op = "auto")]
      BY <2>2 DEF SetFlag
    <3>2. control' \in [Servers -> Control]
      <4>1. \A t \in Servers, b \in BOOLEAN : [control[t] EXCEPT !.auto = b] \in Control
        BY DEF IInv, TypeOK, Control
      <4>2. QED
        BY <3>1, <4>1 DEF IInv, TypeOK
    <3>3. rearmed' \in [Servers -> BOOLEAN]
      BY <3>1 DEF IInv, TypeOK
    <3>4. ASSUME NEW s \in Servers
          PROVE  control'[s].auto \/ ~rearmed'[s]
                     \/ (control'[s].auto = control[s].auto /\ rearmed'[s] = rearmed[s])
      BY <3>1 DEF IInv, TypeOK, Control
    <3>5. QED
      BY <3>2, <3>3, <3>4
  <2>3. QED
    BY <2>1, <2>2
<1>3. TypeOK'
  BY <1>1, <1>2 DEF IInv, TypeOK, SetFlag
<1>4. QED
  BY <1>2, <1>3, HandlerFrame DEF SetFlag

\* The handlers signal the worker whose mode they changed.
LEMMA SendWakeStep ==
    ASSUME IInv, NEW c \in Clients, SendWake(c)
    PROVE  IInv'
<1>1. client' \in [Clients -> Client]
  BY DEF IInv, TypeOK, SendWake, NoRequest, Client
<1>2. control' \in [Servers -> Control] /\ \A s \in Servers : control'[s].auto = control[s].auto
  BY DEF IInv, TypeOK, SendWake, Control
<1>3. TypeOK'
  BY <1>1, <1>2 DEF IInv, TypeOK, SendWake
<1>4. QED
  BY <1>2, <1>3, HandlerFrame DEF SendWake

\* The refresh handler asks for one collection.
LEMMA RequestManualStep ==
    ASSUME IInv, NEW c \in Clients, RequestManual(c)
    PROVE  IInv'
<1>1. client' \in [Clients -> Client]
  BY DEF IInv, TypeOK, RequestManual, NoRequest, Client
<1>2. control' \in [Servers -> Control] /\ \A s \in Servers : control'[s].auto = control[s].auto
  BY DEF IInv, TypeOK, RequestManual, Control
<1>3. TypeOK'
  BY <1>1, <1>2 DEF IInv, TypeOK, RequestManual
<1>4. QED
  BY <1>2, <1>3, HandlerFrame DEF RequestManual

\* The program's context is cancelled.
LEMMA ShutdownStep ==
    ASSUME IInv, Shutdown
    PROVE  IInv'
<1> USE DEF IInv
<1>1. /\ down' = TRUE
      /\ UNCHANGED <<config, control, workers, worker, update, applier, series, client, rearmed, applies, requests>>
  BY DEF Shutdown
<1>2. TypeOK' /\ ApplierInv' /\ SeriesInv' /\ TimerInv' /\ LatestConfigWins' /\ QueueNeverBlocks'
  BY <1>1 DEF TypeOK, ApplierInv, SeriesInv, TimerInv, LatestConfigWins, QueueNeverBlocks
<1>3. GoroutineInv' /\ SeriesCarryOneIdentity' /\ TimerSurvives'
  BY <1>1 DEF GoroutineInv, SeriesCarryOneIdentity, TimerSurvives, Running
<1>4. QED
  BY <1>2, <1>3

\* NewPoller and Start leave the system in a state of IInv.
LEMMA InitInv == Init => IInv
<1> SUFFICES ASSUME Init PROVE IInv
  OBVIOUS
<1> USE NoneAssumption DEF IInv
<1>1. \A s \in Servers : worker[s] = IF Active(config[s]) THEN NewWorker(config[s]) ELSE NoWorker
  BY DEF Init
<1>2. \A s \in Servers : Active(config[s]) =>
          /\ config[s] \in Entry
          /\ NewWorker(config[s]) \in Worker
          /\ NewWorker(config[s]).pc = "collect"
          /\ NewWorker(config[s]).cause = "initial"
          /\ NewWorker(config[s]).server = config[s]
  BY DEF Init, Active, NewWorker, NoWorker, Worker, Causes
<1>3. NoWorker \in Worker /\ NoWorker.pc = "off"
  BY DEF NoWorker, Worker, Causes
<1>4. TypeOK
  <2>1. NewControl \in Control /\ Idle \in Applier /\ NoRequest \in Client
    BY DEF NewControl, Control, Idle, Applier, NoRequest, Client
  <2>2. worker \in [Servers -> Worker]
    BY <1>2, <1>3 DEF Init
  <2>3. /\ control \in [Servers -> Control] /\ applier \in Applier
        /\ client \in [Clients -> Client]
    BY <2>1 DEF Init
  <2>4. /\ config \in [Servers -> Entry \cup {None}] /\ workers \subseteq Servers
        /\ update \in [Servers -> Entry \cup {None}] /\ series \in [Servers -> SUBSET Idents]
        /\ down \in BOOLEAN /\ rearmed \in [Servers -> BOOLEAN]
    BY DEF Init
  <2>5. applies \in 0..MaxApplies /\ requests \in 0..MaxRequests
    BY PollerAssumption DEF Init
  <2>6. QED
    BY <2>2, <2>3, <2>4, <2>5 DEF TypeOK
<1>5. ApplierInv /\ SeriesInv /\ QueueNeverBlocks
  BY DEF Init, ApplierInv, SeriesInv, QueueNeverBlocks, Idle
<1>6. GoroutineInv
  BY <1>1, <1>2, <1>3 DEF Init, GoroutineInv, Running, ToStart
<1>7. TimerInv /\ TimerSurvives
  BY <1>1, <1>2, <1>3 DEF Init, TimerInv, TimerSurvives
<1>8. LatestConfigWins
  BY <1>1, <1>2 DEF Init, LatestConfigWins, Mailbox
<1>9. SeriesCarryOneIdentity
  BY DEF Init, SeriesCarryOneIdentity
<1>10. QED
  BY <1>4, <1>5, <1>6, <1>7, <1>8, <1>9

\* Every step of the scheduler, of ApplyConfig and of the handlers keeps the
\* inductive invariant, whatever the servers, the configurations and the number
\* of requests.
THEOREM IInvInductive == IInv /\ [Next]_vars => IInv'
<1> SUFFICES ASSUME IInv, [Next]_vars
             PROVE  IInv'
  OBVIOUS
<1>1. ASSUME NEW new \in [Servers -> Entry \cup {None}], ApplyBegin(new)
      PROVE  IInv'
  BY <1>1, ApplyBeginStep
<1>2. CASE Apply
  BY <1>2, QueueDrainStep, QueueSendStep, ApplyStartStep, QueueTryStep, ApplyRetireStep DEF Apply
<1>3. ASSUME NEW s \in Servers, RunServer(s)
      PROVE  IInv'
  BY <1>3, FinishCollectStep, LoopTopStep, SelectDoneStep, SelectUpdateStep, SelectWakeStep,
     SelectManualStep, SelectTimerStep DEF RunServer, Select
<1>4. ASSUME NEW s \in Servers, TimerFire(s)
      PROVE  IInv'
  BY <1>4, TimerFireStep
<1>5. ASSUME NEW c \in Clients, Handle(c)
      PROVE  IInv'
  BY <1>5, SetFlagStep, SendWakeStep, RequestManualStep DEF Handle
<1>6. ASSUME NEW c \in Clients, NEW s \in Servers,
             NEW op \in {"auto", "refresh", "collect"}, Fetch(c, op, s)
      PROVE  IInv'
  BY <1>6, FetchStep
<1>7. CASE Shutdown
  BY <1>7, ShutdownStep
<1>8. CASE UNCHANGED vars
  BY <1>8 DEF vars, IInv, TypeOK, ApplierInv, GoroutineInv, SeriesInv, TimerInv, LatestConfigWins,
     QueueNeverBlocks, SeriesCarryOneIdentity, TimerSurvives, Running, ToStart, Mailbox
<1>9. QED
  BY <1>1, <1>2, <1>3, <1>4, <1>5, <1>6, <1>7, <1>8 DEF Next, Stopped

\* IInv holds in every reachable state.
LEMMA Invariance == Spec => []IInv
<1>1. QED
  BY InitInv, IInvInductive, PTL DEF Spec

\* Every reachable state is well typed.
THEOREM TypeCorrect == Spec => []TypeOK
<1>1. IInv => TypeOK
  BY DEF IInv
<1>2. QED
  BY <1>1, Invariance, PTL

\* Whatever updates are coalesced in a worker's one-place channel, the worker
\* ends up with the configuration that was published last.
THEOREM LatestConfig == Spec => []LatestConfigWins
<1>1. IInv => LatestConfigWins
  BY DEF IInv
<1>2. QED
  BY <1>1, Invariance, PTL

\* ApplyConfig never starts a second goroutine for a server and never blocks on
\* a worker's channel while it holds the lock.
THEOREM SafeApplyConfig == Spec => []ApplyConfigIsSafe
<1>1. IInv => ApplyConfigIsSafe
  BY DEF ApplyConfigIsSafe, IInv, OneGoroutinePerServer, Unlocked, GoroutineInv, ApplierInv, ToStart
<1>2. QED
  BY <1>1, Invariance, PTL

\* A collection that was under way when its server was retired or renamed never
\* leaves a series behind.
THEOREM NoStaleSeries == Spec => []SeriesFollowServers
<1>1. IInv => SeriesFollowServers
  BY DEF SeriesFollowServers, IInv, RetiredServersLeaveNoSeries, SeriesInv, ApplierInv, GoroutineInv
<1>2. QED
  BY <1>1, Invariance, PTL

\* Only SelectTimer starts a collection for the timer's sake.
LEMMA OnlySelectTimer ==
    ASSUME IInv, Next, NEW s \in Servers, TimerCollects(s)
    PROVE  SelectTimer(s)
<1> USE DEF TimerCollects, IInv, TypeOK
<1>1. ASSUME NEW t \in Servers, RunServer(t) \/ TimerFire(t), t # s
      PROVE  worker'[s] = worker[s]
  BY <1>1 DEF RunServer, Select, FinishCollect, ResetTimer, KeepTimer, LoopTop, SelectDone,
     SelectUpdate, SelectWake, SelectManual, SelectTimer, TimerFire
<1>2. ASSUME FinishCollect(s) \/ LoopTop(s)
      PROVE  FALSE
  BY <1>2 DEF FinishCollect, LoopTop
<1>3. ASSUME SelectDone(s)
      PROVE  FALSE
  BY <1>3 DEF SelectDone, NoWorker
<1>4. ASSUME SelectWake(s)
      PROVE  FALSE
  <2>1. worker[s] \in Worker
    OBVIOUS
  <2>2. /\ [worker[s] EXCEPT !.timer = "armed", !.pc = "top"].pc = "top"
        /\ [worker[s] EXCEPT !.pc = "top"].pc = "top"
    BY <2>1 DEF Worker
  <2>3. worker'[s].pc = "top"
    BY <1>4, <2>2 DEF SelectWake, ResetTimer, KeepTimer
  <2>4. QED
    BY <2>3
<1>5. ASSUME SelectUpdate(s) \/ SelectManual(s)
      PROVE  FALSE
  <2>1. worker[s] \in Worker
    OBVIOUS
  <2>2. /\ [Collecting(s, "update") EXCEPT !.server = update[s]].cause = "update"
        /\ Collecting(s, "manual").cause = "manual"
    BY <2>1 DEF Collecting, Worker
  <2>3. QED
    BY <1>5, <2>2 DEF SelectUpdate, SelectManual
<1>6. ASSUME TimerFire(s)
      PROVE  FALSE
  BY <1>6 DEF TimerFire, Worker
<1>7. ASSUME ApplyStart
      PROVE  FALSE
  BY <1>7 DEF ApplyStart, ToStart, NewWorker, NoWorker
<1>8. worker' # worker
  OBVIOUS
<1>9. QED
  BY <1>1, <1>2, <1>3, <1>4, <1>5, <1>6, <1>7, <1>8
     DEF Next, Apply, RunServer, Select, Handle, ApplyBegin, QueueTry, QueueDrain, QueueSend,
         ApplyRetire, Fetch, SetFlag, SendWake, RequestManual, Shutdown, Stopped, vars

\* The loop never blocks without a timer that is armed or has a tick waiting: no branch
\* of it forgets the periodic collection (Poller.runServer, resetTimer).
THEOREM TimerIsKept == Spec => []TimerSurvives
<1>1. IInv => TimerSurvives
  BY DEF IInv
<1>2. QED
  BY <1>1, Invariance, PTL

\* A mode switch lets at most one waiting select collect once more: a tick that was
\* already due (Poller.runServer's select).
THEOREM OneLateTick == Spec => AtMostOneLateTick
<1>1. ASSUME IInv, [Next]_vars
      PROVE  [\A s \in Servers : TimerCollects(s) /\ ~control[s].auto => ~rearmed[s]]_vars
  <2>1. SUFFICES ASSUME Next, NEW s \in Servers, TimerCollects(s), ~control[s].auto
                 PROVE  ~rearmed[s]
    BY <1>1
  <2>2. worker[s].pc = "select" /\ worker[s].mode
    BY <1>1, <2>1, OnlySelectTimer DEF SelectTimer
  <2>3. QED
    BY <1>1, <2>1, <2>2 DEF IInv, TimerInv
<1>2. QED
  BY <1>1, Invariance, PTL DEF Spec, AtMostOneLateTick


-----------------------------------------------------------------------------
(* The workers follow the configuration *)

\* When ApplyConfig returns, and while it is not under way, the configuration is in force.
SettledInv == applier.pc = "idle" => Follower!Settled

LEMMA IdleIsSettled == IInv => SettledInv
<1>0. SUFFICES ASSUME IInv, applier.pc = "idle" PROVE Follower!Settled
  BY DEF SettledInv
<1>1. SUFFICES ASSUME ~down, NEW s \in Servers PROVE Told[s] = Follower!Wanted(s)
  BY DEF Follower!Settled
<1>2. applier.target = None /\ applier.changed = {} /\ applier.retired = {}
  BY <1>0 DEF IInv, ApplierInv, TypeOK, Applier
<1>3. CASE Active(config[s])
  <2>1. s \in workers /\ Running(s)
    BY <1>0, <1>1, <1>2, <1>3 DEF IInv, GoroutineInv, ToStart
  <2>2. Mailbox(s) = config[s]
    BY <1>0, <1>1, <1>2, <2>1 DEF IInv, LatestConfigWins
  <2>3. Told[s] = config[s]
    BY <1>2, <2>1, <2>2, NoneAssumption DEF Told
  <2>4. QED
    BY <1>3, <2>3 DEF Follower!Wanted, Follower!Enabled, Active
<1>4. CASE ~Active(config[s])
  <2>1. ~Running(s)
    BY <1>0, <1>1, <1>2, <1>4 DEF IInv, GoroutineInv
  <2>2. QED
    BY <1>4, <2>1 DEF Told, Follower!Wanted, Follower!Enabled, Active
<1>5. QED
  BY <1>3, <1>4

\* A worker that is still to be told of its entry has one that is enabled.
ChangedInv == \A s \in applier.changed : Active(config[s])

LEMMA ChangedStep ==
    ASSUME IInv, ChangedInv, [Next]_vars
    PROVE  ChangedInv'
<1>1. applier \in Applier
  BY DEF IInv, TypeOK
<1>2. ASSUME NEW new \in [Servers -> Entry \cup {None}], ApplyBegin(new) PROVE ChangedInv'
  <2>1. CASE down
    BY <1>2, <2>1 DEF ApplyBegin, IInv, ApplierInv, ChangedInv
  <2>2. CASE ~down
    <3>1. config' = new /\ \A s \in applier'.changed : Active(new[s])
      BY <1>2, <2>2 DEF ApplyBegin, Idle
    <3>2. QED
      BY <3>1 DEF ChangedInv, Active
  <2>3. QED
    BY <2>1, <2>2
<1>3. ASSUME UNCHANGED config, applier'.changed \subseteq applier.changed PROVE ChangedInv'
  BY <1>3 DEF ChangedInv, Active
<1>4. Apply => UNCHANGED config /\ applier'.changed \subseteq applier.changed
  <2>1. ASSUME NEW s \in Servers, QueueTry(s)
        PROVE  UNCHANGED config /\ applier'.changed \subseteq applier.changed
    BY <1>1, <2>1 DEF QueueTry, Applier
  <2>2. QueueDrain => UNCHANGED config /\ applier'.changed \subseteq applier.changed
    BY <1>1 DEF QueueDrain, Applier
  <2>3. QueueSend => UNCHANGED config /\ applier'.changed \subseteq applier.changed
    BY <1>1 DEF QueueSend, Applier
  <2>4. ApplyStart => UNCHANGED config /\ applier'.changed \subseteq applier.changed
    BY <1>1 DEF ApplyStart, Applier
  <2>5. ASSUME NEW s \in Servers, ApplyRetire(s)
        PROVE  UNCHANGED config /\ applier'.changed \subseteq applier.changed
    BY <1>1, <2>5 DEF ApplyRetire, Applier
  <2>6. QED
    BY <2>1, <2>2, <2>3, <2>4, <2>5 DEF Apply
<1>5. ASSUME NEW s \in Servers, RunServer(s) \/ TimerFire(s) PROVE UNCHANGED <<config, applier>>
  BY <1>5 DEF RunServer, FinishCollect, LoopTop, Select, SelectDone, SelectUpdate, SelectWake,
              SelectManual, SelectTimer, TimerFire
<1>6. ASSUME NEW c \in Clients, NEW s, NEW op, Handle(c) \/ Fetch(c, op, s)
      PROVE  UNCHANGED <<config, applier>>
  BY <1>6 DEF Handle, SetFlag, SendWake, RequestManual, Fetch
<1>7. Shutdown \/ Stopped \/ UNCHANGED vars => UNCHANGED <<config, applier>>
  BY DEF Shutdown, Stopped, vars
<1>8. QED
  BY <1>2, <1>3, <1>4, <1>5, <1>6, <1>7 DEF Next

\* Most steps of a goroutine, and all of the handlers, do not concern its configuration.
LEMMA FollowerUnmoved ==
    ASSUME UNCHANGED <<config, update, applier, down>>,
           \A s \in Servers : worker'[s].server = worker[s].server /\ Running(s)' = Running(s)
    PROVE  UNCHANGED Follower!follower
<1>1. Serving' = Serving
  BY DEF Serving
<1>2. \A s \in Servers : Mailbox(s)' = Mailbox(s)
  BY DEF Mailbox
<1>3. Told' = Told
  BY <1>2 DEF Told
<1>4. QED
  BY <1>1, <1>3 DEF Follower!follower

LEMMA LoopIsUnmoved ==
    ASSUME IInv, NEW s \in Servers,
           FinishCollect(s) \/ LoopTop(s) \/ SelectWake(s) \/ SelectManual(s) \/ SelectTimer(s) \/ TimerFire(s)
    PROVE  UNCHANGED Follower!follower
<1>1. worker[s] \in Worker /\ worker \in [Servers -> Worker]
  BY DEF IInv, TypeOK
<1>2. UNCHANGED <<config, update, applier, down>>
  BY DEF FinishCollect, LoopTop, SelectWake, SelectManual, SelectTimer, TimerFire
<1>3. \E w \in Worker : /\ worker' = [worker EXCEPT ![s] = w] /\ w.server = worker[s].server
                         /\ (w.pc # "off") = (worker[s].pc # "off")
  <2>1. CASE FinishCollect(s) \/ SelectWake(s)
    <3>1. CASE ResetTimer(s)
      <4>1. PICK w \in Worker : w = [worker[s] EXCEPT !.timer = "armed", !.pc = "top"]
        BY <1>1 DEF Worker
      <4>2. w.server = worker[s].server /\ w.pc = "top" /\ worker[s].pc # "off"
        BY <1>1, <2>1, <4>1 DEF Worker, FinishCollect, SelectWake
      <4>3. QED
        BY <3>1, <4>1, <4>2 DEF ResetTimer
    <3>2. CASE KeepTimer(s)
      <4>1. PICK w \in Worker : w = [worker[s] EXCEPT !.pc = "top"]
        BY <1>1 DEF Worker
      <4>2. w.server = worker[s].server /\ w.pc = "top" /\ worker[s].pc # "off"
        BY <1>1, <2>1, <4>1 DEF Worker, FinishCollect, SelectWake
      <4>3. QED
        BY <3>2, <4>1, <4>2 DEF KeepTimer
    <3>3. QED
      BY <2>1, <3>1, <3>2 DEF FinishCollect, SelectWake
  <2>2. CASE LoopTop(s)
    <3>1. PICK w \in Worker : w = [worker[s] EXCEPT !.pc = "select", !.mode = control[s].auto]
      BY <1>1 DEF Worker, Causes, IInv, TypeOK, Control
    <3>2. w.server = worker[s].server /\ w.pc = "select" /\ worker[s].pc # "off"
      BY <1>1, <2>2, <3>1 DEF Worker, LoopTop
    <3>3. QED
      BY <2>2, <3>1, <3>2 DEF LoopTop, Collecting
  <2>3. CASE SelectManual(s)
    <3>1. PICK w \in Worker : w = [worker[s] EXCEPT !.pc = "collect", !.cause = "manual"]
      BY <1>1 DEF Worker, Causes
    <3>2. w.server = worker[s].server /\ w.pc = "collect" /\ worker[s].pc # "off"
      BY <1>1, <2>3, <3>1 DEF Worker, SelectManual
    <3>3. QED
      BY <2>3, <3>1, <3>2 DEF SelectManual, Collecting
  <2>4. CASE SelectTimer(s)
    <3>1. PICK w \in Worker : w = [[worker[s] EXCEPT !.pc = "collect", !.cause = "timer"] EXCEPT !.timer = "off"]
      BY <1>1 DEF Worker, Causes
    <3>2. w.server = worker[s].server /\ w.pc = "collect" /\ worker[s].pc # "off"
      BY <1>1, <2>4, <3>1 DEF Worker, SelectTimer
    <3>3. QED
      BY <2>4, <3>1, <3>2 DEF SelectTimer, Collecting
  <2>5. CASE TimerFire(s)
    <3>1. PICK w \in Worker : w = [worker[s] EXCEPT !.timer = "ticked"]
      BY <1>1 DEF Worker
    <3>2. w.server = worker[s].server /\ w.pc = worker[s].pc
      BY <1>1, <3>1 DEF Worker
    <3>3. QED
      BY <2>5, <3>1, <3>2 DEF TimerFire
  <2>6. QED
    BY <2>1, <2>2, <2>3, <2>4, <2>5
<1>4. \A t \in Servers : worker'[t].server = worker[t].server /\ Running(t)' = Running(t)
  BY <1>1, <1>3 DEF Running
<1>5. QED
  BY <1>2, <1>4, FollowerUnmoved

\* A goroutine that is cancelled ends.
LEMMA DoneFollows ==
    ASSUME IInv, NEW s \in Servers, SelectDone(s)
    PROVE  Follower!End(s)
<1>1. /\ Running(s) /\ Cancelled(s) /\ worker' = [worker EXCEPT ![s] = NoWorker]
      /\ UNCHANGED <<config, update, applier, down>>
  BY DEF SelectDone, Running
<1>2. down \/ ~Follower!Enabled(config[s])
  BY <1>1 DEF IInv, GoroutineInv, ApplierInv, Cancelled, Active, Follower!Enabled
<1>3. /\ ~Running(s)'
      /\ \A t \in Servers \ {s} : worker'[t] = worker[t]
  BY <1>1 DEF IInv, TypeOK, Running, NoWorker
<1>4. Serving' = [Serving EXCEPT ![s] = None]
  BY <1>3 DEF Serving, Running
<1>5. \A t \in Servers : Told'[t] = IF t = s THEN None ELSE Told[t]
  BY <1>1, <1>3 DEF Told, Mailbox, Running
<1>6. Told' = [Told EXCEPT ![s] = None]
  BY <1>5 DEF Told
<1>7. QED
  BY <1>1, <1>2, <1>4, <1>6 DEF Follower!End

\* A goroutine takes its update: the entry it was told last.
LEMMA UpdateFollows ==
    ASSUME IInv, NEW s \in Servers, SelectUpdate(s)
    PROVE  Follower!TakeUp(s)
<1>1. /\ Running(s) /\ update[s] # None
      /\ update' = [update EXCEPT ![s] = None]
      /\ UNCHANGED <<config, applier, down>>
  BY DEF SelectUpdate, Running
<1>2. /\ worker'[s].server = update[s] /\ Running(s)'
      /\ \A t \in Servers \ {s} : worker'[t] = worker[t]
  BY DEF SelectUpdate, Collecting, IInv, TypeOK, Worker, Running
<1>3. /\ update'[s] = None
      /\ \A t \in Servers \ {s} : update'[t] = update[t]
  BY <1>1 DEF IInv, TypeOK
<1>4. ~(applier.target = s /\ applier.stage = "send")
  BY <1>1, NoneAssumption DEF IInv, QueueNeverBlocks
<1>5. Told[s] = update[s]
  BY <1>1, <1>4 DEF Told, Mailbox
<1>6. \A t \in Servers : Told'[t] = Told[t]
  BY <1>1, <1>2, <1>3, <1>4, <1>5 DEF Told, Mailbox, Running
<1>7. Told' = Told
  BY <1>6 DEF Told
<1>8. Serving' = [Serving EXCEPT ![s] = Told[s]] /\ Serving[s] # None
  <2>1. worker[s].server # None
    BY <1>1, NoneAssumption DEF IInv, GoroutineInv
  <2>2. QED
    BY <1>1, <1>2, <1>5, <2>1 DEF Serving, Running
<1>9. QED
  BY <1>1, <1>7, <1>8 DEF Follower!TakeUp

\* The three channel operations of queueServerUpdate tell the worker once.
LEMMA QueueFollows ==
    ASSUME IInv, ChangedInv, (\E s \in Servers : QueueTry(s)) \/ QueueDrain \/ QueueSend
    PROVE  (\E s \in Servers : Follower!Tell(s)) \/ UNCHANGED Follower!follower
<1>1. UNCHANGED <<config, worker, down>> /\ applier.pc = "reconcile" /\ applier'.pc = "reconcile"
  <2>1. applier \in Applier /\ (applier.pc = "idle" => applier.target = None)
    BY DEF IInv, ApplierInv, TypeOK
  <2>2. ASSUME NEW s \in Servers, QueueTry(s)
        PROVE  UNCHANGED <<config, worker, down>> /\ applier.pc = "reconcile" /\ applier'.pc = "reconcile"
    BY <2>1, <2>2 DEF QueueTry, Applier
  <2>3. QueueDrain => UNCHANGED <<config, worker, down>> /\ applier.pc = "reconcile" /\ applier'.pc = "reconcile"
    BY <2>1 DEF QueueDrain, IInv, ApplierInv, Applier
  <2>4. QueueSend => UNCHANGED <<config, worker, down>> /\ applier.pc = "reconcile" /\ applier'.pc = "reconcile"
    BY <2>1 DEF QueueSend, IInv, ApplierInv, Applier
  <2>5. QED
    BY <2>2, <2>3, <2>4
<1>2. Serving' = Serving /\ \A s \in Servers : Running(s)' = Running(s)
  BY <1>1 DEF Serving, Running
<1>3. applier \in Applier /\ update \in [Servers -> Entry \cup {None}] /\ None \notin Servers
  BY NoneAssumption DEF IInv, TypeOK
<1>4. ASSUME NEW s \in Servers, Running(s), \A t \in Servers : Told'[t] = IF t = s THEN config[s] ELSE Told[t]
      PROVE  Follower!Tell(s)
  <2>1. Told' = [Told EXCEPT ![s] = config[s]]
    BY <1>4 DEF Told
  <2>2. Serving[s] # None
    BY <1>4, NoneAssumption DEF IInv, GoroutineInv, Serving
  <2>3. QED
    BY <1>1, <1>2, <2>1, <2>2 DEF Follower!Tell
<1>5. ASSUME \A t \in Servers : Told'[t] = Told[t]
      PROVE  UNCHANGED Follower!follower
  <2>1. Told' = Told
    BY <1>5 DEF Told
  <2>2. QED
    BY <1>1, <1>2, <2>1 DEF Follower!follower
<1>6. ASSUME NEW s \in Servers, QueueTry(s)
      PROVE  (\E t \in Servers : Follower!Tell(t)) \/ UNCHANGED Follower!follower
  <2>1. CASE update[s] = None
    <3>1. /\ update'[s] = config[s] /\ \A t \in Servers \ {s} : update'[t] = update[t]
          /\ applier.target = None /\ applier'.target = None
      BY <1>3, <1>6, <2>1 DEF QueueTry, Applier
    <3>2. config[s] # None
      BY <1>6 DEF QueueTry, ChangedInv, Active
    <3>3. CASE Running(s)
      <4>1. Told'[s] = config[s]
        BY <1>2, <1>3, <3>1, <3>2, <3>3 DEF Told, Mailbox
      <4>2. \A t \in Servers \ {s} : Told'[t] = Told[t]
        BY <1>1, <1>2, <1>3, <3>1 DEF Told, Mailbox
      <4>3. QED
        BY <1>4, <3>3, <4>1, <4>2
    <3>4. CASE ~Running(s)
      BY <1>1, <1>2, <1>3, <1>5, <3>1, <3>4 DEF Told, Mailbox
    <3>5. QED
      BY <3>3, <3>4
  <2>2. CASE update[s] # None
    <3>1. /\ UNCHANGED update /\ applier.target = None
          /\ applier'.stage = "drain"
      BY <1>3, <1>6, <2>2 DEF QueueTry, Applier
    <3>2. \A t \in Servers : Told'[t] = Told[t]
      BY <1>1, <1>2, <1>3, <3>1 DEF Told, Mailbox
    <3>3. QED
      BY <1>5, <3>2
  <2>3. QED
    BY <2>1, <2>2
<1>7. ASSUME QueueDrain
      PROVE  (\E t \in Servers : Follower!Tell(t)) \/ UNCHANGED Follower!follower
  <2>1. PICK s \in Servers : s = applier.target
    BY <1>3, <1>7 DEF QueueDrain, Applier
  <2>2. /\ applier.stage = "drain" /\ applier'.stage = "send" /\ applier'.target = s
        /\ \A t \in Servers \ {s} : update'[t] = update[t]
    BY <1>3, <1>7, <2>1 DEF QueueDrain, Applier
  <2>3. \A t \in Servers \ {s} : Told'[t] = Told[t]
    BY <1>1, <1>2, <2>1, <2>2 DEF Told, Mailbox
  <2>4. Told'[s] = IF Running(s) THEN config[s] ELSE None
    BY <1>1, <1>2, <2>2 DEF Told
  <2>5. CASE Running(s)
    BY <1>4, <2>3, <2>4, <2>5
  <2>6. CASE ~Running(s)
    <3>1. Told[s] = None
      BY <2>6 DEF Told
    <3>2. QED
      BY <1>5, <2>3, <2>4, <2>6, <3>1
  <2>7. QED
    BY <2>5, <2>6
<1>8. ASSUME QueueSend
      PROVE  UNCHANGED Follower!follower
  <2>1. PICK s \in Servers : s = applier.target
    BY <1>3, <1>8 DEF QueueSend, Applier
  <2>2. /\ applier.stage = "send" /\ applier'.stage = "try" /\ update'[s] = config[s]
        /\ \A t \in Servers \ {s} : update'[t] = update[t]
    BY <1>3, <1>8, <2>1 DEF QueueSend, Applier
  <2>3. config[s] # None
    BY <2>1, <1>3 DEF IInv, ApplierInv, ChangedInv, Active
  <2>4. \A t \in Servers \ {s} : Told'[t] = Told[t]
    BY <1>1, <1>2, <2>1, <2>2 DEF Told, Mailbox
  <2>5. Told'[s] = Told[s]
    BY <1>1, <1>2, <2>1, <2>2, <2>3 DEF Told, Mailbox
  <2>6. QED
    BY <1>5, <2>4, <2>5
<1>9. QED
  BY <1>6, <1>7, <1>8

\* A new configuration is published, while the program stops only stored.
LEMMA BeginFollows ==
    ASSUME IInv, NEW new \in [Servers -> Entry \cup {None}], ApplyBegin(new)
    PROVE  Follower!Publish
<1>1. /\ applier.pc = "idle" /\ config' = new /\ UNCHANGED <<worker, update, down>>
      /\ applier'.pc = IF down THEN "idle" ELSE "reconcile"
      /\ applier'.target = None
  BY DEF ApplyBegin, Idle, IInv, ApplierInv
<1>2. applier.target = None
  BY <1>1 DEF IInv, ApplierInv
<1>3. Serving' = Serving
  BY <1>1 DEF Serving, Running
<1>4. \A s \in Servers : Told'[s] = Told[s]
  BY <1>1, <1>2, NoneAssumption DEF Told, Mailbox, Running
<1>5. Told' = Told
  BY <1>4 DEF Told
<1>6. QED
  BY <1>1, <1>3, <1>5 DEF Follower!Publish

\* The missing goroutines are started; ApplyConfig returns if it waits for none.
LEMMA StartFollows ==
    ASSUME IInv, SettledInv', ApplyStart
    PROVE  Follower!Start(ToStart) /\ (UNCHANGED (applier.pc # "idle") \/ Follower!Return)
<1>1. /\ applier.pc = "reconcile" /\ applier.changed = {}
      /\ UNCHANGED <<config, down>>
      /\ applier' = [applier EXCEPT !.pc = IF applier.retired = {} THEN "idle" ELSE "retire"]
  BY DEF ApplyStart
<1>2. applier.target = None /\ applier'.target = None /\ ToStart \subseteq Servers
  BY <1>1 DEF IInv, ApplierInv, TypeOK, Applier, ToStart
<1>3. ASSUME NEW s \in ToStart PROVE ~Running(s) /\ Active(config[s])
  BY <1>3 DEF IInv, GoroutineInv, ApplierInv, ToStart
<1>4. \A s \in ToStart : Serving[s] = None /\ Follower!Enabled(config[s])
  BY <1>2, <1>3 DEF Serving, Active, Follower!Enabled
<1>5. \A s \in Servers : /\ s \in ToStart => /\ Running(s)' /\ worker'[s].server = config[s]
                                             /\ update'[s] = None
                         /\ s \notin ToStart => worker'[s] = worker[s] /\ update'[s] = update[s]
  BY DEF ApplyStart, NewWorker, NoWorker, Running
<1>6. \A s \in Servers : Serving'[s] = IF s \in ToStart THEN config[s] ELSE Serving[s]
  BY <1>5 DEF Serving, Running
<1>7. \A s \in Servers : Told'[s] = IF s \in ToStart THEN config[s] ELSE Told[s]
  BY <1>1, <1>2, <1>5, NoneAssumption DEF Told, Mailbox, Running
<1>8. /\ Serving' = [s \in Servers |-> IF s \in ToStart THEN config[s] ELSE Serving[s]]
      /\ Told' = [s \in Servers |-> IF s \in ToStart THEN config[s] ELSE Told[s]]
  BY <1>6, <1>7 DEF Serving, Told
<1>9. Follower!Start(ToStart)
  BY <1>1, <1>4, <1>8 DEF Follower!Start
<1>10. CASE applier.retired = {}
  <2>1. applier'.pc = "idle"
    BY <1>1, <1>10 DEF IInv, TypeOK, Applier
  <2>2. QED
    BY <1>9, <2>1 DEF Follower!Return, SettledInv
<1>11. CASE applier.retired # {}
  <2>1. applier'.pc = "retire"
    BY <1>1, <1>11 DEF IInv, TypeOK, Applier
  <2>2. QED
    BY <1>1, <1>9, <2>1
<1>12. QED
  BY <1>10, <1>11

\* Steps that wait for a goroutine, and those of the handlers.
LEMMA RestFollows ==
    ASSUME IInv, SettledInv', [Next]_vars,
           \A new \in [Servers -> Entry \cup {None}] : ~ApplyBegin(new),
           \A s \in Servers : ~RunServer(s) /\ ~TimerFire(s) /\ ~QueueTry(s),
           ~QueueDrain, ~QueueSend, ~ApplyStart
    PROVE  Follower!FollowerNext \/ UNCHANGED Follower!follower
<1>1. ASSUME NEW s \in Servers, ApplyRetire(s)
      PROVE  Follower!FollowerNext \/ UNCHANGED Follower!follower
  <2>1. /\ UNCHANGED <<config, worker, update, down>> /\ applier.pc = "retire"
        /\ applier'.pc = IF applier.retired = {s} THEN "idle" ELSE "retire"
        /\ applier.target = None /\ applier'.target = None
    BY <1>1 DEF ApplyRetire, IInv, ApplierInv, TypeOK, Applier
  <2>2. Serving' = Serving
    BY <2>1 DEF Serving, Running
  <2>3. \A t \in Servers : Told'[t] = Told[t]
    BY <2>1, NoneAssumption DEF Told, Mailbox, Running
  <2>4. Told' = Told
    BY <2>3 DEF Told
  <2>5. CASE applier.retired = {s}
    <3>1. applier'.pc = "idle"
      BY <2>1, <2>5
    <3>2. Follower!Return
      BY <3>1 DEF Follower!Return, SettledInv
    <3>3. /\ Serving' = [t \in Servers |-> IF t \in {} THEN config[t] ELSE Serving[t]]
          /\ Told' = [t \in Servers |-> IF t \in {} THEN config[t] ELSE Told[t]]
      BY <2>2, <2>4 DEF Serving, Told
    <3>4. Follower!Start({})
      BY <2>1, <3>3 DEF Follower!Start
    <3>5. QED
      BY <3>2, <3>4 DEF Follower!FollowerNext
  <2>6. CASE applier.retired # {s}
    <3>1. applier'.pc = "retire"
      BY <2>1, <2>6
    <3>2. QED
      BY <2>1, <2>2, <2>4, <3>1 DEF Follower!follower
  <2>7. QED
    BY <2>5, <2>6
<1>2. ASSUME UNCHANGED <<config, update, applier, down, worker>>
      PROVE  UNCHANGED Follower!follower
  BY <1>2, FollowerUnmoved DEF Running
<1>3. ASSUME NEW c \in Clients, NEW s, NEW op, Handle(c) \/ Fetch(c, op, s)
      PROVE  UNCHANGED <<config, update, applier, down, worker>>
  BY <1>3 DEF Handle, SetFlag, SendWake, RequestManual, Fetch
<1>4. Stopped \/ UNCHANGED vars => UNCHANGED <<config, update, applier, down, worker>>
  BY DEF Stopped, vars
<1>5. ASSUME Shutdown PROVE Follower!FollowerNext
  <2>1. down' = TRUE /\ UNCHANGED <<config, update, applier, worker>>
    BY <1>5 DEF Shutdown
  <2>2. Serving' = Serving /\ Told' = Told
    BY <2>1 DEF Serving, Told, Mailbox, Running
  <2>3. QED
    BY <2>1, <2>2 DEF Follower!FollowerNext, Follower!Stop
<1>6. QED
  BY <1>1, <1>2, <1>3, <1>4, <1>5 DEF Next, Apply

LEMMA FollowerStep ==
    ASSUME IInv, ChangedInv, SettledInv', [Next]_vars
    PROVE  Follower!FollowerNext \/ UNCHANGED Follower!follower
<1>1. ASSUME NEW new \in [Servers -> Entry \cup {None}], ApplyBegin(new) PROVE Follower!FollowerNext
  BY <1>1, BeginFollows DEF Follower!FollowerNext
<1>2. ASSUME NEW s \in Servers, RunServer(s) \/ TimerFire(s)
      PROVE  Follower!FollowerNext \/ UNCHANGED Follower!follower
  BY <1>2, LoopIsUnmoved, DoneFollows, UpdateFollows DEF RunServer, Select, Follower!FollowerNext
<1>3. CASE (\E s \in Servers : QueueTry(s)) \/ QueueDrain \/ QueueSend
  BY <1>3, QueueFollows DEF Follower!FollowerNext
<1>4. CASE ApplyStart
  <2>1. ToStart \in SUBSET Servers
    BY DEF ToStart
  <2>2. QED
    BY <1>4, <2>1, StartFollows DEF Follower!FollowerNext
<1>5. QED
  BY <1>1, <1>2, <1>3, <1>4, RestFollows

\* Poller implements ConfigFollower, for any servers and entries and any number of calls
\* of ApplyConfig (ApplyConfig, queueServerUpdate, startServerLocked, runServer).
THEOREM FollowsConfig == Spec => WorkersFollowConfig
<1>1. Init => Follower!FollowerInit /\ ChangedInv
  <2> SUFFICES ASSUME Init PROVE Follower!FollowerInit /\ ChangedInv
    OBVIOUS
  <2>1. ChangedInv /\ applier.pc = "idle" /\ applier.target = None
    BY DEF Init, Idle, ChangedInv
  <2>2. \A s \in Servers : /\ Running(s) <=> Active(config[s])
                           /\ Running(s) => worker[s].server = config[s]
                           /\ update[s] = None
    BY DEF Init, Running, NewWorker, NoWorker
  <2>3. Serving = [s \in Servers |-> Follower!Wanted(s)]
    BY <2>2 DEF Serving, Follower!Wanted, Follower!Enabled, Active
  <2>4. \A s \in Servers : Told[s] = Serving[s]
    BY <2>1, <2>2, NoneAssumption DEF Told, Serving, Mailbox
  <2>5. Told = Serving
    BY <2>4 DEF Told, Serving
  <2>6. QED
    BY <2>1, <2>3, <2>5 DEF Init, Follower!FollowerInit
<1>2. IInv /\ ChangedInv /\ [Next]_vars => ChangedInv'
  BY ChangedStep
<1>3. IInv => SettledInv
  BY IdleIsSettled
<1>4. IInv /\ ChangedInv /\ SettledInv' /\ [Next]_vars => [Follower!FollowerNext]_(Follower!follower)
  BY FollowerStep
<1>5. QED
  BY <1>1, <1>2, <1>3, <1>4, Invariance, PTL DEF Spec, WorkersFollowConfig, Follower!FollowerSpec
=============================================================================
