------------------------------ MODULE AgentPage -----------------------------
(***************************************************************************)
(* The page of the operations agent (src/ops-page.js): it starts a task or *)
(* takes up the one named in the URL, follows it, and sends decisions.     *)
(*                                                                         *)
(* While the shown task has not ended, a timer and every event of its      *)
(* stream ask for the task.  These requests overlap and each answer is     *)
(* shown when it arrives.  An answer is what the agent knew when it        *)
(* answered; on its way it may be overtaken.  Of the agent (module         *)
(* OpsTask) only what a page sees is left: the status, the number of       *)
(* commands that were submitted for approval, and the tasks its deadline   *)
(* failed.  Its reaper is left out.                                        *)
(***************************************************************************)
EXTENDS Integers, FiniteSets

CONSTANTS Tasks,       \* task identifiers
          Earlier,     \* tasks that run when the page is opened
          Slow,        \* bound: tasks whose deadline may pass
          None,
          MaxCalls,    \* bound: commands of a task that need approval
          MaxReplies   \* bound: answers on their way, requests of the timer included

AgentPageAssumption ==
    /\ None \notin Tasks /\ Earlier \subseteq Tasks /\ Slow \subseteq Tasks
    /\ MaxCalls \in Nat /\ MaxReplies \in Nat \ {0}

VARIABLES mounted,
          urlTask,  \* task_id in the URL
          catalog,  \* the lists of servers and skills were answered
          server,   \* a server is selected
          task,     \* the answer that is shown
          busy,
          post,     \* the POST on its way: start or decision
          replies,  \* answers to GET on their way
          agent,    \* the tasks as the agent knows them
          expired   \* tasks that watchTaskDeadline failed

page == <<mounted, urlTask, catalog, server, task, busy>>

vars == <<page, post, replies, agent, expired>>

\* A task that the deadline fails while a command is pending is "overdue": it has
\* ended as every other failed task, but its snapshots go on showing the command.
Ended == {"ended", "overdue"}

Seen == [status : {"running", "awaiting"} \cup Ended, call : 0..MaxCalls]

Unknown == [status |-> "none", call |-> 0]

NoTask == [id |-> None, seen |-> Unknown]

Shown == [id : Tasks, seen : Seen] \cup {NoTask}

NoPost == [kind |-> "none", task |-> NoTask, answered |-> FALSE]

\* How an answer was asked for: by timer or event, or by the effect on
\* initialTaskID, which after its cleanup ignores a failure as the others do.
Causes == {"follow", "restore"}

TypeOK ==
    /\ mounted \in BOOLEAN /\ catalog \in BOOLEAN /\ server \in BOOLEAN /\ busy \in BOOLEAN
    /\ urlTask \in Tasks \cup {None}
    /\ task \in Shown
    /\ post \in [kind : {"none", "start", "decision"}, task : Shown, answered : BOOLEAN]
    /\ replies \subseteq [task : Shown, cause : Causes]
    /\ Cardinality(replies) <= MaxReplies + 1
    /\ agent \in [Tasks -> Seen \cup {Unknown}]
    /\ expired \subseteq Slow

\* Tasks may have been started earlier, from this or from another page.
Init ==
    /\ mounted = FALSE /\ urlTask = None /\ catalog = FALSE /\ server = FALSE
    /\ task = NoTask /\ busy = FALSE /\ post = NoPost /\ replies = {}
    /\ agent = [t \in Tasks |-> IF t \in Earlier THEN [status |-> "running", call |-> 0] ELSE Unknown]
    /\ expired = {}

-----------------------------------------------------------------------------
(* Following a task *)

Snapshot(t) == [id |-> t, seen |-> agent[t]]

\* The effect on initialTaskID, which every rendering reads from the URL: the
\* cleanup of the old one, and loadTask for the new one.
RestoreEffect(t) ==
    LET cleaned == {IF r.cause = "restore" THEN [r EXCEPT !.cause = "follow"] ELSE r : r \in replies}
        asked == IF t = None \/ agent[t] = Unknown THEN {} ELSE {[task |-> Snapshot(t), cause |-> "restore"]}
    IN replies' = cleaned \cup asked

\* The page is opened, perhaps with the task of an earlier visit.
Mount(t) ==
    /\ ~mounted /\ mounted' = TRUE
    /\ urlTask' = t
    /\ RestoreEffect(t)
    /\ UNCHANGED <<catalog, server, task, busy, post, agent, expired>>

\* serverOptions and preferredServer: the requested server is in the list or not.
Catalog ==
    /\ mounted /\ ~catalog /\ catalog' = TRUE
    /\ server' \in BOOLEAN
    /\ UNCHANGED <<mounted, urlTask, task, busy, post, replies, agent, expired>>

\* The list is locked while a task is shown.
SelectServer ==
    /\ catalog /\ task = NoTask
    /\ server' = ~server
    /\ UNCHANGED <<mounted, urlTask, catalog, task, busy, post, replies, agent, expired>>

\* Mistake: a task that waits for approval is not asked for.
FollowedRunning == {"running"}

\* The effect returns early for tasks that are completed or failed.
Followed == {"running", "awaiting"}

\* The interval of the effect on task id and status, and the event stream.
Ask ==
    /\ task.id # None /\ task.seen.status \in Followed
    /\ Cardinality(replies) < MaxReplies
    /\ replies' = replies \cup {[task |-> Snapshot(task.id), cause |-> "follow"]}
    /\ UNCHANGED <<page, post, agent, expired>>

\* loadTask shows what arrives.
Arrive(r) ==
    /\ r \in replies /\ replies' = replies \ {r}
    /\ task' = r.task
    /\ UNCHANGED <<mounted, urlTask, catalog, server, busy, post, agent, expired>>

\* A request fails; a page that cannot restore its task forgets it.
Lost(r) ==
    /\ r \in replies /\ replies' = replies \ {r}
    /\ urlTask' = IF r.cause = "restore" THEN None ELSE urlTask
    /\ UNCHANGED <<mounted, catalog, server, task, busy, post, agent, expired>>

-----------------------------------------------------------------------------
(* Buttons *)

Start ==
    /\ task = NoTask /\ ~busy /\ server
    /\ busy' = TRUE
    /\ post' = [NoPost EXCEPT !.kind = "start"]
    /\ UNCHANGED <<mounted, urlTask, catalog, server, task, replies, agent, expired>>

\* Approve or reject: the command that is shown, of a task that failed too.
Decide ==
    /\ task.seen.status \in {"awaiting", "overdue"} /\ ~busy
    /\ busy' = TRUE
    /\ post' = [NoPost EXCEPT !.kind = "decision", !.task = task]
    /\ UNCHANGED <<mounted, urlTask, catalog, server, task, replies, agent, expired>>

NewTask ==
    /\ task.seen.status \in Ended
    /\ urlTask' = None /\ task' = NoTask
    /\ RestoreEffect(None)
    /\ UNCHANGED <<mounted, catalog, server, busy, post, agent, expired>>

\* The agent handles the POST: a decision only for the command that waits, and
\* before the deadline.
Handle ==
    /\ post.kind # "none" /\ ~post.answered
    /\ \/ /\ post.kind = "start"
          /\ \E t \in Tasks :
                /\ agent[t] = Unknown
                /\ agent' = [agent EXCEPT ![t] = [status |-> "running", call |-> 0]]
                /\ post' = [post EXCEPT !.task = [id |-> t, seen |-> agent'[t]], !.answered = TRUE]
       \/ /\ post.kind = "decision"
          /\ LET t == post.task.id
             IN /\ agent[t] = post.task.seen /\ agent[t].status = "awaiting" /\ t \notin expired
                /\ agent' = [agent EXCEPT ![t].status = "running"]
                /\ post' = [post EXCEPT !.task.seen = agent'[t], !.answered = TRUE]
    /\ UNCHANGED <<page, replies, expired>>

\* The answer is shown; a task just started is put into the URL.
PostAnswer ==
    /\ post.answered /\ post' = NoPost
    /\ busy' = FALSE
    /\ task' = post.task
    /\ IF post.kind = "start"
       THEN urlTask' = post.task.id /\ RestoreEffect(post.task.id)
       ELSE UNCHANGED <<urlTask, replies>>
    /\ UNCHANGED <<mounted, catalog, server, agent, expired>>

\* The agent refuses, or the POST or its answer is lost.
PostFails ==
    /\ post.kind # "none" /\ post' = NoPost
    /\ busy' = FALSE
    /\ UNCHANGED <<mounted, urlTask, catalog, server, task, replies, agent, expired>>

-----------------------------------------------------------------------------
(* The agent *)

\* A command needs approval, someone else decides, or the task completes or fails.
Proceed(t) ==
    /\ agent[t] # Unknown /\ t \notin expired
    /\ \/ /\ agent[t].status = "running" /\ agent[t].call < MaxCalls
          /\ agent' = [agent EXCEPT ![t] = [status |-> "awaiting", call |-> @.call + 1]]
       \/ /\ agent[t].status = "awaiting"
          /\ agent' = [agent EXCEPT ![t].status = "running"]
       \/ /\ agent[t].status = "running"
          /\ agent' = [agent EXCEPT ![t].status = "ended"]
    /\ UNCHANGED <<page, post, replies, expired>>

\* watchTaskDeadline fails a task that runs or waits; a command stays pending.
Expire(t) ==
    /\ t \in Slow \ expired /\ agent[t].status \in {"running", "awaiting"}
    /\ agent' = [agent EXCEPT ![t].status = IF @ = "awaiting" THEN "overdue" ELSE "ended"]
    /\ expired' = expired \cup {t}
    /\ UNCHANGED <<page, post, replies>>

\* The deadline fails a task, not its goroutine: dispatch overwrites the status when the
\* next command needs approval.  Nothing ends this task again, and nobody can decide.
Revive(t) ==
    /\ t \in expired /\ agent[t].status = "ended" /\ agent[t].call < MaxCalls
    /\ agent' = [agent EXCEPT ![t] = [status |-> "awaiting", call |-> @.call + 1]]
    /\ UNCHANGED <<page, post, replies, expired>>

-----------------------------------------------------------------------------
Next ==
    \/ \E t \in Earlier \cup {None} : Mount(t)
    \/ Catalog \/ SelectServer
    \/ Ask \/ \E r \in replies : Arrive(r) \/ Lost(r)
    \/ Start \/ Decide \/ NewTask
    \/ Handle \/ PostAnswer \/ PostFails
    \/ \E t \in Tasks : Proceed(t) \/ Expire(t) \/ Revive(t)

\* The timer runs; requests are answered or fail, and of those that are repeated
\* every second not all fail.
Fairness ==
    /\ WF_vars(Ask)
    /\ WF_vars(\E r \in replies : Arrive(r) \/ Lost(r))
    /\ SF_vars(\E r \in replies : r.task.id = task.id /\ r.task.seen = agent[task.id] /\ Arrive(r))
    /\ WF_vars(PostAnswer \/ PostFails)

Spec == Init /\ [][Next]_vars

FairSpec == Spec /\ Fairness

-----------------------------------------------------------------------------
(* Properties *)

\* Whatever the agent knows of the shown task, a command to approve above all,
\* gets to the page, unless it is over or another task is shown by then.  Not so
\* when the page saw that the deadline failed the task: then it no longer asks,
\* and the command of a task that was revived is not shown.
PageCatchesUp ==
    \A t \in Tasks, c \in 1..MaxCalls :
        LET asked == [status |-> "awaiting", call |-> c]
        IN task.id = t /\ agent[t] = asked ~>
              \/ task.id # t \/ task.seen = asked \/ agent[t] # asked
              \/ t \in expired /\ task.seen.status \in Ended

\* The end of a task stays on the page: an older answer that arrives after it
\* makes the page ask again.  A task that was revived after its deadline stays
\* either as failed, or as the agent knows it: waiting for an approval.
EndIsShown ==
    \A t \in Tasks :
        agent[t].status \in Ended ~>
            [](task.id = t => \/ task.seen.status \in Ended
                              \/ t \in expired /\ task.seen = agent[t])

\* The buttons become usable again.
PageUnlocks == busy ~> ~busy
=============================================================================
