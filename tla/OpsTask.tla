------------------------------ MODULE OpsTask ------------------------------
(***************************************************************************)
(* One task of the operations agent (internal/opsagent): the goroutine     *)
(* that alternates model requests and tool calls, its pause at a shell     *)
(* command that needs an administrator, the decision handlers that resume  *)
(* it, the deadline watcher and the reaper.                                *)
(*                                                                         *)
(* Tasks share only the agent's mutex, so one task is modelled; every      *)
(* critical section under that mutex is one action.  Events are left out:  *)
(* emit changes nothing the control flow reads, except UpdatedAt, and the  *)
(* reaper may find a task idle for its TTL at any time.                    *)
(***************************************************************************)
EXTENDS Integers, Sequences, FiniteSets

CONSTANTS MaxSteps,    \* limits.max_steps: model requests of one task
          MaxCalls,    \* bound: tool calls in the completion of each step
          Goroutines,  \* slots for the goroutines that drive the task
          Handlers,    \* concurrent POST /tasks/{id}/decision
          None         \* no pending command

\* What dispatch makes of a call: a skill to load, a shell command of the
\* read-only list, a shell command that needs approval, anything it answers
\* with a list or an error.
Kinds == {"skill", "exempt", "guarded", "other"}

Calls == UNION {[step : {n}, index : 1..MaxCalls[n], kind : Kinds] : n \in 1..MaxSteps}

ASSUME OpsTaskAssumption ==
    /\ MaxSteps \in Nat /\ MaxCalls \in [1..MaxSteps -> Nat]
    /\ None \notin Calls
    /\ Goroutines # {} /\ Handlers # {}

VARIABLES status,    \* Task.Status
          pending,   \* Task.Pending
          queued,    \* taskState.queuedCalls
          messages,  \* taskState.messages after the system message and the question
          steps,     \* taskState.steps
          loaded,    \* a skill that allows the shell commands is in loadedSkills
          ctx,       \* the task's context
          watching,  \* watchTaskDeadline has not returned
          listed,    \* the task is in Agent.tasks
          driver,    \* the goroutines in runLoop, processToolCalls or resumeQueuedCalls
          handler,   \* the handlers in Decide
          ended,     \* history: the task has been completed or failed
          approved,  \* history: calls an administrator approved
          executed   \* history: how often each shell command was started

vars == <<status, pending, queued, messages, steps, loaded, ctx, watching, listed,
          driver, handler, ended, approved, executed>>

task == <<status, pending, queued, messages, steps, loaded>>

Statuses == {"running", "awaiting", "completed", "failed"}

Terminal == {"completed", "failed"}

Message == [role : {"assistant"}, calls : Seq(Calls)] \cup [role : {"tool"}, call : Calls]

DriverPC == {"off", "resume", "loop", "model", "next", "dispatch", "record",
             "complete", "fail", "cancel"}

HandlerPC == {"idle", "sent", "execute", "record", "resume"}

TypeOK ==
    /\ status \in Statuses
    /\ pending \in Calls \cup {None}
    /\ queued \in Seq(Calls)
    /\ messages \in Seq(Message)
    /\ steps \in 0..MaxSteps
    /\ loaded \in BOOLEAN
    /\ ctx \in {"live", "expired", "cancelled"}
    /\ watching \in BOOLEAN /\ listed \in BOOLEAN
    /\ driver \in [Goroutines -> [pc : DriverPC, calls : Seq(Calls)]]
    /\ handler \in [Handlers -> [pc : HandlerPC, shown : Calls \cup {None}, call : Calls \cup {None}]]
    /\ ended \in BOOLEAN
    /\ approved \subseteq Calls
    /\ executed \in [Calls -> 0..2]

NoDecision == [pc |-> "idle", shown |-> None, call |-> None]

\* CreateTask: the task, the goroutine of runLoop and the watcher.
Init ==
    /\ status = "running" /\ pending = None
    /\ queued = <<>> /\ messages = <<>>
    /\ steps = 0 /\ loaded = FALSE
    /\ ctx = "live" /\ watching = TRUE /\ listed = TRUE
    /\ \E first \in Goroutines :
          driver = [g \in Goroutines |-> [pc |-> IF g = first THEN "loop" ELSE "off", calls |-> <<>>]]
    /\ handler = [h \in Handlers |-> NoDecision]
    /\ ended = FALSE
    /\ approved = {} /\ executed = [c \in Calls |-> 0]

At(g, pc) == driver[g].pc = pc

Goto(g, pc) == driver' = [driver EXCEPT ![g].pc = pc]

Answer(call) == messages' = Append(messages, [role |-> "tool", call |-> call])

Start(call) == executed' = [executed EXCEPT ![call] = IF @ < 2 THEN @ + 1 ELSE @]

-----------------------------------------------------------------------------
(* runLoop *)

\* Mistake: off by one at the step limit.
LoopPastLimit(g) ==
    /\ At(g, "loop")
    /\ IF steps > MaxSteps THEN Goto(g, "fail") /\ UNCHANGED steps
       ELSE Goto(g, "model") /\ steps' = steps + 1
    /\ UNCHANGED <<status, pending, queued, messages, loaded, ctx, watching, listed,
                   handler, ended, approved, executed>>

\* The head of the loop: give up at the step limit, else ask the model.
Loop(g) ==
    /\ At(g, "loop")
    /\ IF steps >= MaxSteps THEN Goto(g, "fail") /\ UNCHANGED steps
       ELSE Goto(g, "model") /\ steps' = steps + 1
    /\ UNCHANGED <<status, pending, queued, messages, loaded, ctx, watching, listed,
                   handler, ended, approved, executed>>

\* The tool calls a completion may contain, numbered within the task.
Completions(step) ==
    UNION {{[i \in 1..n |-> [step |-> step, index |-> i, kind |-> kinds[i]]] :
               kinds \in [1..n -> Kinds]} : n \in 0..MaxCalls[step]}

\* model.Complete returns an error, or a message with or without tool calls.
Model(g) ==
    /\ At(g, "model")
    /\ \/ Goto(g, "fail") /\ UNCHANGED messages
       \/ \E calls \in Completions(steps) :
             /\ messages' = Append(messages, [role |-> "assistant", calls |-> calls])
             /\ driver' = [driver EXCEPT ![g] =
                    [pc |-> IF calls = <<>> THEN "complete" ELSE "next", calls |-> calls]]
    /\ UNCHANGED <<status, pending, queued, steps, loaded, ctx, watching, listed,
                   handler, ended, approved, executed>>

\* processToolCalls: save what follows the next call, or go back to the loop.
NextCall(g) ==
    /\ At(g, "next")
    /\ IF driver[g].calls = <<>> THEN Goto(g, "loop") /\ UNCHANGED queued
       ELSE Goto(g, "dispatch") /\ queued' = Tail(driver[g].calls)
    /\ UNCHANGED <<status, pending, messages, steps, loaded, ctx, watching, listed,
                   handler, ended, approved, executed>>

\* dispatch, for everything that is answered at once.  A shell command needs a
\* loaded skill; a read-only one is executed under the task's context.
Dispatch(g) ==
    LET call == Head(driver[g].calls)
    IN /\ At(g, "dispatch")
       /\ call.kind = "guarded" => ~loaded
       /\ loaded' = (loaded \/ call.kind = "skill")
       /\ IF call.kind = "exempt" /\ loaded /\ ctx = "live" THEN Start(call) ELSE UNCHANGED executed
       /\ Goto(g, "record")
       /\ UNCHANGED <<status, pending, queued, messages, steps, ctx, watching, listed,
                      handler, ended, approved>>

\* Mistake: dispatch does not tell its caller to stop.
PauseGoingOn(g) ==
    LET call == Head(driver[g].calls)
    IN /\ At(g, "dispatch")
       /\ call.kind = "guarded" /\ loaded
       /\ pending' = call
       /\ status' = "awaiting"
       /\ Goto(g, "record")
       /\ UNCHANGED <<queued, messages, steps, loaded, ctx, watching, listed,
                      handler, ended, approved, executed>>

\* dispatch, for a command that needs approval: the goroutine ends.
Pause(g) ==
    LET call == Head(driver[g].calls)
    IN /\ At(g, "dispatch")
       /\ call.kind = "guarded" /\ loaded
       /\ pending' = call
       /\ status' = "awaiting"
       /\ driver' = [driver EXCEPT ![g] = [pc |-> "off", calls |-> <<>>]]
       /\ UNCHANGED <<queued, messages, steps, loaded, ctx, watching, listed,
                      handler, ended, approved, executed>>

\* processToolCalls: the result of the call becomes a message.
Record(g) ==
    /\ At(g, "record")
    /\ Answer(Head(driver[g].calls))
    /\ driver' = [driver EXCEPT ![g] = [pc |-> "next", calls |-> Tail(@.calls)]]
    /\ UNCHANGED <<status, pending, queued, steps, loaded, ctx, watching, listed,
                   handler, ended, approved, executed>>

\* complete and fail: a terminal status stays; the context is cancelled later.
Finish(g) ==
    /\ At(g, "complete") \/ At(g, "fail")
    /\ IF status \in Terminal THEN Goto(g, "off") /\ UNCHANGED <<status, ended>>
       ELSE /\ Goto(g, "cancel")
            /\ status' = IF At(g, "complete") THEN "completed" ELSE "failed"
            /\ ended' = TRUE
    /\ UNCHANGED <<pending, queued, messages, steps, loaded, ctx, watching, listed,
                   handler, approved, executed>>

CancelContext == ctx' = IF ctx = "live" THEN "cancelled" ELSE ctx

FinishCancel(g) ==
    /\ At(g, "cancel")
    /\ Goto(g, "off") /\ CancelContext
    /\ UNCHANGED <<task, watching, listed, handler, ended, approved, executed>>

-----------------------------------------------------------------------------
(* Decide *)

\* An administrator answers the command the page shows; the page shows what
\* the last snapshot of the task had pending.
Request(h) ==
    /\ handler[h].pc = "idle"
    /\ pending # None
    /\ handler' = [handler EXCEPT ![h] = [pc |-> "sent", shown |-> pending, call |-> None]]
    /\ UNCHANGED <<task, ctx, watching, listed, driver, ended, approved, executed>>

\* Mistakes: any pending command is taken for the one that was shown; the task's
\* context is not looked at.
DecidableAnyCall(h) == listed /\ ctx = "live" /\ status = "awaiting" /\ pending # None

DecidableLate(h) == listed /\ status = "awaiting" /\ pending # None /\ pending = handler[h].shown

\* The checks of Decide, in its critical section.
Decidable(h) == /\ listed /\ ctx = "live"
                /\ status = "awaiting" /\ pending # None
                /\ pending = handler[h].shown

TakePending == pending' = None /\ status' = "running"

\* An approved command that passes validation again will be executed; a denied
\* command, or one that no longer passes, is answered at once.
Decide(h) ==
    /\ handler[h].pc = "sent" /\ Decidable(h)
    /\ TakePending
    /\ \/ /\ loaded
          /\ approved' = approved \cup {handler[h].shown}
          /\ handler' = [handler EXCEPT ![h].pc = "execute", ![h].call = pending]
          /\ UNCHANGED messages
       \/ /\ Answer(pending)
          /\ handler' = [handler EXCEPT ![h].pc = "resume", ![h].call = pending]
          /\ UNCHANGED approved
    /\ UNCHANGED <<queued, steps, loaded, ctx, watching, listed, driver, ended, executed>>

\* The decision comes too late, or twice, or for another command.
Refuse(h) ==
    /\ handler[h].pc = "sent" /\ ~Decidable(h)
    /\ handler' = [handler EXCEPT ![h] = NoDecision]
    /\ UNCHANGED <<task, ctx, watching, listed, driver, ended, approved, executed>>

\* shell.Execute starts, under the context of the request.
ExecuteApproved(h) ==
    /\ handler[h].pc = "execute"
    /\ Start(handler[h].call)
    /\ handler' = [handler EXCEPT ![h].pc = "record"]
    /\ UNCHANGED <<task, ctx, watching, listed, driver, ended, approved>>

\* The command ended; its result becomes a message.
RecordApproved(h) ==
    /\ handler[h].pc = "record"
    /\ Answer(handler[h].call)
    /\ handler' = [handler EXCEPT ![h].pc = "resume"]
    /\ UNCHANGED <<status, pending, queued, steps, loaded, ctx, watching, listed,
                   driver, ended, approved, executed>>

\* go resumeQueuedCalls, and the answer to the request.
SpawnResume(h) ==
    /\ handler[h].pc = "resume"
    /\ \E g \in Goroutines :
          /\ At(g, "off")
          /\ Goto(g, "resume")
    /\ handler' = [handler EXCEPT ![h] = NoDecision]
    /\ UNCHANGED <<task, ctx, watching, listed, ended, approved, executed>>

\* Mistake: the loop goes on, the calls that were saved are forgotten.
ResumeForgetting(g) ==
    /\ At(g, "resume")
    /\ IF status # "running" THEN Goto(g, "off") ELSE Goto(g, "loop")
    /\ UNCHANGED <<status, pending, queued, messages, steps, loaded, ctx, watching, listed,
                   handler, ended, approved, executed>>

\* resumeQueuedCalls: take the calls that were saved at the pause.
Resume(g) ==
    /\ At(g, "resume")
    /\ IF status # "running"
       THEN Goto(g, "off") /\ UNCHANGED queued
       ELSE /\ driver' = [driver EXCEPT ![g] = [pc |-> "next", calls |-> queued]]
            /\ queued' = <<>>
    /\ UNCHANGED <<status, pending, messages, steps, loaded, ctx, watching, listed,
                   handler, ended, approved, executed>>

-----------------------------------------------------------------------------
(* The context, its watcher and the reaper *)

Expire ==
    /\ ctx = "live" /\ ctx' = "expired"
    /\ UNCHANGED <<task, watching, listed, driver, handler, ended, approved, executed>>

\* Mistake: the deadline fails a task only while it is running.
FailableRunning == ctx = "expired" /\ status = "running"

Failable == ctx = "expired" /\ status \in {"running", "awaiting"}

\* watchTaskDeadline wakes up when the context is done, for whatever reason.
WatchDeadline ==
    /\ watching /\ ctx # "live"
    /\ watching' = FALSE
    /\ status' = IF Failable THEN "failed" ELSE status
    /\ ended' = (ended \/ Failable)
    /\ UNCHANGED <<pending, queued, messages, steps, loaded, ctx, listed, driver, handler,
                   approved, executed>>

\* The reaper finds the task idle for its TTL.
Reap ==
    /\ listed /\ listed' = FALSE
    /\ CancelContext
    /\ UNCHANGED <<task, watching, driver, handler, ended, approved, executed>>

\* Agent.Close, when the program stops.
Close ==
    /\ listed /\ ctx = "live" /\ CancelContext
    /\ UNCHANGED <<task, watching, listed, driver, handler, ended, approved, executed>>

Forgotten ==
    /\ ~listed /\ ~watching
    /\ \A g \in Goroutines : At(g, "off")
    /\ \A h \in Handlers : handler[h].pc = "idle"
    /\ UNCHANGED vars

-----------------------------------------------------------------------------
Drive(g) == Loop(g) \/ Model(g) \/ NextCall(g) \/ Dispatch(g) \/ Pause(g) \/ Record(g)
            \/ Finish(g) \/ FinishCancel(g) \/ Resume(g)

Handle(h) == Decide(h) \/ Refuse(h) \/ ExecuteApproved(h) \/ RecordApproved(h) \/ SpawnResume(h)

Next ==
    \/ \E g \in Goroutines : Drive(g)
    \/ \E h \in Handlers : Request(h) \/ Handle(h)
    \/ Expire \/ WatchDeadline \/ Reap \/ Close \/ Forgotten

Spec == Init /\ [][Next]_vars

\* Goroutines run, model requests and commands have timeouts, the deadline
\* passes; nobody has to decide anything.
Fairness ==
    /\ \A g \in Goroutines : WF_vars(Drive(g))
    /\ \A h \in Handlers : WF_vars(Handle(h))
    /\ WF_vars(Expire) /\ WF_vars(WatchDeadline)

FairSpec == Spec /\ Fairness

-----------------------------------------------------------------------------
(* Properties *)

Working == {g \in Goroutines : ~At(g, "off") /\ ~At(g, "cancel")}

Deciding == {h \in Handlers : handler[h].pc \notin {"idle", "sent"}}

\* One actor at a time advances the conversation, and none while it waits for
\* an administrator: calls are executed in order, never concurrently.
OneActor ==
    /\ Cardinality(Working) + Cardinality(Deciding) <= 1
    /\ status = "awaiting" => Working = {} /\ Deciding = {}

Turns == {i \in DOMAIN messages : messages[i].role = "assistant"}

\* What the assistant asked for in its turn at i is answered right after it, in
\* order: up to the next turn, or as far as the task got.
AnsweredInOrder(i) ==
    \A k \in DOMAIN messages[i].calls :
        i + k \in DOMAIN messages => messages[i + k] = [role |-> "tool", call |-> messages[i].calls[k]]

\* The conversation is one a model API accepts: a request is only made when
\* every tool call has exactly one answer, whatever was paused, denied or resumed.
ConversationIsComplete ==
    /\ \A i \in Turns : AnsweredInOrder(i)
    /\ (\E g \in Goroutines : At(g, "model")) =>
          \A i \in Turns : i + Len(messages[i].calls) <= Len(messages)
    /\ Cardinality({messages[i] : i \in DOMAIN messages \ Turns}) = Len(messages) - Cardinality(Turns)

\* No command runs twice, and one that needs approval only runs approved.
CommandsRunOnceApproved ==
    \A c \in Calls :
        /\ executed[c] <= 1
        /\ executed[c] = 1 /\ c.kind = "guarded" => c \in approved
        /\ executed[c] = 1 => c.kind \in {"exempt", "guarded"}

\* Calls whose result is in the conversation.
AnsweredCalls == {messages[i].call : i \in DOMAIN messages \ Turns}

Gate == INSTANCE ApprovalGate
            WITH Commands <- {c \in Calls : c.kind \in {"exempt", "guarded"}},
                 Guarded <- {c \in Calls : c.kind = "guarded"},
                 answered <- AnsweredCalls

\* However decisions, pauses and resumptions interleave, every command passes the gate
\* as the documentation says: a decision is taken once and for the command that waits,
\* nothing else is begun meanwhile, and a command is executed and answered at most once,
\* before the next call is taken.
CommandsPassGate == Gate!GateSpec

\* A task that has ended stays ended for its users: no late result, deadline or
\* decision revives a completed one, and a decision is only accepted by a task that
\* has not ended, not even when dispatch made a failed one wait for approval again.
EndIsFinal ==
    [][/\ status = "completed" => status' = "completed"
       /\ \A h \in Handlers :
             handler[h].pc = "sent" /\ handler'[h].pc \in {"execute", "resume"} => ~ended]_vars

\* Every task ends, even if nobody decides, unless it is given up as a whole.
TaskEnds == <>(status \in Terminal \/ ctx = "cancelled")

\* docs/ops-agent-overview.md:44: a task that timed out cannot be resumed.
FailedIsFinal == [][status = "failed" => status' = "failed"]_vars
=============================================================================
