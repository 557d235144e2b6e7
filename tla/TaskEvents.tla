----------------------------- MODULE TaskEvents -----------------------------
(***************************************************************************)
(* The event stream of one task of the operations agent                    *)
(* (internal/opsagent): emit appends an event to the task's history and    *)
(* sends it to the channels of the subscribers, Subscribe hands out a      *)
(* channel and the history, and the SSE handler writes both to a browser,  *)
(* which reconnects with the ID of the event it received last.             *)
(*                                                                         *)
(* An event is its ID, its place in the history.  OpsTask models what the  *)
(* goroutines of a task do; here any of them may emit at any time, because *)
(* every emit happens outside the critical section it reports on.          *)
(***************************************************************************)
EXTENDS Integers, Sequences, Functions

CONSTANTS Writers,    \* goroutines that emit: they drive, decide or watch the deadline
          Browsers,   \* EventSource objects of the operations page
          Capacity,   \* capacity of a subscriber's channel (32)
          MaxEvents   \* bound: events of the task

ASSUME TaskEventsAssumption ==
    /\ Capacity \in Nat \ {0} /\ MaxEvents \in Nat
    /\ Writers # {}

VARIABLES status,    \* terminalTask(state.Status)
          events,    \* state.Events: the kind of each event
          listed,    \* the task is in Agent.tasks
          writer,    \* progress of emit
          stream,    \* the connection of each browser
          received,  \* history: events a browser received over all its connections
          dropped,   \* history: events its connection lost to a full channel
          source     \* history: the goroutine that emitted each event

vars == <<status, events, listed, writer, stream, received, dropped, source>>

Ids == 1..MaxEvents

\* "ended": the status is terminal, its event not emitted yet; "send": the lock
\* is released, the event is still to be offered to the channels in left.
Writer == [pc : {"idle", "ended", "send"}, id : Ids \cup {0}, left : SUBSET Browsers]

\* "got": Get has answered; "write": Subscribe has; "loop": the history is
\* written; "left": the page closed the connection for good.
Stream == [pc      : {"closed", "got", "write", "loop", "left"},
           from    : 0..MaxEvents,  \* Last-Event-ID of the request
           ended   : BOOLEAN,       \* terminalTask of the snapshot taken by Get
           history : Seq(Ids),
           chan    : Seq(Ids),
           sent    : Seq(Ids)]      \* what the browser received

Quiet == [pc |-> "idle", id |-> 0, left |-> {}]

Closed == [pc |-> "closed", from |-> 0, ended |-> FALSE,
           history |-> <<>>, chan |-> <<>>, sent |-> <<>>]

TypeOK ==
    /\ status \in {"active", "ended"}
    /\ events \in Seq({"progress", "end"}) /\ Len(events) <= MaxEvents
    /\ listed \in BOOLEAN
    /\ writer \in [Writers -> Writer]
    /\ stream \in [Browsers -> Stream]
    /\ \A b \in Browsers : Len(stream[b].chan) <= Capacity
    /\ received \in [Browsers -> SUBSET Ids]
    /\ dropped \in [Browsers -> SUBSET Ids]
    /\ source \in Seq(Writers)

\* CreateTask.
Init ==
    /\ status = "active" /\ events = <<>> /\ listed = TRUE
    /\ writer = [w \in Writers |-> Quiet]
    /\ stream = [b \in Browsers |-> Closed]
    /\ received = [b \in Browsers |-> {}]
    /\ dropped = [b \in Browsers |-> {}]
    /\ source = <<>>

-----------------------------------------------------------------------------
(* emit *)

\* Keys of a.watchers: Subscribe registered them, closeFn has not removed them.
Subscribed == {b \in Browsers : stream[b].pc \in {"write", "loop"}}

EndEmitted == "end" \in Range(events)

\* The critical section of emit: the next ID, and the channels of this moment.
\* A task the reaper removed gets no events.
Emit(w, kind) ==
    IF listed
    THEN /\ events' = Append(events, kind)
         /\ source' = Append(source, w)
         /\ writer' = [writer EXCEPT ![w] = [pc |-> "send", id |-> Len(events) + 1, left |-> Subscribed]]
    ELSE /\ writer' = [writer EXCEPT ![w] = Quiet]
         /\ UNCHANGED <<events, source>>

\* One event of the bound is kept for the end.
Progress(w) ==
    /\ writer[w].pc = "idle"
    /\ Len(events) < (IF EndEmitted THEN MaxEvents ELSE MaxEvents - 1)
    /\ Emit(w, "progress")
    /\ UNCHANGED <<status, listed, stream, received, dropped>>

\* complete, fail or watchTaskDeadline sets the status and emits afterwards.
\* It happens once: nothing ends a task that dispatch has revived (OpsTask).
End(w) ==
    /\ writer[w].pc = "idle" /\ status = "active"
    /\ ~EndEmitted /\ \A v \in Writers : writer[v].pc # "ended"
    /\ status' = "ended"
    /\ writer' = [writer EXCEPT ![w].pc = "ended"]
    /\ UNCHANGED <<events, listed, stream, received, dropped, source>>

EmitEnd(w) ==
    /\ writer[w].pc = "ended" /\ Len(events) < MaxEvents
    /\ Emit(w, "end")
    /\ UNCHANGED <<status, listed, stream, received, dropped>>

\* dispatch makes a task the deadline has failed wait for an approval.
Revive ==
    /\ status = "ended" /\ status' = "active"
    /\ UNCHANGED <<events, listed, writer, stream, received, dropped, source>>

\* Mistake: the channel has no limit.
HasRoomAlways(b) == TRUE

HasRoom(b) == Len(stream[b].chan) < Capacity

\* emit, one channel, in the order of map iteration: an event that finds it
\* full is dropped.
Send(w, b) ==
    /\ writer[w].pc = "send" /\ b \in writer[w].left
    /\ IF HasRoom(b)
       THEN /\ stream' = [stream EXCEPT ![b].chan = Append(@, writer[w].id)]
            /\ UNCHANGED dropped
       ELSE /\ dropped' = [dropped EXCEPT ![b] = @ \cup {writer[w].id}]
            /\ UNCHANGED stream
    /\ writer' = [writer EXCEPT ![w].left = @ \ {b}]
    /\ UNCHANGED <<status, events, listed, received, source>>

Sent(w) ==
    /\ writer[w].pc = "send" /\ writer[w].left = {}
    /\ writer' = [writer EXCEPT ![w] = Quiet]
    /\ UNCHANGED <<status, events, listed, stream, received, dropped, source>>

-----------------------------------------------------------------------------
(* Handler.events and the EventSource it answers *)

\* What is sent to a channel nobody reads any more has no effect.
Unsubscribe(b) == writer' = [w \in Writers |-> [writer[w] EXCEPT !.left = @ \ {b}]]

\* The ID an EventSource sends is that of the event it received last.
LastEventID(b) == IF stream[b].sent = <<>> THEN stream[b].from
                  ELSE stream[b].sent[Len(stream[b].sent)]

\* Get: an EventSource connects again by itself, or the page made a new one.
\* An EventSource gives up when the task is not found.
Get(b) ==
    /\ stream[b].pc = "closed"
    /\ \E last \in {0, LastEventID(b)} :
          stream' = [stream EXCEPT ![b] =
              IF listed THEN [Closed EXCEPT !.pc = "got", !.from = last, !.ended = status = "ended"]
              ELSE [@ EXCEPT !.pc = "left"]]
    /\ UNCHANGED <<status, events, listed, writer, received, dropped, source>>

\* Mistakes: the newest event first; the first missing event is left out.
MissedNewestFirst(last) == [i \in 1..Len(events) - last |-> Len(events) + 1 - i]

MissedButOne(last) == [i \in 1..Len(events) - last - 1 |-> last + 1 + i]

\* The events behind the given ID, in order.
Missed(last) == [i \in 1..Len(events) - last |-> last + i]

Subscribe(b) ==
    /\ stream[b].pc = "got"
    /\ stream' = [stream EXCEPT ![b] =
           IF listed THEN [@ EXCEPT !.pc = "write", !.history = Missed(stream[b].from)]
           ELSE [@ EXCEPT !.pc = "left"]]
    /\ dropped' = [dropped EXCEPT ![b] = {}]
    /\ UNCHANGED <<status, events, listed, writer, received, source>>

\* Mistake: the history is read when it is written, not when Subscribe registers.
WriteHistoryLate(b) ==
    /\ stream[b].pc = "write"
    /\ stream' = [stream EXCEPT ![b] = [@ EXCEPT !.pc = "loop", !.sent = Missed(stream[b].from),
                                                 !.history = <<>>]]
    /\ received' = [received EXCEPT ![b] = @ \cup Range(Missed(stream[b].from))]
    /\ UNCHANGED <<status, events, listed, writer, dropped, source>>

\* writeEvents(history): the handler returns if the task had ended before.
WriteHistory(b) ==
    /\ stream[b].pc = "write"
    /\ received' = [received EXCEPT ![b] = @ \cup Range(stream[b].history)]
    /\ LET written == [stream[b] EXCEPT !.sent = @ \o stream[b].history, !.history = <<>>]
       IN IF stream[b].ended
          THEN /\ stream' = [stream EXCEPT ![b] = [written EXCEPT !.pc = "closed", !.chan = <<>>]]
               /\ Unsubscribe(b)
          ELSE /\ stream' = [stream EXCEPT ![b] = [written EXCEPT !.pc = "loop"]]
               /\ UNCHANGED writer
    /\ UNCHANGED <<status, events, listed, dropped, source>>

\* The loop writes the next event and returns after the last one of the task.
Deliver(b) ==
    /\ stream[b].pc = "loop" /\ stream[b].chan # <<>>
    /\ LET id == Head(stream[b].chan)
           written == [stream[b] EXCEPT !.sent = Append(@, id), !.chan = Tail(@)]
       IN /\ received' = [received EXCEPT ![b] = @ \cup {id}]
          /\ IF events[id] = "end"
             THEN /\ stream' = [stream EXCEPT ![b] = [written EXCEPT !.pc = "closed", !.chan = <<>>]]
                  /\ Unsubscribe(b)
             ELSE /\ stream' = [stream EXCEPT ![b] = written]
                  /\ UNCHANGED writer
    /\ UNCHANGED <<status, events, listed, dropped, source>>

\* The connection breaks, and is made again; or the page closes it.
Disconnect(b) ==
    /\ stream[b].pc \in {"got", "write", "loop"}
    /\ \E pc \in {"closed", "left"} :
          stream' = [stream EXCEPT ![b] = [@ EXCEPT !.pc = pc, !.history = <<>>, !.chan = <<>>]]
    /\ Unsubscribe(b)
    /\ UNCHANGED <<status, events, listed, received, dropped, source>>

\* The reaper removes the task; its subscribers are not told.
Reap ==
    /\ listed /\ listed' = FALSE
    /\ UNCHANGED <<status, events, writer, stream, received, dropped, source>>

\* Nobody is left who emits, reads or asks.
Forgotten ==
    /\ ~listed
    /\ \A w \in Writers : writer[w].pc = "idle"
    /\ \A b \in Browsers : stream[b].pc = "left"
    /\ UNCHANGED vars

-----------------------------------------------------------------------------
Write(w) == EmitEnd(w) \/ Sent(w) \/ \E b \in Browsers : Send(w, b)

Serve(b) == Subscribe(b) \/ WriteHistory(b) \/ Deliver(b)

Next ==
    \/ \E w \in Writers : Progress(w) \/ End(w) \/ Write(w)
    \/ \E b \in Browsers : Get(b) \/ Serve(b) \/ Disconnect(b)
    \/ Revive \/ Reap \/ Forgotten

Spec == Init /\ [][Next]_vars

\* Goroutines run.  A browser connects again, and a connection that is made
\* again and again holds long enough to be used once.  Nothing has to be
\* emitted, to break, or to end.
Fairness ==
    /\ \A w \in Writers : WF_vars(Write(w))
    /\ \A b \in Browsers :
          /\ WF_vars(Get(b)) /\ SF_vars(Subscribe(b))
          /\ SF_vars(WriteHistory(b)) /\ SF_vars(Deliver(b))

FairSpec == Spec /\ Fairness

-----------------------------------------------------------------------------
(* Properties *)

\* Events on their way to b.
OnTheWay(b) ==
    Range(stream[b].history) \cup Range(stream[b].chan)
        \cup {writer[w].id : w \in {v \in Writers : b \in writer[v].left}}

\* However Subscribe and emit interleave, an open connection carries each event
\* behind the ID it asked for, except those that found its channel full, and none
\* twice: history and channel neither overlap nor leave a gap.
EachEventOnce ==
    /\ \A b \in Browsers : IsInjective(stream[b].sent)
    /\ \A b \in Subscribed :
          stream[b].from + 1 .. Len(events) \subseteq Range(stream[b].sent) \cup OnTheWay(b) \cup dropped[b]

\* Two emits may overtake each other between lock and channel, but what one
\* goroutine emits arrives in the order in which it emitted it.
OrderPerWriter ==
    \A b \in Browsers : \A i, j \in DOMAIN stream[b].sent :
        LET k == stream[b].sent[i]
            m == stream[b].sent[j]
        IN i < j /\ source[k] = source[m] => k <= m

\* The event that ends the task does not reach b: a full channel dropped it, or
\* b asks for what follows a later event that overtook it.
EndIsLost(b) ==
    \E id \in DOMAIN events : events[id] = "end" /\ (id \in dropped[b] \/ id <= stream[b].from)

\* The end of a task reaches every page that stays, over however many
\* connections, unless it is lost to a full channel or was overtaken.
EndReachesBrowser ==
    \A b \in Browsers :
        EndEmitted ~> \/ \E id \in received[b] : events[id] = "end"
                      \/ EndIsLost(b)
                      \/ ~listed \/ stream[b].pc = "left"
=============================================================================
