--------------------------- MODULE OpsTaskProofs ---------------------------
(***************************************************************************)
(* Proofs about one task of the operations agent, for any limits and any   *)
(* number of goroutines and handlers.  The inductive invariant IInv passes *)
(* a token: at most one goroutine or handler acts for the task, and what   *)
(* it holds (its remaining calls, the call it executes, the calls saved at *)
(* the pause) is what the last turn of the assistant still waits for.      *)
(***************************************************************************)
EXTENDS OpsTask, FiniteSetTheorems, SequenceTheorems, TLAPS

\* A goroutine, or a handler, that acts for the task.
Works(g) == driver[g].pc \notin {"off", "cancel"}

Decides(h) == handler[h].pc \notin {"idle", "sent"}

Nobody == (\A g \in Goroutines : ~Works(g)) /\ (\A h \in Handlers : ~Decides(h))

\* Nobody but the goroutine g, or the handler h, acts for the task.
OnlyDriver(g) == (\A k \in Goroutines \ {g} : ~Works(k)) /\ (\A h \in Handlers : ~Decides(h))

OnlyHandler(h) == (\A g \in Goroutines : ~Works(g)) /\ (\A k \in Handlers \ {h} : ~Decides(k))

ActorInv ==
    /\ \A g \in Goroutines : Works(g) => OnlyDriver(g)
    /\ \A h \in Handlers : Decides(h) => OnlyHandler(h)

IsTurn(i) == messages[i].role = "assistant"

LastTurn(i) == i \in Turns /\ \A j \in Turns : j <= i

\* Calls of the last turn that have an answer.
Answered(i) == Len(messages) - i

\* calls are the calls of the turn at i behind its first n ones.
Follows(calls, n, i) ==
    /\ n + Len(calls) = Len(messages[i].calls)
    /\ \A k \in 1..Len(calls) : calls[k] = messages[i].calls[n + k]

\* The calls that still have to be answered, in order.
Outstanding(calls) == \E i \in Turns : LastTurn(i) /\ Follows(calls, Answered(i), i)

\* The call whose answer comes next; what follows it has been saved.
AtCall(call) ==
    \E i \in Turns : /\ LastTurn(i)
                     /\ Answered(i) + 1 \in 1..Len(messages[i].calls)
                     /\ messages[i].calls[Answered(i) + 1] = call
                     /\ Follows(queued, Answered(i) + 1, i)

\* Every call has been answered.
Settled == \A i \in Turns : i + Len(messages[i].calls) <= Len(messages)

\* The turn that is asked for now will be numbered differently from all before.
Fresh == \A i \in Turns : \A k \in 1..Len(messages[i].calls) : messages[i].calls[k].step < steps

\* The calls of a turn are numbered.
CallsNumbered ==
    \A i \in Turns : \A k \in 1..Len(messages[i].calls) :
        messages[i].calls[k].index = k /\ messages[i].calls[k].step <= steps

\* A turn is only asked for when the ones before are answered.
TurnsOrdered == \A i, j \in Turns : i < j => i + Len(messages[i].calls) < j

\* The calls of a later turn have a higher number.
StepsOrdered ==
    \A i, j \in Turns : i < j =>
        \A k \in 1..Len(messages[i].calls), m \in 1..Len(messages[j].calls) :
            messages[i].calls[k].step < messages[j].calls[m].step

TurnsAnswered == \A i \in Turns : AnsweredInOrder(i)

\* Every message that is not a turn answers a call of one.
AnswersAsked ==
    \A j \in DOMAIN messages \ Turns : \E i \in Turns : i < j /\ j <= i + Len(messages[i].calls)

ConversationInv == CallsNumbered /\ TurnsOrdered /\ StepsOrdered /\ TurnsAnswered /\ AnswersAsked

\* What a goroutine holds at each stage.
DriverHolds(g) ==
    /\ driver[g].pc = "resume" => Outstanding(queued)
    /\ driver[g].pc = "loop" => Settled
    /\ driver[g].pc = "model" => Settled /\ Fresh /\ steps > 0
    /\ driver[g].pc = "next" => Outstanding(driver[g].calls)
    /\ driver[g].pc \in {"dispatch", "record"} =>
          /\ driver[g].calls # <<>> /\ queued = Tail(driver[g].calls)
          /\ AtCall(Head(driver[g].calls))

\* What a handler holds once it has taken the pending command.
HandlerHolds(h) ==
    /\ handler[h].pc \in {"execute", "record"} =>
          /\ handler[h].call \in approved /\ handler[h].call.kind = "guarded"
          /\ AtCall(handler[h].call)
    /\ handler[h].pc = "resume" => Outstanding(queued)

DriverInv == \A g \in Goroutines : DriverHolds(g)

HandlerInv == \A h \in Handlers : HandlerHolds(h)

\* A pending command waits alone.
PauseInv ==
    /\ pending # None => Nobody /\ pending.kind = "guarded" /\ AtCall(pending)
    /\ status = "awaiting" => pending # None

\* The end of a task takes its actors or its context with it.
EndInv ==
    /\ status = "completed" => Nobody
    /\ ended => ctx # "live" \/ (status \in Terminal /\ Nobody)

HasAnswer(c) == \E j \in DOMAIN messages \ Turns : messages[j].call = c

\* A command that was started is answered, or its actor is about to answer it.
ExecutedInv ==
    \A c \in Calls : executed[c] > 0 =>
        \/ HasAnswer(c)
        \/ \E g \in Goroutines : driver[g].pc = "record" /\ Head(driver[g].calls) = c
        \/ \E h \in Handlers : handler[h].pc = "record" /\ handler[h].call = c

IInv == /\ TypeOK /\ ActorInv /\ ConversationInv /\ DriverInv /\ HandlerInv
        /\ PauseInv /\ EndInv /\ ExecutedInv /\ CommandsRunOnceApproved

-----------------------------------------------------------------------------
(* The conversation *)

\* Turns are messages with calls, the others answers to one call.
LEMMA MessageTypes ==
    ASSUME TypeOK
    PROVE  /\ Len(messages) \in Nat /\ DOMAIN messages = 1..Len(messages)
           /\ Turns \subseteq 1..Len(messages)
           /\ \A i \in Turns : /\ messages[i].calls \in Seq(Calls)
                              /\ Len(messages[i].calls) \in Nat
                              /\ DOMAIN messages[i].calls = 1..Len(messages[i].calls)
                              /\ \A k \in 1..Len(messages[i].calls) : messages[i].calls[k] \in Calls
           /\ \A i \in 1..Len(messages) : i \notin Turns =>
                 /\ messages[i].call \in Calls
                 /\ messages[i] = [role |-> "tool", call |-> messages[i].call]
<1>1. messages \in Seq(Message)
  BY DEF TypeOK
<1>2. Len(messages) \in Nat /\ DOMAIN messages = 1..Len(messages)
  BY <1>1
<1>3. \A i \in 1..Len(messages) : messages[i] \in Message
  BY <1>1
<1>4. Turns \subseteq 1..Len(messages)
  BY <1>2 DEF Turns
<1>5. ASSUME NEW i \in Turns
      PROVE  /\ messages[i].calls \in Seq(Calls)
             /\ Len(messages[i].calls) \in Nat
             /\ DOMAIN messages[i].calls = 1..Len(messages[i].calls)
             /\ \A k \in 1..Len(messages[i].calls) : messages[i].calls[k] \in Calls
  <2>1. messages[i].calls \in Seq(Calls)
    BY <1>3, <1>4, <1>5 DEF Turns, Message
  <2>2. QED
    BY <2>1
<1>6. ASSUME NEW i \in 1..Len(messages), i \notin Turns
      PROVE  /\ messages[i].call \in Calls
             /\ messages[i] = [role |-> "tool", call |-> messages[i].call]
  BY <1>2, <1>3, <1>6 DEF Turns, Message
<1>7. QED
  BY <1>2, <1>4, <1>5, <1>6

\* Every call is a record with a step, an index and a kind.
LEMMA CallFields ==
    ASSUME NEW c \in Calls
    PROVE  c.step \in 1..MaxSteps /\ c.index \in 1..MaxCalls[c.step] /\ c.kind \in Kinds
BY DEF Calls

\* Appending an answer keeps all turns.
LEMMA AnswerKeepsTurns ==
    ASSUME TypeOK, NEW call \in Calls, Answer(call)
    PROVE  /\ Turns' = Turns
           /\ Len(messages') = Len(messages) + 1
           /\ \A i \in 1..Len(messages) : messages'[i] = messages[i]
           /\ messages'[Len(messages) + 1] = [role |-> "tool", call |-> call]
           /\ DOMAIN messages' = 1..Len(messages) + 1
<1>1. messages \in Seq(Message) /\ [role |-> "tool", call |-> call] \in Message
  BY DEF TypeOK, Message
<1>2. /\ Len(messages') = Len(messages) + 1
      /\ \A i \in 1..Len(messages) : messages'[i] = messages[i]
      /\ messages'[Len(messages) + 1] = [role |-> "tool", call |-> call]
      /\ DOMAIN messages' = 1..Len(messages) + 1
      /\ Len(messages) \in Nat
  BY <1>1 DEF Answer
<1>3. Turns' = Turns
  BY <1>2, MessageTypes DEF Turns
<1>4. QED
  BY <1>2, <1>3

\* Answering the call whose turn it is keeps the conversation in order and
\* leaves the saved calls outstanding.
LEMMA AnswerStep ==
    ASSUME TypeOK, ConversationInv, NEW call \in Calls, AtCall(call), Answer(call),
           UNCHANGED <<queued, steps>>
    PROVE  /\ ConversationInv'
           /\ Outstanding(queued)'
           /\ HasAnswer(call)'
           /\ \A c \in Calls : HasAnswer(c) => HasAnswer(c)'
<1>1. PICK t \in Turns : /\ LastTurn(t)
                         /\ Answered(t) + 1 \in 1..Len(messages[t].calls)
                         /\ messages[t].calls[Answered(t) + 1] = call
                         /\ Follows(queued, Answered(t) + 1, t)
  BY DEF AtCall
<1> DEFINE n == Len(messages)
<1>2. /\ Turns' = Turns
      /\ Len(messages') = n + 1
      /\ \A i \in 1..n : messages'[i] = messages[i]
      /\ messages'[n + 1] = [role |-> "tool", call |-> call]
      /\ DOMAIN messages' = 1..n + 1
  BY AnswerKeepsTurns
<1>3. /\ n \in Nat /\ DOMAIN messages = 1..n /\ Turns \subseteq 1..n
      /\ \A i \in Turns : Len(messages[i].calls) \in Nat
      /\ \A i \in Turns : DOMAIN messages[i].calls = 1..Len(messages[i].calls)
  BY MessageTypes
<1>4. \A i \in Turns : messages'[i] = messages[i] /\ i \in 1..n
  BY <1>2, <1>3
<1>5. t <= n /\ n + 1 <= t + Len(messages[t].calls) /\ t \in 1..n /\ \A j \in Turns : j <= t
  BY <1>1, <1>3 DEF Answered, LastTurn
<1>6. ConversationInv'
  <2>1. \A i \in Turns : AnsweredInOrder(i)'
    <3>1. SUFFICES ASSUME NEW i \in Turns, NEW k \in 1..Len(messages[i].calls), i + k \in 1..n + 1
                   PROVE  messages'[i + k] = [role |-> "tool", call |-> messages[i].calls[k]]
      BY <1>2, <1>3, <1>4 DEF AnsweredInOrder
    <3>2. CASE i + k <= n
      <4>1. i + k \in 1..n /\ messages'[i + k] = messages[i + k]
        BY <1>2, <1>3, <3>2
      <4>2. QED
        BY <1>3, <4>1 DEF ConversationInv, TurnsAnswered, AnsweredInOrder
    <3>3. CASE i + k = n + 1
      <4>1. i = t
        <5>1. CASE i < t
          BY <1>3, <1>4, <1>5, <3>3, <5>1 DEF ConversationInv, TurnsOrdered
        <5>2. QED
          BY <1>3, <1>5, <5>1
      <4>2. k = Answered(t) + 1
        BY <1>3, <1>5, <3>3, <4>1 DEF Answered
      <4>3. QED
        BY <1>1, <1>2, <3>3, <4>1, <4>2
    <3>4. QED
      BY <1>3, <3>1, <3>2, <3>3
  <2>2. \A j \in DOMAIN messages' \ Turns : \E i \in Turns : i < j /\ j <= i + Len(messages[i].calls)
    <3>1. SUFFICES ASSUME NEW j \in 1..n + 1, j \notin Turns
                   PROVE  \E i \in Turns : i < j /\ j <= i + Len(messages[i].calls)
      BY <1>2
    <3>2. CASE j \in 1..n
      BY <1>3, <3>1, <3>2 DEF ConversationInv, AnswersAsked
    <3>3. CASE j = n + 1
      BY <1>3, <1>5, <3>3
    <3>4. QED
      BY <1>3, <3>2, <3>3
  <2>3. CallsNumbered'
    BY <1>2, <1>4 DEF ConversationInv, CallsNumbered
  <2>4. TurnsOrdered'
    BY <1>2, <1>4 DEF ConversationInv, TurnsOrdered
  <2>5. StepsOrdered'
    <3>1. SUFFICES ASSUME NEW i \in Turns, NEW j \in Turns, i < j,
                          NEW k \in 1..Len(messages'[i].calls), NEW m \in 1..Len(messages'[j].calls)
                   PROVE  messages'[i].calls[k].step < messages'[j].calls[m].step
      BY <1>2 DEF StepsOrdered
    <3>2. messages'[i] = messages[i] /\ messages'[j] = messages[j]
      BY <1>4, <3>1
    <3>3. k \in 1..Len(messages[i].calls) /\ m \in 1..Len(messages[j].calls)
      BY <3>1, <3>2
    <3>4. messages[i].calls[k].step < messages[j].calls[m].step
      BY <3>1, <3>3 DEF ConversationInv, StepsOrdered
    <3>5. QED
      BY <3>2, <3>4
  <2>6. TurnsAnswered'
    BY <1>2, <2>1 DEF TurnsAnswered
  <2>7. AnswersAsked'
    BY <1>2, <1>4, <2>2 DEF AnswersAsked
  <2>8. QED
    BY <2>3, <2>4, <2>5, <2>6, <2>7 DEF ConversationInv
<1>7. Outstanding(queued)'
  <2>1. LastTurn(t)'
    BY <1>1, <1>2 DEF LastTurn
  <2>2. Answered(t)' = Answered(t) + 1
    BY <1>2, <1>3, <1>5 DEF Answered
  <2>3. Follows(queued, Answered(t), t)'
    BY <1>1, <1>4, <2>2 DEF Follows
  <2>4. QED
    BY <1>2, <2>1, <2>3 DEF Outstanding
<1>8. HasAnswer(call)'
  BY <1>2, <1>3 DEF HasAnswer
<1>9. \A c \in Calls : HasAnswer(c) => HasAnswer(c)'
  BY <1>2, <1>3 DEF HasAnswer
<1>10. QED
  BY <1>6, <1>7, <1>8, <1>9

\* The call whose turn it is has no answer yet.
LEMMA NextIsUnanswered ==
    ASSUME TypeOK, ConversationInv, NEW call \in Calls, AtCall(call)
    PROVE  ~HasAnswer(call)
<1>1. PICK t \in Turns : /\ LastTurn(t)
                         /\ Answered(t) + 1 \in 1..Len(messages[t].calls)
                         /\ messages[t].calls[Answered(t) + 1] = call
  BY DEF AtCall
<1> DEFINE n == Len(messages)
<1>2. /\ n \in Nat /\ DOMAIN messages = 1..n /\ Turns \subseteq 1..n
      /\ \A i \in Turns : Len(messages[i].calls) \in Nat
      /\ \A i \in Turns : DOMAIN messages[i].calls = 1..Len(messages[i].calls)
  BY MessageTypes
<1>3. SUFFICES ASSUME NEW j \in 1..n, j \notin Turns, messages[j].call = call
               PROVE  FALSE
  BY <1>2 DEF HasAnswer
<1>4. PICK i \in Turns : i < j /\ j <= i + Len(messages[i].calls)
  BY <1>2, <1>3 DEF ConversationInv, AnswersAsked
<1>5. j - i \in 1..Len(messages[i].calls) /\ i + (j - i) = j
  BY <1>2, <1>4
<1>6. messages[j] = [role |-> "tool", call |-> messages[i].calls[j - i]]
  <2>1. AnsweredInOrder(i)
    BY DEF ConversationInv, TurnsAnswered
  <2>2. PICK k : k = j - i
    OBVIOUS
  <2>3. k \in DOMAIN messages[i].calls /\ i + k = j /\ j \in DOMAIN messages
    BY <1>2, <1>5, <2>2
  <2>4. QED
    BY <2>1, <2>2, <2>3 DEF AnsweredInOrder
<1>7. messages[i].calls[j - i] = messages[t].calls[Answered(t) + 1]
  BY <1>1, <1>3, <1>6
<1>8. CASE i = t
  <2>1. j - i = Answered(t) + 1
    <3>1. messages[i].calls[j - i].index = j - i
      BY <1>5 DEF ConversationInv, CallsNumbered
    <3>2. messages[t].calls[Answered(t) + 1].index = Answered(t) + 1
      BY <1>1 DEF ConversationInv, CallsNumbered
    <3>3. QED
      BY <1>7, <3>1, <3>2
  <2>2. t \in 1..n /\ j \in 1..n
    BY <1>2, <1>3
  <2>3. QED
    BY <1>2, <1>8, <2>1, <2>2 DEF Answered
<1>9. CASE i < t
  <2>1. call.step \in Nat
    BY CallFields, OpsTaskAssumption
  <2>2. messages[i].calls[j - i].step < messages[t].calls[Answered(t) + 1].step
    BY <1>1, <1>5, <1>9 DEF ConversationInv, StepsOrdered
  <2>3. QED
    BY <1>1, <1>7, <2>1, <2>2
<1>10. QED
  BY <1>1, <1>2, <1>8, <1>9 DEF LastTurn

\* The calls of a completion are numbered within the task.
LEMMA CompletionCalls ==
    ASSUME NEW n \in 1..MaxSteps, NEW calls \in Completions(n)
    PROVE  /\ calls \in Seq(Calls)
           /\ \A k \in 1..Len(calls) : calls[k].step = n /\ calls[k].index = k
<1>0. PICK m \in 0..MaxCalls[n] : \E kinds \in [1..m -> Kinds] :
          calls = [i \in 1..m |-> [step |-> n, index |-> i, kind |-> kinds[i]]]
  BY DEF Completions
<1>1. PICK kinds \in [1..m -> Kinds] :
          calls = [i \in 1..m |-> [step |-> n, index |-> i, kind |-> kinds[i]]]
  BY <1>0
<1>2. m \in Nat /\ MaxCalls[n] \in Nat
  BY OpsTaskAssumption
<1>3. \A i \in 1..m : [step |-> n, index |-> i, kind |-> kinds[i]] \in Calls
  <2>1. SUFFICES ASSUME NEW i \in 1..m
                 PROVE  [step |-> n, index |-> i, kind |-> kinds[i]]
                            \in [step : {n}, index : 1..MaxCalls[n], kind : Kinds]
    BY DEF Calls
  <2>2. i \in 1..MaxCalls[n] /\ kinds[i] \in Kinds
    BY <1>2
  <2>3. QED
    BY <2>2
<1>4. calls \in [1..m -> Calls]
  BY <1>1, <1>3
<1>5. calls \in Seq(Calls) /\ Len(calls) = m
  BY <1>2, <1>4
<1>6. QED
  BY <1>1, <1>5

\* A new turn leaves all its calls outstanding.
LEMMA AskStep ==
    ASSUME TypeOK, ConversationInv, Settled, Fresh, steps > 0,
           NEW calls \in Completions(steps),
           messages' = Append(messages, [role |-> "assistant", calls |-> calls]),
           UNCHANGED steps
    PROVE  /\ messages' \in Seq(Message)
           /\ ConversationInv'
           /\ Outstanding(calls)'
           /\ \A c \in Calls : HasAnswer(c) => HasAnswer(c)'
<1> DEFINE n == Len(messages)
           turn == [role |-> "assistant", calls |-> calls]
<1>0. steps \in 1..MaxSteps
  BY OpsTaskAssumption DEF TypeOK
<1>1. /\ calls \in Seq(Calls) /\ Len(calls) \in Nat /\ DOMAIN calls = 1..Len(calls)
      /\ \A k \in 1..Len(calls) : calls[k].step = steps /\ calls[k].index = k
  BY <1>0, CompletionCalls
<1>2. messages \in Seq(Message) /\ turn \in Message /\ turn.calls = calls /\ turn.role = "assistant"
  BY <1>1 DEF TypeOK, Message
<1> HIDE DEF turn
<1>3. /\ n \in Nat /\ DOMAIN messages = 1..n /\ Turns \subseteq 1..n
      /\ \A i \in Turns : Len(messages[i].calls) \in Nat
      /\ \A i \in Turns : DOMAIN messages[i].calls = 1..Len(messages[i].calls)
  BY MessageTypes
<1>4. /\ Len(messages') = n + 1 /\ DOMAIN messages' = 1..n + 1
      /\ \A i \in 1..n : messages'[i] = messages[i]
      /\ messages'[n + 1] = turn
      /\ messages' \in Seq(Message)
  BY <1>2 DEF turn
<1>5. Turns' = Turns \cup {n + 1}
  BY <1>2, <1>3, <1>4 DEF Turns
<1>6. /\ \A i \in Turns : messages'[i] = messages[i]
      /\ \A i \in Turns : i < n + 1 /\ i + Len(messages[i].calls) < n + 1
      /\ messages'[n + 1].calls = calls
      /\ Len(messages'[n + 1].calls) = Len(calls)
      /\ n + 1 \notin Turns
  BY <1>2, <1>3, <1>4 DEF Settled
<1>7. CallsNumbered'
  <2>1. SUFFICES ASSUME NEW i \in Turns', NEW k \in 1..Len(messages'[i].calls)
                 PROVE  messages'[i].calls[k].index = k /\ messages'[i].calls[k].step <= steps'
    BY DEF CallsNumbered
  <2>2. CASE i \in Turns
    <3>1. messages'[i] = messages[i] /\ k \in 1..Len(messages[i].calls)
      BY <1>6, <2>2
    <3>2. QED
      BY <2>2, <3>1 DEF ConversationInv, CallsNumbered
  <2>3. CASE i = n + 1
    BY <1>0, <1>1, <1>6, <2>3
  <2>4. QED
    BY <1>5, <2>2, <2>3
<1>8. TurnsOrdered'
  BY <1>3, <1>5, <1>6 DEF ConversationInv, TurnsOrdered
<1>9. StepsOrdered'
  BY <1>1, <1>3, <1>5, <1>6 DEF ConversationInv, StepsOrdered, Fresh
<1>10. TurnsAnswered'
  <2>1. SUFFICES ASSUME NEW i \in Turns \cup {n + 1}, NEW k \in 1..Len(messages'[i].calls),
                        i + k \in 1..n + 1
                 PROVE  messages'[i + k] = [role |-> "tool", call |-> messages'[i].calls[k]]
    <3>1. \A i \in Turns \cup {n + 1} : DOMAIN messages'[i].calls = 1..Len(messages'[i].calls)
      BY <1>1, <1>3, <1>6
    <3>2. SUFFICES ASSUME NEW i \in Turns' PROVE AnsweredInOrder(i)'
      BY DEF TurnsAnswered
    <3>3. i \in Turns \cup {n + 1}
      BY <1>5
    <3>4. DOMAIN messages'[i].calls = 1..Len(messages'[i].calls)
      BY <3>1, <3>3
    <3>5. SUFFICES ASSUME NEW k \in DOMAIN messages'[i].calls, i + k \in DOMAIN messages'
                   PROVE  messages'[i + k] = [role |-> "tool", call |-> messages'[i].calls[k]]
      BY DEF AnsweredInOrder
    <3>6. k \in 1..Len(messages'[i].calls) /\ i + k \in 1..n + 1
      BY <1>4, <3>4, <3>5
    <3>7. QED
      BY <3>3, <3>6
  <2>2. i # n + 1
    BY <1>1, <1>3, <1>6, <2>1
  <2>3. i \in Turns /\ k \in 1..Len(messages[i].calls) /\ i + k \in 1..n
    BY <1>3, <1>6, <2>1, <2>2
  <2>4. messages[i + k] = [role |-> "tool", call |-> messages[i].calls[k]]
    BY <1>3, <2>3 DEF ConversationInv, TurnsAnswered, AnsweredInOrder
  <2>5. QED
    BY <1>4, <1>6, <2>3, <2>4
<1>11. AnswersAsked'
  BY <1>3, <1>4, <1>5, <1>6 DEF ConversationInv, AnswersAsked
<1>12. Outstanding(calls)'
  <2>1. PICK t \in Nat : t = n + 1
    BY <1>3
  <2>2. LastTurn(t)'
    <3>1. t \in Turns' /\ \A j \in Turns' : j <= t
      BY <1>3, <1>5, <2>1
    <3>2. QED
      BY <3>1 DEF LastTurn
  <2>3. Answered(t)' = 0
    BY <1>3, <1>4, <2>1 DEF Answered
  <2>4. Follows(calls, Answered(t), t)'
    BY <1>1, <1>6, <2>1, <2>3 DEF Follows
  <2>5. QED
    BY <1>5, <2>1, <2>2, <2>4 DEF Outstanding
<1>13. \A c \in Calls : HasAnswer(c) => HasAnswer(c)'
  BY <1>3, <1>4, <1>5, <1>6 DEF HasAnswer
<1>14. QED
  BY <1>4, <1>7, <1>8, <1>9, <1>10, <1>11, <1>12, <1>13 DEF ConversationInv

\* The first outstanding call is the one to answer next, once what follows it is saved.
LEMMA OutstandingHead ==
    ASSUME TypeOK, NEW calls \in Seq(Calls), calls # <<>>, Outstanding(calls),
           queued' = Tail(calls), UNCHANGED messages
    PROVE  AtCall(Head(calls))'
<1>1. PICK t \in Turns : LastTurn(t) /\ Follows(calls, Answered(t), t)
  BY DEF Outstanding
<1>2. /\ Len(calls) \in Nat \ {0} /\ Head(calls) = calls[1]
      /\ Len(Tail(calls)) = Len(calls) - 1
      /\ \A k \in 1..Len(Tail(calls)) : Tail(calls)[k] = calls[k + 1]
  OBVIOUS
<1>3. Turns' = Turns /\ LastTurn(t)' /\ Answered(t)' = Answered(t)
  BY <1>1 DEF Turns, LastTurn, Answered
<1>4. Answered(t) \in Nat /\ Len(messages[t].calls) \in Nat
  BY <1>1, MessageTypes DEF Answered
<1>5. Answered(t) + 1 \in 1..Len(messages[t].calls) /\ messages[t].calls[Answered(t) + 1] = Head(calls)
  BY <1>1, <1>2, <1>4 DEF Follows
<1>6. Follows(queued', Answered(t) + 1, t)
  <2>1. Answered(t) + 1 + Len(Tail(calls)) = Len(messages[t].calls)
    BY <1>1, <1>2, <1>4 DEF Follows
  <2>2. ASSUME NEW k \in 1..Len(Tail(calls))
        PROVE  Tail(calls)[k] = messages[t].calls[Answered(t) + 1 + k]
    <3>1. k + 1 \in 1..Len(calls) /\ Answered(t) + (k + 1) = Answered(t) + 1 + k
      BY <1>2, <1>4
    <3>2. calls[k + 1] = messages[t].calls[Answered(t) + (k + 1)]
      BY <1>1, <3>1 DEF Follows
    <3>3. QED
      BY <1>2, <3>1, <3>2
  <2>3. QED
    BY <2>1, <2>2 DEF Follows
<1>7. Follows(queued, Answered(t) + 1, t)'
  BY <1>3, <1>6 DEF Follows
<1>8. QED
  BY <1>1, <1>3, <1>5, <1>7 DEF AtCall

\* Nothing is outstanding: the next request may be made.
LEMMA NothingOutstanding ==
    ASSUME TypeOK, ConversationInv, Outstanding(<<>>)
    PROVE  Settled
<1>1. PICK t \in Turns : LastTurn(t) /\ Follows(<<>>, Answered(t), t)
  BY DEF Outstanding
<1>2. t + Len(messages[t].calls) = Len(messages)
  BY <1>1, MessageTypes DEF Follows, Answered
<1>3. \A i \in Turns : i = t \/ i < t
  BY <1>1, MessageTypes DEF LastTurn
<1>4. QED
  BY <1>1, <1>2, <1>3, MessageTypes DEF Settled, ConversationInv, TurnsOrdered

\* A step that adds no message keeps what is said about the conversation.
LEMMA SameConversation ==
    ASSUME TypeOK, ConversationInv, UNCHANGED messages
    PROVE  /\ Settled' = Settled
           /\ \A c : HasAnswer(c)' = HasAnswer(c)
           /\ \A calls : Outstanding(calls)' = Outstanding(calls)
           /\ queued' = queued => \A c : AtCall(c)' = AtCall(c)
           /\ steps' = steps => ConversationInv' /\ Fresh' = Fresh
           /\ steps' = steps + 1 => ConversationInv' /\ Fresh'
<1>1. Turns' = Turns /\ \A i : LastTurn(i)' = LastTurn(i) /\ Answered(i)' = Answered(i)
  BY DEF Turns, LastTurn, Answered
<1>2. \A calls, n, i : Follows(calls, n, i)' = Follows(calls, n, i)
  BY DEF Follows
<1>3. TurnsOrdered' /\ StepsOrdered' /\ TurnsAnswered' /\ AnswersAsked'
  BY <1>1 DEF ConversationInv, TurnsOrdered, StepsOrdered, TurnsAnswered, AnsweredInOrder, AnswersAsked
<1>4. /\ Settled' = Settled
      /\ \A c : HasAnswer(c)' = HasAnswer(c)
      /\ \A calls : Outstanding(calls)' = Outstanding(calls)
  BY <1>1, <1>2 DEF Settled, HasAnswer, Outstanding
<1>5. queued' = queued => \A c : AtCall(c)' = AtCall(c)
  BY <1>1, <1>2 DEF AtCall
<1>6. steps' = steps => CallsNumbered' /\ Fresh' = Fresh
  BY <1>1 DEF ConversationInv, CallsNumbered, Fresh
<1>7. steps' = steps + 1 => CallsNumbered' /\ Fresh'
  <2>1. SUFFICES ASSUME steps' = steps + 1, NEW i \in Turns, NEW k \in 1..Len(messages[i].calls)
                 PROVE  messages[i].calls[k].index = k /\ messages[i].calls[k].step < steps'
    <3>1. \A j \in Turns : \A m \in 1..Len(messages[j].calls) : messages[j].calls[m].step \in Int
      BY MessageTypes, CallFields, OpsTaskAssumption
    <3>2. QED
      BY <1>1, <3>1 DEF CallsNumbered, Fresh, TypeOK
  <2>2. messages[i].calls[k].index = k /\ messages[i].calls[k].step <= steps
    BY DEF ConversationInv, CallsNumbered
  <2>3. messages[i].calls[k].step \in Int /\ steps \in Int
    BY MessageTypes, CallFields, OpsTaskAssumption DEF TypeOK
  <2>4. QED
    BY <2>1, <2>2, <2>3
<1>8. QED
  BY <1>3, <1>4, <1>5, <1>6, <1>7 DEF ConversationInv

-----------------------------------------------------------------------------
(* The token *)

Drivers == [pc : DriverPC, calls : Seq(Calls)]

Deciders == [pc : HandlerPC, shown : Calls \cup {None}, call : Calls \cup {None}]

\* A step of the goroutine that acts leaves everybody else as idle as before;
\* only what it holds itself has to be shown again.
LEMMA DriverStep ==
    ASSUME IInv, NEW g \in Goroutines, Works(g),
           NEW d \in Drivers,
           driver' = [driver EXCEPT ![g] = d],
           UNCHANGED <<status, pending, ctx, ended, handler>>,
           DriverHolds(g)'
    PROVE  ActorInv' /\ DriverInv' /\ HandlerInv' /\ PauseInv' /\ EndInv'
<1>1. OnlyDriver(g)
  BY DEF IInv, ActorInv
<1>2. driver'[g] = d /\ \A k \in Goroutines \ {g} : driver'[k] = driver[k]
  BY DEF IInv, TypeOK
<1>3. OnlyDriver(g)'
  BY <1>1, <1>2 DEF OnlyDriver, Works, Decides
<1>4. ActorInv'
  BY <1>3 DEF ActorInv, OnlyDriver
<1>5. \A k \in Goroutines \ {g} : DriverHolds(k)'
  BY <1>3 DEF OnlyDriver, Works, DriverHolds
<1>6. HandlerInv'
  BY <1>3 DEF OnlyDriver, Decides, HandlerInv, HandlerHolds
<1>7. ~Nobody
  BY DEF Nobody
<1>8. PauseInv'
  BY <1>7 DEF IInv, PauseInv
<1>9. EndInv'
  BY <1>7 DEF IInv, EndInv
<1>10. QED
  BY <1>4, <1>5, <1>6, <1>8, <1>9 DEF DriverInv

\* The same for the handler that acts.
LEMMA HandlerStep ==
    ASSUME IInv, NEW h \in Handlers, Decides(h),
           NEW e \in Deciders,
           handler' = [handler EXCEPT ![h] = e],
           UNCHANGED <<status, pending, ctx, ended, driver>>,
           HandlerHolds(h)'
    PROVE  ActorInv' /\ DriverInv' /\ HandlerInv' /\ PauseInv' /\ EndInv'
<1>1. OnlyHandler(h)
  BY DEF IInv, ActorInv
<1>2. handler'[h] = e /\ \A k \in Handlers \ {h} : handler'[k] = handler[k]
  BY DEF IInv, TypeOK
<1>3. OnlyHandler(h)'
  BY <1>1, <1>2 DEF OnlyHandler, Works, Decides
<1>4. ActorInv'
  BY <1>3 DEF ActorInv, OnlyHandler
<1>5. \A k \in Handlers \ {h} : HandlerHolds(k)'
  BY <1>3 DEF OnlyHandler, Decides, HandlerHolds
<1>6. DriverInv'
  BY <1>3 DEF OnlyHandler, Works, DriverInv, DriverHolds
<1>7. ~Nobody
  BY DEF Nobody
<1>8. PauseInv'
  BY <1>7 DEF IInv, PauseInv
<1>9. EndInv'
  BY <1>7 DEF IInv, EndInv
<1>10. QED
  BY <1>4, <1>5, <1>6, <1>8, <1>9 DEF HandlerInv

\* Goto changes where a goroutine stands, not the calls it holds.
LEMMA GotoChanges ==
    ASSUME TypeOK, NEW g \in Goroutines, NEW pc \in DriverPC, Goto(g, pc)
    PROVE  \E d \in Drivers : /\ driver' = [driver EXCEPT ![g] = d]
                               /\ d.pc = pc /\ d.calls = driver[g].calls
<1>1. driver[g] \in Drivers
  BY DEF TypeOK, Drivers
<1>2. /\ [driver[g] EXCEPT !.pc = pc] \in Drivers
      /\ [driver[g] EXCEPT !.pc = pc].pc = pc
      /\ [driver[g] EXCEPT !.pc = pc].calls = driver[g].calls
  BY <1>1 DEF Drivers
<1>3. driver' = [driver EXCEPT ![g] = [driver[g] EXCEPT !.pc = pc]]
  BY DEF Goto
<1>4. QED
  BY <1>2, <1>3

\* While the goroutine that acts does not record a result, every command that
\* was started has its answer.
LEMMA StartedIsAnswered ==
    ASSUME IInv, NEW g \in Goroutines, Works(g), driver[g].pc # "record",
           NEW c \in Calls, executed[c] > 0
    PROVE  HasAnswer(c)
<1>1. OnlyDriver(g)
  BY DEF IInv, ActorInv
<1>2. \A k \in Goroutines : driver[k].pc # "record"
  BY <1>1 DEF OnlyDriver, Works
<1>3. \A h \in Handlers : handler[h].pc # "record"
  BY <1>1 DEF OnlyDriver, Decides
<1>4. QED
  BY <1>2, <1>3 DEF IInv, ExecutedInv

-----------------------------------------------------------------------------
(* The actions *)

\* The head of runLoop.
LEMMA LoopStep ==
    ASSUME IInv, NEW g \in Goroutines, Loop(g)
    PROVE  IInv'
<1> USE DEF IInv
<1>1. /\ driver[g].pc = "loop" /\ Works(g)
      /\ UNCHANGED <<status, pending, queued, messages, loaded, ctx, watching, listed,
                     handler, ended, approved, executed>>
  BY DEF Loop, At, Works
<1>2. PICK d \in Drivers :
          /\ driver' = [driver EXCEPT ![g] = d]
          /\ \/ d.pc = "fail" /\ steps' = steps
             \/ d.pc = "model" /\ steps' = steps + 1 /\ steps < MaxSteps
  <2>1. CASE steps >= MaxSteps
    BY <2>1, GotoChanges DEF Loop, DriverPC
  <2>2. CASE ~(steps >= MaxSteps)
    <3>1. steps < MaxSteps
      BY <2>2, OpsTaskAssumption DEF TypeOK
    <3>2. QED
      BY <2>2, <3>1, GotoChanges DEF Loop, DriverPC
  <2>3. QED
    BY <2>1, <2>2
<1>3. TypeOK'
  BY <1>1, <1>2, OpsTaskAssumption DEF TypeOK, Drivers
<1>4. ConversationInv' /\ Settled' /\ (steps' = steps + 1 => Fresh') /\ \A c : HasAnswer(c)' = HasAnswer(c)
  BY <1>1, <1>2, SameConversation DEF DriverInv, DriverHolds
<1>5. driver'[g] = d
  BY <1>2 DEF TypeOK
<1>6. DriverHolds(g)'
  BY <1>2, <1>4, <1>5 DEF DriverHolds, TypeOK
<1>7. ActorInv' /\ DriverInv' /\ HandlerInv' /\ PauseInv' /\ EndInv'
  BY <1>1, <1>2, <1>6, DriverStep
<1>8. ExecutedInv'
  BY <1>1, <1>4, StartedIsAnswered DEF ExecutedInv
<1>9. CommandsRunOnceApproved'
  BY <1>1 DEF CommandsRunOnceApproved
<1>10. QED
  BY <1>3, <1>4, <1>7, <1>8, <1>9

\* The model answers, or fails.
LEMMA ModelStep ==
    ASSUME IInv, NEW g \in Goroutines, Model(g)
    PROVE  IInv'
<1> USE DEF IInv
<1>1. /\ driver[g].pc = "model" /\ Works(g) /\ DriverHolds(g)
      /\ UNCHANGED <<status, pending, queued, steps, loaded, ctx, watching, listed,
                     handler, ended, approved, executed>>
  BY DEF Model, At, Works, DriverInv
<1>2. Settled /\ Fresh /\ steps > 0 /\ steps \in 1..MaxSteps
  BY <1>1, OpsTaskAssumption DEF DriverHolds, TypeOK
<1>3. CASE Goto(g, "fail") /\ UNCHANGED messages
  <2>1. PICK d \in Drivers : driver' = [driver EXCEPT ![g] = d] /\ d.pc = "fail"
    BY <1>3, GotoChanges DEF DriverPC
  <2>2. TypeOK'
    BY <1>1, <1>3, <2>1 DEF TypeOK, Drivers
  <2>3. ConversationInv' /\ \A c : HasAnswer(c)' = HasAnswer(c)
    BY <1>1, <1>3, SameConversation
  <2>4. DriverHolds(g)'
    BY <2>1 DEF DriverHolds, TypeOK
  <2>5. ActorInv' /\ DriverInv' /\ HandlerInv' /\ PauseInv' /\ EndInv'
    BY <1>1, <2>1, <2>4, DriverStep
  <2>6. ExecutedInv'
    BY <1>1, <2>3, StartedIsAnswered DEF ExecutedInv
  <2>7. CommandsRunOnceApproved'
    BY <1>1 DEF CommandsRunOnceApproved
  <2>8. QED
    BY <2>2, <2>3, <2>5, <2>6, <2>7
<1>4. ASSUME NEW calls \in Completions(steps),
             messages' = Append(messages, [role |-> "assistant", calls |-> calls]),
             driver' = [driver EXCEPT ![g] =
                           [pc |-> IF calls = <<>> THEN "complete" ELSE "next", calls |-> calls]]
      PROVE  IInv'
  <2>1. calls \in Seq(Calls)
    BY <1>2, CompletionCalls
  <2>2. PICK d \in Drivers :
            driver' = [driver EXCEPT ![g] = d] /\ d.pc \in {"complete", "next"} /\ d.calls = calls
    <3>1. [pc |-> IF calls = <<>> THEN "complete" ELSE "next", calls |-> calls] \in Drivers
      BY <2>1 DEF Drivers, DriverPC
    <3>2. QED
      BY <1>4, <3>1
  <2>3. /\ messages' \in Seq(Message)
        /\ ConversationInv'
        /\ Outstanding(calls)'
        /\ \A c \in Calls : HasAnswer(c) => HasAnswer(c)'
    BY <1>1, <1>2, <1>4, AskStep
  <2>4. TypeOK'
    BY <1>1, <2>2, <2>3 DEF TypeOK, Drivers
  <2>5. driver'[g] = d
    BY <2>2 DEF TypeOK
  <2>6. DriverHolds(g)'
    BY <2>2, <2>3, <2>5 DEF DriverHolds
  <2>7. ActorInv' /\ DriverInv' /\ HandlerInv' /\ PauseInv' /\ EndInv'
    BY <1>1, <2>2, <2>6, DriverStep
  <2>8. ExecutedInv'
    BY <1>1, <2>3, StartedIsAnswered DEF ExecutedInv
  <2>9. CommandsRunOnceApproved'
    BY <1>1 DEF CommandsRunOnceApproved
  <2>10. QED
    BY <2>3, <2>4, <2>7, <2>8, <2>9
<1>5. QED
  BY <1>3, <1>4 DEF Model

\* processToolCalls saves what follows the next call, or goes back to the loop.
LEMMA NextCallStep ==
    ASSUME IInv, NEW g \in Goroutines, NextCall(g)
    PROVE  IInv'
<1> USE DEF IInv
<1>1. /\ driver[g].pc = "next" /\ Works(g) /\ Outstanding(driver[g].calls)
      /\ driver[g].calls \in Seq(Calls)
      /\ UNCHANGED <<status, pending, messages, steps, loaded, ctx, watching, listed,
                     handler, ended, approved, executed>>
  BY DEF NextCall, At, Works, DriverInv, DriverHolds, TypeOK
<1>2. /\ ConversationInv' /\ Settled' = Settled
      /\ \A c : HasAnswer(c)' = HasAnswer(c)
  BY <1>1, SameConversation
<1>3. PICK d \in Drivers : /\ driver' = [driver EXCEPT ![g] = d]
                          /\ queued' \in Seq(Calls)
                          /\ \/ d.pc = "loop" /\ Settled'
                             \/ /\ d.pc = "dispatch" /\ d.calls # <<>>
                                /\ queued' = Tail(d.calls) /\ AtCall(Head(d.calls))'
  <2>1. CASE driver[g].calls = <<>>
    <3>1. Settled
      BY <1>1, <2>1, NothingOutstanding
    <3>2. queued' \in Seq(Calls) /\ Goto(g, "loop")
      BY <2>1 DEF NextCall, TypeOK
    <3>3. QED
      BY <1>2, <3>1, <3>2, GotoChanges DEF DriverPC
  <2>2. CASE driver[g].calls # <<>>
    <3>1. Goto(g, "dispatch") /\ queued' = Tail(driver[g].calls)
      BY <2>2 DEF NextCall
    <3>2. AtCall(Head(driver[g].calls))'
      <4>1. PICK calls \in Seq(Calls) : calls = driver[g].calls
        BY <1>1
      <4>2. AtCall(Head(calls))'
        BY <1>1, <2>2, <3>1, <4>1, OutstandingHead
      <4>3. PICK d \in Drivers : /\ driver' = [driver EXCEPT ![g] = d]
                                /\ d.pc = "dispatch" /\ d.calls = driver[g].calls
        BY <3>1, GotoChanges DEF DriverPC
      <4>4. driver'[g].calls = calls
        BY <4>1, <4>3 DEF TypeOK
      <4>5. QED
        BY <4>2, <4>4
    <3>3. queued' \in Seq(Calls)
      BY <1>1, <2>2, <3>1
    <3>4. PICK d \in Drivers : /\ driver' = [driver EXCEPT ![g] = d]
                              /\ d.pc = "dispatch" /\ d.calls = driver[g].calls
      BY <3>1, GotoChanges DEF DriverPC
    <3>5. driver'[g].calls = d.calls
      BY <3>4 DEF TypeOK
    <3>6. QED
      BY <2>2, <3>1, <3>2, <3>3, <3>4, <3>5
  <2>3. QED
    BY <2>1, <2>2
<1>4. TypeOK'
  BY <1>1, <1>3 DEF TypeOK, Drivers
<1>5. driver'[g] = d
  BY <1>3 DEF TypeOK
<1>6. DriverHolds(g)'
  BY <1>3, <1>5 DEF DriverHolds
<1>7. ActorInv' /\ DriverInv' /\ HandlerInv' /\ PauseInv' /\ EndInv'
  BY <1>1, <1>3, <1>6, DriverStep
<1>8. ExecutedInv'
  BY <1>1, <1>2, StartedIsAnswered DEF ExecutedInv
<1>9. CommandsRunOnceApproved'
  BY <1>1 DEF CommandsRunOnceApproved
<1>10. QED
  BY <1>2, <1>4, <1>7, <1>8, <1>9

\* A call that needs no approval is answered at once, a read-only command executed.
LEMMA DispatchStep ==
    ASSUME IInv, NEW g \in Goroutines, Dispatch(g)
    PROVE  IInv'
<1> USE DEF IInv
<1> DEFINE call == Head(driver[g].calls)
<1>1. /\ driver[g].pc = "dispatch" /\ Works(g)
      /\ driver[g].calls # <<>> /\ queued = Tail(driver[g].calls) /\ AtCall(call)
      /\ driver[g].calls \in Seq(Calls)
      /\ Goto(g, "record")
      /\ UNCHANGED <<status, pending, queued, messages, steps, ctx, watching, listed,
                     handler, ended, approved>>
  BY DEF Dispatch, At, Works, DriverInv, DriverHolds, TypeOK
<1>2. call \in Calls
  BY <1>1
<1>3. /\ loaded' \in BOOLEAN
      /\ \/ executed' = executed
         \/ call.kind = "exempt" /\ executed' = [executed EXCEPT ![call] = IF @ < 2 THEN @ + 1 ELSE @]
  BY DEF Dispatch, Start, TypeOK
<1>4. PICK d \in Drivers : /\ driver' = [driver EXCEPT ![g] = d]
                          /\ d.pc = "record" /\ d.calls = driver[g].calls
  BY <1>1, GotoChanges DEF DriverPC
<1>5. driver'[g] = d
  BY <1>4 DEF TypeOK
<1>6. /\ ConversationInv'
      /\ \A c : AtCall(c)' = AtCall(c)
      /\ \A c : HasAnswer(c)' = HasAnswer(c)
  BY <1>1, SameConversation
<1>7. executed[call] = 0
  <2>1. ~HasAnswer(call)
    BY <1>1, <1>2, NextIsUnanswered
  <2>2. ~(executed[call] > 0)
    BY <1>1, <1>2, <2>1, StartedIsAnswered
  <2>3. executed \in [Calls -> 0..2]
    BY DEF TypeOK
  <2>4. QED
    BY <1>2, <2>2, <2>3
<1>8. executed' \in [Calls -> 0..2] /\ \A c \in Calls \ {call} : executed'[c] = executed[c]
  <2>1. executed \in [Calls -> 0..2]
    BY DEF TypeOK
  <2>2. CASE executed' = executed
    BY <2>1, <2>2
  <2>3. CASE executed' = [executed EXCEPT ![call] = IF @ < 2 THEN @ + 1 ELSE @]
    <3>1. PICK x : x = IF executed[call] < 2 THEN executed[call] + 1 ELSE executed[call]
      OBVIOUS
    <3>2. executed' = [executed EXCEPT ![call] = x]
      BY <2>3, <3>1
    <3>3. x \in 0..2
      BY <1>7, <3>1
    <3>4. QED
      BY <2>1, <3>2, <3>3
  <2>4. QED
    BY <1>3, <2>2, <2>3
<1>9. executed'[call] = 0 \/ (executed'[call] = 1 /\ call.kind = "exempt")
  BY <1>2, <1>3, <1>7 DEF TypeOK
<1>10. TypeOK'
  BY <1>1, <1>3, <1>4, <1>8 DEF TypeOK, Drivers
<1>11. DriverHolds(g)'
  <2>1. \A c : c = call => AtCall(c)'
    BY <1>1, <1>6
  <2>2. AtCall(Head(driver[g].calls))'
    <3>1. PICK c \in Calls : c = call
      BY <1>2
    <3>2. AtCall(c)' /\ Head(driver'[g].calls) = c
      BY <1>4, <1>5, <2>1, <3>1
    <3>3. QED
      BY <3>2
  <2>3. QED
    BY <1>1, <1>4, <1>5, <2>2 DEF DriverHolds
<1>12. ActorInv' /\ DriverInv' /\ HandlerInv' /\ PauseInv' /\ EndInv'
  BY <1>1, <1>4, <1>11, DriverStep
<1>13. ExecutedInv'
  <2>1. SUFFICES ASSUME NEW c \in Calls, executed'[c] > 0
                 PROVE  HasAnswer(c)' \/ (driver'[g].pc = "record" /\ Head(driver'[g].calls) = c)
    BY DEF ExecutedInv
  <2>2. CASE c = call
    BY <1>4, <1>5, <2>2
  <2>3. CASE c # call
    BY <1>1, <1>6, <1>8, <2>1, <2>3, StartedIsAnswered
  <2>4. QED
    BY <2>2, <2>3
<1>14. CommandsRunOnceApproved'
  BY <1>1, <1>8, <1>9 DEF CommandsRunOnceApproved
<1>15. QED
  BY <1>6, <1>10, <1>12, <1>13, <1>14

\* A command that needs approval pauses the task and ends the goroutine.
LEMMA PauseStep ==
    ASSUME IInv, NEW g \in Goroutines, Pause(g)
    PROVE  IInv'
<1> USE DEF IInv
<1>1. /\ driver[g].pc = "dispatch" /\ Works(g)
      /\ driver[g].calls # <<>> /\ AtCall(Head(driver[g].calls))
      /\ driver[g].calls \in Seq(Calls)
      /\ Head(driver[g].calls).kind = "guarded"
      /\ pending' = Head(driver[g].calls) /\ status' = "awaiting"
      /\ driver' = [driver EXCEPT ![g] = [pc |-> "off", calls |-> <<>>]]
      /\ UNCHANGED <<queued, messages, steps, loaded, ctx, watching, listed,
                     handler, ended, approved, executed>>
  BY DEF Pause, At, Works, DriverInv, DriverHolds, TypeOK
<1>2. PICK call \in Calls : call = Head(driver[g].calls)
  BY <1>1
<1>3. /\ ConversationInv' /\ AtCall(call)'
      /\ \A c : HasAnswer(c)' = HasAnswer(c)
  BY <1>1, <1>2, SameConversation
<1>4. /\ driver'[g] = [pc |-> "off", calls |-> <<>>]
      /\ \A k \in Goroutines \ {g} : driver'[k] = driver[k]
  BY <1>1 DEF TypeOK
<1>5. TypeOK'
  <2>1. driver' \in [Goroutines -> [pc : DriverPC, calls : Seq(Calls)]]
    BY <1>1 DEF TypeOK, DriverPC
  <2>2. QED
    BY <1>1, <1>2, <2>1 DEF TypeOK, Statuses
<1>6. Nobody'
  BY <1>1, <1>4 DEF ActorInv, OnlyDriver, Nobody, Works, Decides
<1>7. ActorInv' /\ DriverInv' /\ HandlerInv'
  BY <1>6 DEF Nobody, Works, Decides, ActorInv, DriverInv, DriverHolds, HandlerInv, HandlerHolds
<1>8. PauseInv'
  <2>1. AtCall(pending)' /\ pending' # None
    BY <1>1, <1>2, <1>3, OpsTaskAssumption
  <2>2. QED
    BY <1>1, <1>6, <2>1 DEF PauseInv
<1>9. EndInv'
  BY <1>1 DEF EndInv, Nobody
<1>10. ExecutedInv'
  BY <1>1, <1>3, StartedIsAnswered DEF ExecutedInv
<1>11. CommandsRunOnceApproved'
  BY <1>1 DEF CommandsRunOnceApproved
<1>12. QED
  BY <1>3, <1>5, <1>7, <1>8, <1>9, <1>10, <1>11

\* The result of a call becomes a message.
LEMMA RecordStep ==
    ASSUME IInv, NEW g \in Goroutines, Record(g)
    PROVE  IInv'
<1> USE DEF IInv
<1>1. /\ driver[g].pc = "record" /\ Works(g)
      /\ driver[g].calls # <<>> /\ AtCall(Head(driver[g].calls))
      /\ queued = Tail(driver[g].calls)
      /\ driver[g].calls \in Seq(Calls)
      /\ Answer(Head(driver[g].calls))
      /\ UNCHANGED <<status, pending, queued, steps, loaded, ctx, watching, listed,
                     handler, ended, approved, executed>>
  BY DEF Record, At, Works, DriverInv, DriverHolds, TypeOK
<1>2. PICK call \in Calls : call = Head(driver[g].calls)
  BY <1>1
<1>3. /\ ConversationInv' /\ Outstanding(queued)' /\ HasAnswer(call)'
      /\ \A c \in Calls : HasAnswer(c) => HasAnswer(c)'
  BY <1>1, <1>2, AnswerStep
<1>4. PICK d \in Drivers : driver' = [driver EXCEPT ![g] = d] /\ d.pc = "next" /\ d.calls = queued
  <2>1. [pc |-> "next", calls |-> queued] \in Drivers
    BY DEF TypeOK, Drivers, DriverPC
  <2>2. driver' = [driver EXCEPT ![g] = [pc |-> "next", calls |-> queued]]
    BY <1>1 DEF Record
  <2>3. QED
    BY <2>1, <2>2
<1>5. driver'[g] = d
  BY <1>4 DEF TypeOK
<1>6. TypeOK'
  <2>1. messages' \in Seq(Message)
    BY <1>1, <1>2 DEF Answer, TypeOK, Message
  <2>2. QED
    BY <1>1, <1>4, <2>1 DEF TypeOK, Drivers
<1>7. DriverHolds(g)'
  <2>1. driver'[g].calls = queued'
    BY <1>1, <1>4, <1>5
  <2>2. QED
    BY <1>3, <1>4, <1>5, <2>1 DEF DriverHolds
<1>8. ActorInv' /\ DriverInv' /\ HandlerInv' /\ PauseInv' /\ EndInv'
  BY <1>1, <1>4, <1>7, DriverStep
<1>9. ExecutedInv'
  <2>1. \A k \in Goroutines \ {g} : driver[k].pc # "record"
    BY <1>1 DEF ActorInv, OnlyDriver, Works
  <2>2. \A h \in Handlers : handler[h].pc # "record"
    BY <1>1 DEF ActorInv, OnlyDriver, Decides
  <2>3. QED
    BY <1>1, <1>2, <1>3, <2>1, <2>2 DEF ExecutedInv
<1>10. CommandsRunOnceApproved'
  BY <1>1 DEF CommandsRunOnceApproved
<1>11. QED
  BY <1>3, <1>6, <1>8, <1>9, <1>10

\* complete or fail.
LEMMA FinishStep ==
    ASSUME IInv, NEW g \in Goroutines, Finish(g)
    PROVE  IInv'
<1> USE DEF IInv
<1>1. /\ driver[g].pc \in {"complete", "fail"} /\ Works(g)
      /\ UNCHANGED <<pending, queued, messages, steps, loaded, ctx, watching, listed,
                     handler, approved, executed>>
  BY DEF Finish, At, Works
<1>2. PICK d \in Drivers : driver' = [driver EXCEPT ![g] = d] /\ d.pc \in {"off", "cancel"}
  BY GotoChanges DEF Finish, DriverPC
<1>3. \/ UNCHANGED <<status, ended>>
      \/ status' \in Terminal /\ ended' = TRUE
  BY DEF Finish, Terminal
<1>4. status' \in Statuses /\ (status' = "awaiting" => status = "awaiting")
  BY <1>3 DEF TypeOK, Statuses, Terminal
<1>5. /\ ConversationInv'
      /\ \A c : HasAnswer(c)' = HasAnswer(c)
  BY <1>1, SameConversation
<1>6. driver'[g] = d /\ \A k \in Goroutines \ {g} : driver'[k] = driver[k]
  BY <1>2 DEF TypeOK
<1>7. TypeOK'
  BY <1>1, <1>2, <1>3, <1>4 DEF TypeOK, Drivers
<1>8. Nobody'
  BY <1>1, <1>2, <1>6 DEF ActorInv, OnlyDriver, Nobody, Works, Decides
<1>9. ActorInv' /\ DriverInv' /\ HandlerInv'
  BY <1>8 DEF Nobody, Works, Decides, ActorInv, DriverInv, DriverHolds, HandlerInv, HandlerHolds
<1>10. PauseInv'
  BY <1>1, <1>4 DEF PauseInv, Nobody
<1>11. EndInv'
  BY <1>1, <1>3, <1>8 DEF EndInv, Nobody
<1>12. ExecutedInv'
  BY <1>1, <1>5, StartedIsAnswered DEF ExecutedInv
<1>13. CommandsRunOnceApproved'
  BY <1>1 DEF CommandsRunOnceApproved
<1>14. QED
  BY <1>5, <1>7, <1>9, <1>10, <1>11, <1>12, <1>13

\* A goroutine that has ended the task cancels the context; it acts no more.
LEMMA FinishCancelStep ==
    ASSUME IInv, NEW g \in Goroutines, FinishCancel(g)
    PROVE  IInv'
<1> USE DEF IInv
<1>1. /\ driver[g].pc = "cancel"
      /\ ctx' \in {"live", "expired", "cancelled"} /\ (ctx # "live" => ctx' # "live")
      /\ UNCHANGED <<status, pending, queued, messages, steps, loaded, watching, listed,
                     handler, ended, approved, executed>>
  BY DEF FinishCancel, CancelContext, At, task, TypeOK
<1>2. PICK d \in Drivers : driver' = [driver EXCEPT ![g] = d] /\ d.pc = "off"
  BY GotoChanges DEF FinishCancel, DriverPC
<1>3. driver'[g] = d /\ \A k \in Goroutines \ {g} : driver'[k] = driver[k]
  BY <1>2 DEF TypeOK
<1>4. TypeOK'
  BY <1>1, <1>2 DEF TypeOK, Drivers
<1>5. /\ \A k \in Goroutines : Works(k)' = Works(k)
      /\ \A h \in Handlers : Decides(h)' = Decides(h)
      /\ \A k \in Goroutines : Works(k) => driver'[k] = driver[k]
  BY <1>1, <1>2, <1>3 DEF Works, Decides
<1>6. /\ ConversationInv' /\ Settled' = Settled /\ Fresh' = Fresh
      /\ \A c : HasAnswer(c)' = HasAnswer(c)
      /\ \A calls : Outstanding(calls)' = Outstanding(calls)
      /\ \A c : AtCall(c)' = AtCall(c)
  BY <1>1, SameConversation
<1>7. ActorInv'
  BY <1>5 DEF ActorInv, OnlyDriver, OnlyHandler
<1>8. Nobody' = Nobody
  BY <1>5 DEF Nobody
<1>9. DriverInv'
  <2>1. SUFFICES ASSUME NEW k \in Goroutines PROVE DriverHolds(k)'
    BY DEF DriverInv
  <2>2. CASE k = g
    BY <1>2, <1>3, <2>2 DEF DriverHolds
  <2>3. CASE k # g
    <3>1. PICK calls : calls = driver[k].calls
      OBVIOUS
    <3>2. driver'[k] = driver[k]
      BY <1>3, <2>3
    <3>3. Outstanding(driver[k].calls)' = Outstanding(driver[k].calls)
      <4>1. Outstanding(calls)' = Outstanding(calls) /\ driver'[k].calls = calls
        BY <1>6, <3>1, <3>2
      <4>2. QED
        BY <3>1, <4>1
    <3>4. AtCall(Head(driver[k].calls))' = AtCall(Head(driver[k].calls))
      <4>1. PICK c : c = Head(calls)
        OBVIOUS
      <4>2. AtCall(c)' = AtCall(c) /\ Head(driver'[k].calls) = c
        BY <1>6, <3>1, <3>2, <4>1
      <4>3. QED
        BY <3>1, <4>1, <4>2
    <3>5. QED
      BY <1>1, <1>6, <3>2, <3>3, <3>4 DEF DriverInv, DriverHolds
  <2>4. QED
    BY <2>2, <2>3
<1>10. HandlerInv'
  BY <1>1, <1>6 DEF HandlerInv, HandlerHolds
<1>11. PauseInv'
  BY <1>1, <1>6, <1>8 DEF PauseInv
<1>12. EndInv'
  BY <1>1, <1>8 DEF EndInv
<1>13. ExecutedInv'
  BY <1>1, <1>2, <1>3, <1>6 DEF ExecutedInv
<1>14. CommandsRunOnceApproved'
  BY <1>1 DEF CommandsRunOnceApproved
<1>15. QED
  BY <1>4, <1>6, <1>7, <1>9, <1>10, <1>11, <1>12, <1>13, <1>14

\* resumeQueuedCalls takes the calls that were saved at the pause.
LEMMA ResumeStep ==
    ASSUME IInv, NEW g \in Goroutines, Resume(g)
    PROVE  IInv'
<1> USE DEF IInv
<1>1. /\ driver[g].pc = "resume" /\ Works(g) /\ Outstanding(queued)
      /\ UNCHANGED <<status, pending, messages, steps, loaded, ctx, watching, listed,
                     handler, ended, approved, executed>>
  BY DEF Resume, At, Works, DriverInv, DriverHolds
<1>2. PICK d \in Drivers : /\ driver' = [driver EXCEPT ![g] = d]
                          /\ queued' \in Seq(Calls)
                          /\ \/ d.pc = "off"
                             \/ d.pc = "next" /\ d.calls = queued
  <2>1. CASE status # "running"
    <3>1. Goto(g, "off") /\ queued' \in Seq(Calls)
      BY <2>1 DEF Resume, TypeOK
    <3>2. QED
      BY <3>1, GotoChanges DEF DriverPC
  <2>2. CASE status = "running"
    <3>1. /\ driver' = [driver EXCEPT ![g] = [pc |-> "next", calls |-> queued]]
          /\ queued' = <<>>
      BY <2>2 DEF Resume
    <3>2. [pc |-> "next", calls |-> queued] \in Drivers /\ queued' \in Seq(Calls)
      BY <3>1 DEF TypeOK, Drivers, DriverPC
    <3>3. QED
      BY <3>1, <3>2
  <2>3. QED
    BY <2>1, <2>2
<1>3. /\ ConversationInv'
      /\ \A c : HasAnswer(c)' = HasAnswer(c)
      /\ \A calls : Outstanding(calls)' = Outstanding(calls)
  BY <1>1, SameConversation
<1>4. TypeOK'
  BY <1>1, <1>2 DEF TypeOK, Drivers
<1>5. driver'[g] = d
  BY <1>2 DEF TypeOK
<1>6. DriverHolds(g)'
  <2>1. CASE d.pc = "off"
    BY <1>5, <2>1 DEF DriverHolds
  <2>2. CASE d.pc = "next" /\ d.calls = queued
    <3>1. PICK calls : calls = queued
      OBVIOUS
    <3>2. Outstanding(calls)' /\ driver'[g].calls = calls
      BY <1>1, <1>3, <1>5, <2>2, <3>1
    <3>3. Outstanding(driver[g].calls)'
      BY <3>2
    <3>4. QED
      BY <1>5, <2>2, <3>3 DEF DriverHolds
  <2>3. QED
    BY <1>2, <2>1, <2>2
<1>7. ActorInv' /\ DriverInv' /\ HandlerInv' /\ PauseInv' /\ EndInv'
  BY <1>1, <1>2, <1>6, DriverStep
<1>8. ExecutedInv'
  BY <1>1, <1>3, StartedIsAnswered DEF ExecutedInv
<1>9. CommandsRunOnceApproved'
  BY <1>1 DEF CommandsRunOnceApproved
<1>10. QED
  BY <1>3, <1>4, <1>7, <1>8, <1>9

\* A handler sends a decision, or is refused: it does not act for the task.
LEMMA AskOrRefuse ==
    ASSUME IInv, NEW h \in Handlers, Request(h) \/ Refuse(h)
    PROVE  IInv'
<1> USE DEF IInv
<1>1. /\ handler[h].pc \in {"idle", "sent"}
      /\ UNCHANGED <<task, ctx, watching, listed, driver, ended, approved, executed>>
  BY DEF Request, Refuse
<1>2. PICK e \in Deciders : handler' = [handler EXCEPT ![h] = e] /\ e.pc \in {"idle", "sent"}
  <2>1. /\ [pc |-> "sent", shown |-> pending, call |-> None] \in Deciders
        /\ NoDecision \in Deciders /\ NoDecision.pc = "idle"
    BY DEF TypeOK, Deciders, HandlerPC, NoDecision
  <2>2. QED
    BY <2>1 DEF Request, Refuse
<1>3. handler'[h] = e /\ \A k \in Handlers \ {h} : handler'[k] = handler[k]
  BY <1>2 DEF TypeOK
<1>4. TypeOK'
  BY <1>1, <1>2 DEF TypeOK, Deciders, task
<1>5. /\ \A k \in Goroutines : Works(k)' = Works(k)
      /\ \A k \in Handlers : Decides(k)' = Decides(k)
      /\ \A k \in Handlers : Decides(k) => handler'[k] = handler[k]
  BY <1>1, <1>2, <1>3 DEF Works, Decides
<1>6. /\ ConversationInv' /\ Settled' = Settled /\ Fresh' = Fresh
      /\ \A c : HasAnswer(c)' = HasAnswer(c)
      /\ \A calls : Outstanding(calls)' = Outstanding(calls)
      /\ \A c : AtCall(c)' = AtCall(c)
  BY <1>1, SameConversation DEF task
<1>7. ActorInv'
  BY <1>5 DEF ActorInv, OnlyDriver, OnlyHandler
<1>8. Nobody' = Nobody
  BY <1>5 DEF Nobody
<1>9. DriverInv'
  BY <1>1, <1>6 DEF DriverInv, DriverHolds, task
<1>10. HandlerInv'
  <2>1. \A k \in Handlers : ~Decides(k)' => HandlerHolds(k)'
    BY DEF Decides, HandlerHolds
  <2>2. ASSUME NEW k \in Handlers, Decides(k)
        PROVE  HandlerHolds(k)'
    BY <1>1, <1>5, <1>6, <2>2 DEF HandlerInv, HandlerHolds, task
  <2>3. QED
    BY <1>5, <2>1, <2>2 DEF HandlerInv
<1>11. PauseInv'
  BY <1>1, <1>6, <1>8 DEF PauseInv, task
<1>12. EndInv'
  BY <1>1, <1>8 DEF EndInv, task
<1>13. ExecutedInv'
  BY <1>1, <1>2, <1>3, <1>6 DEF ExecutedInv
<1>14. CommandsRunOnceApproved'
  BY <1>1 DEF CommandsRunOnceApproved
<1>15. QED
  BY <1>4, <1>6, <1>7, <1>9, <1>10, <1>11, <1>12, <1>13, <1>14

\* A decision that is accepted: the task has not ended, and nobody acts for it.
LEMMA DecideFinds ==
    ASSUME IInv, NEW h \in Handlers, Decide(h)
    PROVE  /\ handler[h].pc = "sent" /\ handler[h].shown = pending
           /\ pending \in Calls /\ pending.kind = "guarded" /\ AtCall(pending)
           /\ Nobody /\ ~ended
BY DEF IInv, Decide, Decidable, PauseInv, EndInv, TypeOK, Terminal

\* Decide takes the pending command; its handler acts from now on.
LEMMA DecideStep ==
    ASSUME IInv, NEW h \in Handlers, Decide(h)
    PROVE  IInv'
<1> USE DEF IInv
<1>1. /\ pending' = None /\ status' = "running"
      /\ UNCHANGED <<queued, steps, loaded, ctx, watching, listed, driver, ended, executed>>
  BY DEF Decide, TakePending
<1>2. PICK call \in Calls : call = pending
  BY DecideFinds
<1>3. /\ AtCall(call) /\ call.kind = "guarded" /\ handler[h].shown = call
      /\ Nobody /\ ~ended /\ handler[h].pc = "sent"
  BY <1>2, DecideFinds
<1>4. PICK e \in Deciders :
          /\ handler' = [handler EXCEPT ![h] = e]
          /\ e.call = call
          /\ \/ /\ e.pc = "execute" /\ UNCHANGED messages
                /\ approved' = approved \cup {call}
             \/ /\ e.pc = "resume" /\ Answer(call)
                /\ UNCHANGED approved
  <2>1. handler[h] \in Deciders
    BY DEF TypeOK, Deciders
  <2>2. /\ [handler[h] EXCEPT !.pc = "execute", !.call = call] \in Deciders
        /\ [handler[h] EXCEPT !.pc = "execute", !.call = call].pc = "execute"
        /\ [handler[h] EXCEPT !.pc = "execute", !.call = call].call = call
    BY <2>1 DEF Deciders, HandlerPC
  <2>3. /\ [handler[h] EXCEPT !.pc = "resume", !.call = call] \in Deciders
        /\ [handler[h] EXCEPT !.pc = "resume", !.call = call].pc = "resume"
        /\ [handler[h] EXCEPT !.pc = "resume", !.call = call].call = call
    BY <2>1 DEF Deciders, HandlerPC
  <2>4. \/ /\ handler' = [handler EXCEPT ![h] = [handler[h] EXCEPT !.pc = "execute", !.call = call]]
           /\ UNCHANGED messages /\ approved' = approved \cup {call}
        \/ /\ handler' = [handler EXCEPT ![h] = [handler[h] EXCEPT !.pc = "resume", !.call = call]]
           /\ Answer(call) /\ UNCHANGED approved
    BY <1>2, <1>3 DEF Decide, TypeOK
  <2>5. QED
    BY <2>2, <2>3, <2>4
<1>5. handler'[h] = e /\ \A k \in Handlers \ {h} : handler'[k] = handler[k]
  BY <1>4 DEF TypeOK
<1>6. /\ ConversationInv'
      /\ \A c \in Calls : HasAnswer(c) => HasAnswer(c)'
      /\ messages' \in Seq(Message)
      /\ e.pc = "execute" => AtCall(call)'
      /\ e.pc = "resume" => Outstanding(queued)'
  <2>1. CASE UNCHANGED messages /\ e.pc = "execute"
    BY <1>1, <1>3, <2>1, SameConversation DEF TypeOK
  <2>2. CASE Answer(call) /\ e.pc = "resume"
    <3>1. messages' \in Seq(Message)
      BY <2>2 DEF Answer, TypeOK, Message
    <3>2. QED
      BY <1>1, <1>3, <2>2, <3>1, AnswerStep
  <2>3. QED
    BY <1>4, <2>1, <2>2
<1>7. TypeOK'
  <2>1. approved' \subseteq Calls
    BY <1>4 DEF TypeOK
  <2>2. QED
    BY <1>1, <1>4, <1>6, <2>1 DEF TypeOK, Deciders, Statuses
<1>8. OnlyHandler(h)'
  BY <1>1, <1>3, <1>5 DEF Nobody, OnlyHandler, Works, Decides
<1>9. ActorInv'
  BY <1>8 DEF ActorInv, OnlyHandler
<1>10. DriverInv'
  BY <1>8 DEF OnlyHandler, Works, DriverInv, DriverHolds
<1>11. HandlerInv'
  <2>1. \A k \in Handlers \ {h} : HandlerHolds(k)'
    BY <1>8 DEF OnlyHandler, Decides, HandlerHolds
  <2>2. HandlerHolds(h)'
    <3>1. e.pc = "execute" => AtCall(handler[h].call)'
      BY <1>4, <1>5, <1>6
    <3>2. QED
      BY <1>3, <1>4, <1>5, <1>6, <3>1 DEF HandlerHolds
  <2>3. QED
    BY <2>1, <2>2 DEF HandlerInv
<1>12. PauseInv'
  BY <1>1 DEF PauseInv
<1>13. EndInv'
  BY <1>1, <1>3 DEF EndInv
<1>14. ExecutedInv'
  <2>1. /\ \A g \in Goroutines : driver[g].pc # "record"
        /\ \A k \in Handlers : handler[k].pc # "record"
    BY <1>3 DEF Nobody, Works, Decides
  <2>2. QED
    BY <1>1, <1>6, <2>1 DEF ExecutedInv
<1>15. CommandsRunOnceApproved'
  BY <1>1, <1>4 DEF CommandsRunOnceApproved
<1>16. QED
  BY <1>6, <1>7, <1>9, <1>10, <1>11, <1>12, <1>13, <1>14, <1>15

\* Where a handler goes next, with the call it has taken.
LEMMA HandlerChanges ==
    ASSUME TypeOK, NEW h \in Handlers, NEW pc \in HandlerPC,
           handler' = [handler EXCEPT ![h].pc = pc]
    PROVE  \E e \in Deciders : /\ handler' = [handler EXCEPT ![h] = e]
                               /\ e.pc = pc /\ e.call = handler[h].call
<1>1. handler[h] \in Deciders
  BY DEF TypeOK, Deciders
<1>2. /\ [handler[h] EXCEPT !.pc = pc] \in Deciders
      /\ [handler[h] EXCEPT !.pc = pc].pc = pc
      /\ [handler[h] EXCEPT !.pc = pc].call = handler[h].call
  BY <1>1 DEF Deciders
<1>3. QED
  BY <1>2

\* The approved command is started.
LEMMA ExecuteApprovedStep ==
    ASSUME IInv, NEW h \in Handlers, ExecuteApproved(h)
    PROVE  IInv'
<1> USE DEF IInv
<1>1. /\ handler[h].pc = "execute" /\ Decides(h)
      /\ handler[h].call \in approved /\ handler[h].call.kind = "guarded"
      /\ AtCall(handler[h].call)
      /\ UNCHANGED <<status, pending, queued, messages, steps, loaded, ctx, watching, listed,
                     driver, ended, approved>>
  BY DEF ExecuteApproved, Decides, HandlerInv, HandlerHolds, task
<1>2. PICK call \in Calls : call = handler[h].call
  BY <1>1 DEF TypeOK
<1>3. executed' = [executed EXCEPT ![call] = IF @ < 2 THEN @ + 1 ELSE @]
  BY <1>2 DEF ExecuteApproved, Start
<1>4. PICK e \in Deciders : /\ handler' = [handler EXCEPT ![h] = e]
                           /\ e.pc = "record" /\ e.call = call
  BY <1>2, HandlerChanges DEF ExecuteApproved, HandlerPC
<1>5. handler'[h] = e
  BY <1>4 DEF TypeOK
<1>6. /\ ConversationInv' /\ AtCall(call)'
      /\ \A c : HasAnswer(c)' = HasAnswer(c)
  BY <1>1, <1>2, SameConversation
<1>7. \A c \in Calls : executed[c] > 0 => HasAnswer(c)
  <2>1. \A k \in Goroutines : driver[k].pc # "record"
    BY <1>1 DEF ActorInv, OnlyHandler, Works
  <2>2. \A k \in Handlers : handler[k].pc # "record"
    BY <1>1 DEF ActorInv, OnlyHandler, Decides
  <2>3. QED
    BY <2>1, <2>2 DEF ExecutedInv
<1>8. executed[call] = 0
  <2>1. ~HasAnswer(call)
    BY <1>1, <1>2, NextIsUnanswered
  <2>2. executed \in [Calls -> 0..2]
    BY DEF TypeOK
  <2>3. QED
    BY <1>7, <2>1, <2>2
<1>9. /\ executed' \in [Calls -> 0..2] /\ executed'[call] = 1
      /\ \A c \in Calls \ {call} : executed'[c] = executed[c]
  BY <1>3, <1>8 DEF TypeOK
<1>10. TypeOK'
  BY <1>1, <1>4, <1>9 DEF TypeOK, Deciders
<1>11. HandlerHolds(h)'
  <2>1. AtCall(handler[h].call)'
    BY <1>4, <1>5, <1>6
  <2>2. QED
    BY <1>1, <1>2, <1>4, <1>5, <2>1 DEF HandlerHolds
<1>12. ActorInv' /\ DriverInv' /\ HandlerInv' /\ PauseInv' /\ EndInv'
  BY <1>1, <1>4, <1>11, HandlerStep
<1>13. ExecutedInv'
  BY <1>4, <1>5, <1>6, <1>7, <1>9 DEF ExecutedInv
<1>14. CommandsRunOnceApproved'
  BY <1>1, <1>2, <1>9 DEF CommandsRunOnceApproved
<1>15. QED
  BY <1>6, <1>10, <1>12, <1>13, <1>14

\* The result of the approved command becomes a message.
LEMMA RecordApprovedStep ==
    ASSUME IInv, NEW h \in Handlers, RecordApproved(h)
    PROVE  IInv'
<1> USE DEF IInv
<1>1. /\ handler[h].pc = "record" /\ Decides(h)
      /\ AtCall(handler[h].call) /\ Answer(handler[h].call)
      /\ handler[h].call \in approved
      /\ UNCHANGED <<status, pending, queued, steps, loaded, ctx, watching, listed,
                     driver, ended, approved, executed>>
  BY DEF RecordApproved, Decides, HandlerInv, HandlerHolds
<1>2. PICK call \in Calls : call = handler[h].call
  BY <1>1 DEF TypeOK
<1>3. /\ ConversationInv' /\ Outstanding(queued)' /\ HasAnswer(call)'
      /\ \A c \in Calls : HasAnswer(c) => HasAnswer(c)'
  BY <1>1, <1>2, AnswerStep
<1>4. PICK e \in Deciders : handler' = [handler EXCEPT ![h] = e] /\ e.pc = "resume"
  BY HandlerChanges DEF RecordApproved, HandlerPC
<1>5. handler'[h] = e
  BY <1>4 DEF TypeOK
<1>6. TypeOK'
  <2>1. messages' \in Seq(Message)
    BY <1>1, <1>2 DEF Answer, TypeOK, Message
  <2>2. QED
    BY <1>1, <1>4, <2>1 DEF TypeOK, Deciders
<1>7. HandlerHolds(h)'
  BY <1>3, <1>4, <1>5 DEF HandlerHolds
<1>8. ActorInv' /\ DriverInv' /\ HandlerInv' /\ PauseInv' /\ EndInv'
  BY <1>1, <1>4, <1>7, HandlerStep
<1>9. ExecutedInv'
  <2>1. \A k \in Goroutines : driver[k].pc # "record"
    BY <1>1 DEF ActorInv, OnlyHandler, Works
  <2>2. \A k \in Handlers \ {h} : handler[k].pc # "record"
    BY <1>1 DEF ActorInv, OnlyHandler, Decides
  <2>3. QED
    BY <1>1, <1>2, <1>3, <2>1, <2>2 DEF ExecutedInv
<1>10. CommandsRunOnceApproved'
  BY <1>1 DEF CommandsRunOnceApproved
<1>11. QED
  BY <1>3, <1>6, <1>8, <1>9, <1>10

\* The handler passes the token to a new goroutine.
LEMMA SpawnResumeStep ==
    ASSUME IInv, NEW h \in Handlers, SpawnResume(h)
    PROVE  IInv'
<1> USE DEF IInv
<1>1. /\ handler[h].pc = "resume" /\ Decides(h) /\ OnlyHandler(h) /\ Outstanding(queued)
      /\ handler' = [handler EXCEPT ![h] = NoDecision]
      /\ UNCHANGED <<status, pending, queued, messages, steps, loaded, ctx, watching, listed,
                     ended, approved, executed>>
  BY DEF SpawnResume, Decides, HandlerInv, HandlerHolds, ActorInv, task
<1>2. PICK g \in Goroutines : At(g, "off") /\ Goto(g, "resume")
  BY DEF SpawnResume
<1>3. PICK d \in Drivers : driver' = [driver EXCEPT ![g] = d] /\ d.pc = "resume"
  BY <1>2, GotoChanges DEF DriverPC
<1>4. /\ driver'[g] = d /\ \A k \in Goroutines \ {g} : driver'[k] = driver[k]
      /\ handler'[h] = NoDecision /\ \A k \in Handlers \ {h} : handler'[k] = handler[k]
  BY <1>1, <1>3 DEF TypeOK
<1>5. /\ ConversationInv' /\ Outstanding(queued)'
      /\ \A c : HasAnswer(c)' = HasAnswer(c)
  BY <1>1, SameConversation
<1>6. TypeOK'
  <2>1. NoDecision \in Deciders
    BY DEF NoDecision, Deciders, HandlerPC
  <2>2. QED
    BY <1>1, <1>3, <2>1 DEF TypeOK, Drivers, Deciders
<1>7. OnlyDriver(g)'
  BY <1>1, <1>4 DEF OnlyHandler, OnlyDriver, Works, Decides, NoDecision
<1>8. ActorInv'
  BY <1>7 DEF ActorInv, OnlyDriver
<1>9. DriverInv'
  <2>1. \A k \in Goroutines \ {g} : DriverHolds(k)'
    BY <1>7 DEF OnlyDriver, Works, DriverHolds
  <2>2. DriverHolds(g)'
    BY <1>3, <1>4, <1>5 DEF DriverHolds
  <2>3. QED
    BY <2>1, <2>2 DEF DriverInv
<1>10. HandlerInv'
  BY <1>7 DEF OnlyDriver, Decides, HandlerInv, HandlerHolds
<1>11. ~Nobody
  BY <1>1 DEF Nobody
<1>12. PauseInv' /\ EndInv'
  BY <1>1, <1>11 DEF PauseInv, EndInv
<1>13. ExecutedInv'
  <2>1. \A k \in Goroutines : driver[k].pc # "record"
    BY <1>1 DEF OnlyHandler, Works
  <2>2. \A k \in Handlers : handler[k].pc # "record"
    BY <1>1 DEF OnlyHandler, Decides
  <2>3. QED
    BY <1>1, <1>5, <2>1, <2>2 DEF ExecutedInv
<1>14. CommandsRunOnceApproved'
  BY <1>1 DEF CommandsRunOnceApproved
<1>15. QED
  BY <1>5, <1>6, <1>8, <1>9, <1>10, <1>12, <1>13, <1>14

\* The deadline, the reaper, the end of the program: the actors are not told.
LEMMA EnvironmentStep ==
    ASSUME IInv, Expire \/ WatchDeadline \/ Reap \/ Close \/ UNCHANGED vars
    PROVE  IInv'
<1> USE DEF IInv
<1>1. /\ UNCHANGED <<pending, queued, messages, steps, loaded, driver, handler, approved, executed>>
      /\ status' \in Statuses
      /\ status' # status => status' = "failed"
      /\ ctx # "live" => ctx' # "live"
      /\ ended' # ended => ctx' # "live"
  BY DEF Expire, WatchDeadline, Reap, Close, vars, task, CancelContext, Failable, TypeOK, Statuses
<1>2. TypeOK'
  <2>1. /\ ctx' \in {"live", "expired", "cancelled"} /\ ended' \in BOOLEAN
        /\ watching' \in BOOLEAN /\ listed' \in BOOLEAN
    BY DEF Expire, WatchDeadline, Reap, Close, vars, task, CancelContext, Failable, TypeOK
  <2>2. QED
    BY <1>1, <2>1 DEF TypeOK
<1>3. /\ ConversationInv' /\ Settled' = Settled /\ Fresh' = Fresh
      /\ \A c : HasAnswer(c)' = HasAnswer(c)
      /\ \A calls : Outstanding(calls)' = Outstanding(calls)
      /\ \A c : AtCall(c)' = AtCall(c)
  BY <1>1, SameConversation
<1>4. /\ \A g \in Goroutines : Works(g)' = Works(g)
      /\ \A h \in Handlers : Decides(h)' = Decides(h)
  BY <1>1 DEF Works, Decides
<1>5. ActorInv'
  BY <1>4 DEF ActorInv, OnlyDriver, OnlyHandler
<1>6. Nobody' = Nobody
  BY <1>4 DEF Nobody
<1>7. DriverInv' /\ HandlerInv'
  BY <1>1, <1>3 DEF DriverInv, DriverHolds, HandlerInv, HandlerHolds
<1>8. PauseInv'
  BY <1>1, <1>3, <1>6 DEF PauseInv
<1>9. EndInv'
  BY <1>1, <1>6 DEF EndInv, Terminal
<1>10. ExecutedInv'
  BY <1>1, <1>3 DEF ExecutedInv
<1>11. CommandsRunOnceApproved'
  BY <1>1 DEF CommandsRunOnceApproved
<1>12. QED
  BY <1>2, <1>3, <1>5, <1>7, <1>8, <1>9, <1>10, <1>11

\* A new task: one goroutine, at the head of its loop, and no message.
LEMMA InitHolds == Init => IInv
<1> SUFFICES ASSUME Init PROVE IInv
  OBVIOUS
<1>1. PICK first \in Goroutines :
          driver = [g \in Goroutines |-> [pc |-> IF g = first THEN "loop" ELSE "off", calls |-> <<>>]]
  BY DEF Init
<1>2. messages = <<>> /\ Turns = {} /\ DOMAIN messages = {}
  BY DEF Init, Turns
<1>3. TypeOK
  <2>1. driver \in [Goroutines -> [pc : DriverPC, calls : Seq(Calls)]]
    BY <1>1 DEF DriverPC
  <2>2. handler \in [Handlers -> [pc : HandlerPC, shown : Calls \cup {None}, call : Calls \cup {None}]]
    BY DEF Init, NoDecision, HandlerPC
  <2>3. executed \in [Calls -> 0..2] /\ steps \in 0..MaxSteps
    BY OpsTaskAssumption DEF Init
  <2>4. queued \in Seq(Calls) /\ messages \in Seq(Message)
    BY DEF Init
  <2>5. QED
    BY <2>1, <2>2, <2>3, <2>4 DEF Init, TypeOK, Statuses
<1>4. ActorInv
  BY <1>1 DEF Init, ActorInv, Works, Decides, OnlyDriver, OnlyHandler, NoDecision
<1>5. ConversationInv /\ Settled
  BY <1>2 DEF ConversationInv, CallsNumbered, TurnsOrdered, StepsOrdered, TurnsAnswered, AnswersAsked, Settled
<1>6. DriverInv /\ HandlerInv
  BY <1>1, <1>5 DEF Init, DriverInv, DriverHolds, HandlerInv, HandlerHolds, NoDecision
<1>7. PauseInv /\ EndInv
  BY DEF Init, PauseInv, EndInv
<1>8. ExecutedInv /\ CommandsRunOnceApproved
  BY DEF Init, ExecutedInv, CommandsRunOnceApproved
<1>9. QED
  BY <1>3, <1>4, <1>5, <1>6, <1>7, <1>8 DEF IInv

\* IInv is inductive.
THEOREM OpsTaskInductive == Spec => []IInv
<1>1. IInv /\ [Next]_vars => IInv'
  <2> SUFFICES ASSUME IInv, [Next]_vars PROVE IInv'
    OBVIOUS
  <2>1. ASSUME NEW g \in Goroutines, Drive(g) PROVE IInv'
    BY <2>1, LoopStep, ModelStep, NextCallStep, DispatchStep, PauseStep, RecordStep,
       FinishStep, FinishCancelStep, ResumeStep DEF Drive
  <2>2. ASSUME NEW h \in Handlers, Request(h) \/ Handle(h) PROVE IInv'
    BY <2>2, AskOrRefuse, DecideStep, ExecuteApprovedStep, RecordApprovedStep, SpawnResumeStep
       DEF Handle
  <2>3. CASE Expire \/ WatchDeadline \/ Reap \/ Close \/ Forgotten \/ UNCHANGED vars
    BY <2>3, EnvironmentStep DEF Forgotten
  <2>4. QED
    BY <2>1, <2>2, <2>3 DEF Next
<1>2. QED
  BY <1>1, InitHolds, PTL DEF Spec

-----------------------------------------------------------------------------
(* The properties *)

\* Every variable of a task keeps its type, whatever the limits.
THEOREM OpsTaskTypeCorrect == Spec => []TypeOK
<1>1. IInv => TypeOK
  BY DEF IInv
<1>2. QED
  BY <1>1, OpsTaskInductive, PTL

\* No shell command runs twice, and one that needs approval only runs approved
\* (Agent.dispatch, Agent.Decide).
THEOREM CommandsRunOnce == Spec => []CommandsRunOnceApproved
<1>1. IInv => CommandsRunOnceApproved
  BY DEF IInv
<1>2. QED
  BY <1>1, OpsTaskInductive, PTL

\* One actor at a time advances the conversation, and none while it waits for an
\* administrator (processToolCalls, Agent.Decide, resumeQueuedCalls).
THEOREM OneActorAtATime == Spec => []OneActor
<1>1. IInv => OneActor
  <2> SUFFICES ASSUME IInv PROVE OneActor
    OBVIOUS
  <2>1. /\ Working = {g \in Goroutines : Works(g)}
        /\ Deciding = {h \in Handlers : Decides(h)}
    BY DEF Working, Deciding, Works, Decides, At
  <2>2. status = "awaiting" => Working = {} /\ Deciding = {}
    BY <2>1 DEF IInv, PauseInv, Nobody
  <2>3. Cardinality({}) = 0 /\ \A x : Cardinality({x}) = 1
    BY FS_EmptySet, FS_Singleton
  <2>4. Cardinality(Working) + Cardinality(Deciding) <= 1
    <3>1. CASE \E g \in Goroutines : Works(g)
      <4>1. PICK g \in Goroutines : Works(g)
        BY <3>1
      <4>2. Working = {g} /\ Deciding = {}
        BY <2>1, <4>1 DEF IInv, ActorInv, OnlyDriver
      <4>3. Cardinality(Working) = 1
        BY <2>3, <4>2
      <4>4. Cardinality(Deciding) = 0
        BY <2>3, <4>2
      <4>5. QED
        BY <4>3, <4>4
    <3>2. CASE \E h \in Handlers : Decides(h)
      <4>1. PICK h \in Handlers : Decides(h)
        BY <3>2
      <4>2. Working = {} /\ Deciding = {h}
        BY <2>1, <4>1 DEF IInv, ActorInv, OnlyHandler
      <4>3. Cardinality(Working) = 0
        BY <2>3, <4>2
      <4>4. Cardinality(Deciding) = 1
        BY <2>3, <4>2
      <4>5. QED
        BY <4>3, <4>4
    <3>3. CASE (\A g \in Goroutines : ~Works(g)) /\ (\A h \in Handlers : ~Decides(h))
      <4>1. Working = {} /\ Deciding = {}
        BY <2>1, <3>3
      <4>2. QED
        BY <2>3, <4>1
    <3>4. QED
      BY <3>1, <3>2, <3>3
  <2>5. QED
    BY <2>2, <2>4 DEF OneActor
<1>2. QED
  BY <1>1, OpsTaskInductive, PTL

\* Two answers are never the same: they answer different calls.
LEMMA AnswersDiffer ==
    ASSUME TypeOK, ConversationInv,
           NEW i \in 1..Len(messages), NEW j \in 1..Len(messages), i < j,
           i \notin Turns, j \notin Turns
    PROVE  messages[i] # messages[j]
<1> DEFINE n == Len(messages)
<1>1. /\ n \in Nat /\ DOMAIN messages = 1..n /\ Turns \subseteq 1..n
      /\ \A k \in Turns : Len(messages[k].calls) \in Nat
      /\ \A k \in Turns : DOMAIN messages[k].calls = 1..Len(messages[k].calls)
      /\ \A k \in Turns : \A m \in 1..Len(messages[k].calls) : messages[k].calls[m] \in Calls
  BY MessageTypes
<1>2. PICK a \in Turns : a < i /\ i <= a + Len(messages[a].calls)
  BY <1>1 DEF ConversationInv, AnswersAsked
<1>3. PICK b \in Turns : b < j /\ j <= b + Len(messages[b].calls)
  BY <1>1 DEF ConversationInv, AnswersAsked
<1>4. PICK k \in 1..Len(messages[a].calls) : a + k = i
  <2>1. i - a \in 1..Len(messages[a].calls) /\ a + (i - a) = i
    BY <1>1, <1>2
  <2>2. QED
    BY <2>1
<1>5. PICK m \in 1..Len(messages[b].calls) : b + m = j
  <2>1. j - b \in 1..Len(messages[b].calls) /\ b + (j - b) = j
    BY <1>1, <1>3
  <2>2. QED
    BY <2>1
<1>6. /\ messages[i] = [role |-> "tool", call |-> messages[a].calls[k]]
      /\ messages[j] = [role |-> "tool", call |-> messages[b].calls[m]]
  BY <1>1, <1>4, <1>5 DEF ConversationInv, TurnsAnswered, AnsweredInOrder
<1>7. messages[a].calls[k] # messages[b].calls[m]
  <2>1. CASE a = b
    <3>1. k # m
      BY <1>1, <1>4, <1>5, <2>1
    <3>2. messages[a].calls[k].index = k /\ messages[b].calls[m].index = m
      BY DEF ConversationInv, CallsNumbered
    <3>3. QED
      BY <3>1, <3>2
  <2>2. CASE a < b
    <3>1. messages[a].calls[k].step < messages[b].calls[m].step
      BY <2>2 DEF ConversationInv, StepsOrdered
    <3>2. messages[a].calls[k].step \in Int
      BY <1>1, CallFields, OpsTaskAssumption
    <3>3. messages[b].calls[m].step \in Int
      BY <1>1, CallFields, OpsTaskAssumption
    <3>4. messages[a].calls[k].step # messages[b].calls[m].step
      BY <3>1, <3>2, <3>3
    <3>5. QED
      BY <3>4
  <2>3. CASE b < a
    <3>1. b + Len(messages[b].calls) < a
      BY <2>3 DEF ConversationInv, TurnsOrdered
    <3>2. QED
      BY <1>1, <1>2, <1>3, <3>1
  <2>4. QED
    BY <1>1, <2>1, <2>2, <2>3
<1>8. QED
  BY <1>6, <1>7

\* The conversation is one a model API accepts: before each request every tool call
\* has exactly one answer (runLoop, processToolCalls, Agent.Decide).
THEOREM ConversationComplete == Spec => []ConversationIsComplete
<1>1. IInv => ConversationIsComplete
  <2> SUFFICES ASSUME IInv PROVE ConversationIsComplete
    OBVIOUS
  <2>1. TypeOK /\ ConversationInv
    BY DEF IInv
  <2> DEFINE n == Len(messages)
             Answers == 1..n \ Turns
             Bodies == {messages[i] : i \in Answers}
             body == [i \in Answers |-> messages[i]]
  <2>2. n \in Nat /\ DOMAIN messages = 1..n /\ Turns \subseteq 1..n
    BY <2>1, MessageTypes
  <2>3. \A i \in Turns : AnsweredInOrder(i)
    BY <2>1 DEF ConversationInv, TurnsAnswered
  <2>4. ASSUME NEW g \in Goroutines, At(g, "model")
        PROVE  \A i \in Turns : i + Len(messages[i].calls) <= Len(messages)
    BY <2>4 DEF IInv, DriverInv, DriverHolds, At, Settled
  <2>5. IsFiniteSet(1..n) /\ Cardinality(1..n) = n
    <3>1. /\ IsFiniteSet(1..n)
          /\ Cardinality(1..n) = IF 1 > n THEN 0 ELSE n - 1 + 1
      <4>1. 1 \in Int /\ n \in Int
        BY <2>2
      <4>2. QED
        BY <4>1, FS_Interval
    <3>2. QED
      BY <2>2, <3>1
  <2>6. IsFiniteSet(Answers) /\ Cardinality(Answers) = n - Cardinality(Turns)
    <3>1. PICK D : D = 1..n
      OBVIOUS
    <3>2. IsFiniteSet(D) /\ Cardinality(D) = n
      BY <2>5, <3>1
    <3>3. D \cap Turns = Turns /\ D \ Turns = Answers
      BY <2>2, <3>1
    <3>4. IsFiniteSet(D \ Turns) /\ Cardinality(D \ Turns) = Cardinality(D) - Cardinality(D \cap Turns)
      BY <3>2, FS_Difference
    <3>5. QED
      BY <3>2, <3>3, <3>4
  <2>7. body \in Bijection(Answers, Bodies)
    <3>1. body \in [Answers -> Bodies]
      OBVIOUS
    <3>2. \A i, j \in Answers : body[i] = body[j] => i = j
      <4>1. SUFFICES ASSUME NEW i \in Answers, NEW j \in Answers, messages[i] = messages[j], i # j
                     PROVE  FALSE
        OBVIOUS
      <4>2. i < j \/ j < i
        BY <2>2, <4>1
      <4>3. QED
        BY <2>1, <4>1, <4>2, AnswersDiffer
    <3>3. \A x \in Bodies : \E i \in Answers : body[i] = x
      OBVIOUS
    <3>4. QED
      BY <3>1, <3>2, <3>3 DEF Bijection, Injection, Surjection, IsInjective
  <2>8. Cardinality(Bodies) = Cardinality(Answers)
    <3>1. ExistsBijection(Answers, Bodies)
      BY <2>7 DEF ExistsBijection
    <3>2. QED
      BY <2>6, <3>1, FS_Bijection
  <2>9. QED
    BY <2>2, <2>3, <2>4, <2>6, <2>8 DEF ConversationIsComplete
<1>2. QED
  BY <1>1, OpsTaskInductive, PTL

\* A completed task stays completed, and no decision is accepted by a task that
\* has ended (Agent.complete, Agent.fail, Agent.Decide, watchTaskDeadline).
THEOREM EndStaysFinal == Spec => EndIsFinal
<1> DEFINE Final == /\ status = "completed" => status' = "completed"
                    /\ \A h \in Handlers :
                          handler[h].pc = "sent" /\ handler'[h].pc \in {"execute", "resume"} => ~ended
<1>1. IInv /\ [Next]_vars => [Final]_vars
  <2> SUFFICES ASSUME IInv, Next PROVE Final
    OBVIOUS
  <2>1. ASSUME status = "completed" PROVE status' = "completed"
    <3>1. Nobody
      BY <2>1 DEF IInv, EndInv
    <3>2. ASSUME NEW g \in Goroutines, Drive(g) PROVE UNCHANGED status
      BY <2>1, <3>1, <3>2 DEF Nobody, Works, Drive, Loop, Model, NextCall, Dispatch, Pause, Record,
                        Finish, FinishCancel, Resume, At, Terminal, task
    <3>3. ASSUME NEW h \in Handlers, Request(h) \/ Handle(h) PROVE UNCHANGED status
      BY <2>1, <3>3 DEF Request, Handle, Decide, Decidable, Refuse, ExecuteApproved, RecordApproved,
                  SpawnResume, task
    <3>4. CASE Expire \/ WatchDeadline \/ Reap \/ Close \/ Forgotten
      BY <2>1, <3>4 DEF Expire, WatchDeadline, Failable, Reap, Close, Forgotten, vars, task
    <3>5. QED
      BY <2>1, <3>2, <3>3, <3>4 DEF Next
  <2>2. ASSUME NEW h \in Handlers, handler[h].pc = "sent", handler'[h].pc \in {"execute", "resume"}
        PROVE  ~ended
    <3>1. \E k \in Handlers : Decide(k)
      <4>1. handler'[h] # handler[h]
        BY <2>2
      <4>2. ASSUME NEW k \in Handlers, Request(k) \/ Refuse(k) \/ ExecuteApproved(k)
                                         \/ RecordApproved(k) \/ SpawnResume(k)
            PROVE  FALSE
        BY <2>2, <4>2 DEF IInv, TypeOK, Request, Refuse, ExecuteApproved, RecordApproved, SpawnResume, NoDecision
      <4>3. ASSUME NEW g \in Goroutines, Drive(g) PROVE UNCHANGED handler
        BY <4>3 DEF Drive, Loop, Model, NextCall, Dispatch, Pause, Record, Finish, FinishCancel, Resume
      <4>4. Expire \/ WatchDeadline \/ Reap \/ Close \/ Forgotten => UNCHANGED handler
        BY DEF Expire, WatchDeadline, Reap, Close, Forgotten, vars
      <4>5. QED
        BY <4>1, <4>2, <4>3, <4>4 DEF Next, Handle
    <3>2. QED
      BY <3>1, DecideFinds
  <2>3. QED
    BY <2>1, <2>2
<1>2. QED
  BY <1>1, OpsTaskInductive, PTL DEF Spec, EndIsFinal

-----------------------------------------------------------------------------
(* The approval gate *)

Runs(h) == handler[h].pc \in {"execute", "record"}

\* An approved command has its result, or its handler still runs it; a handler records the
\* result of a command it has started.
GateInv ==
    /\ \A c \in approved : HasAnswer(c) \/ \E h \in Handlers : Runs(h) /\ handler[h].call = c
    /\ \A h \in Handlers : handler[h].pc = "record" => executed[handler[h].call] = 1

LEMMA AnsweredHaveAnswer ==
    ASSUME TypeOK
    PROVE  AnsweredCalls \subseteq Calls /\ \A c : c \in AnsweredCalls <=> HasAnswer(c)
BY MessageTypes DEF AnsweredCalls, HasAnswer

\* No answer is taken back.
LEMMA AnswersStay ==
    ASSUME AnsweredCalls \subseteq AnsweredCalls'
    PROVE  \A c : HasAnswer(c) => HasAnswer(c)'
<1>1. \A c : HasAnswer(c) => c \in AnsweredCalls
  BY DEF AnsweredCalls, HasAnswer
<1>2. \A c : c \in AnsweredCalls' => HasAnswer(c)'
  BY DEF AnsweredCalls, HasAnswer
<1>3. QED
  BY <1>1, <1>2

\* An answer is the answer to its call.
LEMMA AnswerAdds ==
    ASSUME TypeOK, NEW call \in Calls, Answer(call)
    PROVE  AnsweredCalls' = AnsweredCalls \cup {call}
<1> DEFINE n == Len(messages)
<1>1. /\ Turns' = Turns /\ DOMAIN messages' = 1..n + 1
      /\ \A i \in 1..n : messages'[i] = messages[i]
      /\ messages'[n + 1] = [role |-> "tool", call |-> call]
  BY AnswerKeepsTurns
<1>2. n \in Nat /\ DOMAIN messages = 1..n /\ Turns \subseteq 1..n
  BY MessageTypes
<1>3. DOMAIN messages' \ Turns' = (DOMAIN messages \ Turns) \cup {n + 1}
  BY <1>1, <1>2
<1>4. \A i \in DOMAIN messages \ Turns : messages'[i].call = messages[i].call
  BY <1>1, <1>2
<1>5. messages'[n + 1].call = call
  BY <1>1
<1>6. QED
  BY <1>3, <1>4, <1>5 DEF AnsweredCalls

\* A turn answers nothing.
LEMMA TurnAddsNothing ==
    ASSUME IInv, NEW g \in Goroutines, Model(g)
    PROVE  AnsweredCalls' = AnsweredCalls
<1> DEFINE n == Len(messages)
<1>1. CASE UNCHANGED messages
  BY <1>1 DEF AnsweredCalls, Turns
<1>2. CASE ~UNCHANGED messages
  <2>1. PICK calls \in Completions(steps) :
            messages' = Append(messages, [role |-> "assistant", calls |-> calls])
    BY <1>2 DEF Model
  <2>2. steps \in 1..MaxSteps
    BY OpsTaskAssumption DEF Model, At, IInv, DriverInv, DriverHolds, TypeOK
  <2>3. calls \in Seq(Calls)
    BY <2>2, CompletionCalls
  <2>4. PICK turn \in Message : turn = [role |-> "assistant", calls |-> calls]
    BY <2>3 DEF Message
  <2>5. messages \in Seq(Message) /\ n \in Nat /\ DOMAIN messages = 1..n /\ Turns \subseteq 1..n
    BY MessageTypes DEF IInv, TypeOK
  <2>6. /\ DOMAIN messages' = 1..n + 1
        /\ \A i \in 1..n : messages'[i] = messages[i]
        /\ messages'[n + 1] = turn
    BY <2>1, <2>4, <2>5
  <2>7. Turns' = Turns \cup {n + 1}
    BY <2>4, <2>5, <2>6 DEF Turns
  <2>8. DOMAIN messages' \ Turns' = DOMAIN messages \ Turns
    BY <2>5, <2>6, <2>7
  <2>9. \A i \in DOMAIN messages \ Turns : messages'[i].call = messages[i].call
    BY <2>5, <2>6
  <2>10. QED
    BY <2>8, <2>9 DEF AnsweredCalls
<1>3. QED
  BY <1>1, <1>2

\* The goroutine that dispatches a call has the gate for it alone.
LEMMA DriverAtGate ==
    ASSUME IInv, GateInv, NEW g \in Goroutines, driver[g].pc \in {"dispatch", "record"}
    PROVE  /\ Head(driver[g].calls) \in Calls
           /\ Head(driver[g].calls) \notin approved
           /\ Gate!Free(Head(driver[g].calls))
<1>1. /\ Works(g) /\ driver[g].calls # <<>> /\ driver[g].calls \in Seq(Calls)
      /\ AtCall(Head(driver[g].calls))
  BY DEF IInv, DriverInv, DriverHolds, Works, TypeOK
<1>2. PICK call \in Calls : call = Head(driver[g].calls)
  BY <1>1
<1>3. OnlyDriver(g) /\ pending = None
  BY <1>1 DEF IInv, ActorInv, PauseInv, Nobody
<1>4. ~HasAnswer(call)
  BY <1>1, <1>2, NextIsUnanswered DEF IInv
<1>5. \A c \in approved : HasAnswer(c)
  BY <1>3 DEF GateInv, Runs, OnlyDriver, Decides
<1>6. ASSUME NEW c \in Calls, executed[c] > 0, ~HasAnswer(c)
      PROVE  c = call
  BY <1>2, <1>3, <1>6 DEF IInv, ExecutedInv, OnlyDriver, Works, Decides
<1>7. \A c \in Calls : c \in AnsweredCalls <=> HasAnswer(c)
  BY AnsweredHaveAnswer DEF IInv
<1>8. Gate!Begun \subseteq {call}
  BY <1>5, <1>6, <1>7 DEF Gate!Begun
<1>9. QED
  BY <1>2, <1>3, <1>4, <1>5, <1>7, <1>8 DEF Gate!Free

\* So has the handler that runs an approved command.
LEMMA HandlerAtGate ==
    ASSUME IInv, GateInv, NEW h \in Handlers, Runs(h)
    PROVE  /\ handler[h].call \in approved /\ handler[h].call \in Calls
           /\ Gate!Free(handler[h].call)
<1>1. /\ Decides(h) /\ handler[h].call \in approved /\ AtCall(handler[h].call)
      /\ approved \subseteq Calls
  BY DEF IInv, HandlerInv, HandlerHolds, Runs, Decides, TypeOK
<1>2. PICK call \in Calls : call = handler[h].call
  BY <1>1
<1>3. OnlyHandler(h) /\ pending = None
  BY <1>1 DEF IInv, ActorInv, PauseInv, Nobody
<1>4. ~HasAnswer(call)
  BY <1>1, <1>2, NextIsUnanswered DEF IInv
<1>5. \A c \in approved : ~HasAnswer(c) => c = call
  BY <1>2, <1>3 DEF GateInv, Runs, OnlyHandler, Decides
<1>6. ASSUME NEW c \in Calls, executed[c] > 0, ~HasAnswer(c)
      PROVE  c = call
  BY <1>2, <1>3, <1>6 DEF IInv, ExecutedInv, OnlyHandler, Works, Decides
<1>7. \A c \in Calls : c \in AnsweredCalls <=> HasAnswer(c)
  BY AnsweredHaveAnswer DEF IInv
<1>8. Gate!Begun \subseteq {call}
  BY <1>5, <1>6, <1>7 DEF Gate!Begun
<1>9. QED
  BY <1>1, <1>2, <1>3, <1>4, <1>7, <1>8 DEF Gate!Free

\* What a step that decides, runs and answers nothing leaves alone.
LEMMA GateUntouched ==
    ASSUME IInv, GateInv, AnsweredCalls' = AnsweredCalls, TypeOK',
           UNCHANGED <<pending, approved, executed>>,
           \A h \in Handlers : Runs(h) \/ Runs(h)' => UNCHANGED handler[h]
    PROVE  GateInv' /\ UNCHANGED Gate!gate
<1>1. \A c : HasAnswer(c) => HasAnswer(c)'
  BY AnswersStay
<1>2. QED
  BY <1>1 DEF GateInv, Runs, Gate!gate

\* dispatch proposes a command that needs approval.
LEMMA PauseAtGate ==
    ASSUME IInv, IInv', GateInv, NEW g \in Goroutines, Pause(g)
    PROVE  GateInv' /\ Gate!GateNext
<1>1. /\ driver[g].pc = "dispatch" /\ Head(driver[g].calls).kind = "guarded"
      /\ pending' = Head(driver[g].calls)
      /\ UNCHANGED <<messages, handler, approved, executed>>
  BY DEF Pause, At
<1>2. PICK call \in Calls : call = Head(driver[g].calls)
  BY <1>1, DriverAtGate
<1>3. call \notin approved /\ Gate!Free(call)
  BY <1>1, <1>2, DriverAtGate
<1>4. AnsweredCalls' = AnsweredCalls
  BY <1>1 DEF AnsweredCalls, Turns
<1>5. Gate!Propose(call)
  BY <1>1, <1>2, <1>3, <1>4 DEF Gate!Propose
<1>6. GateInv'
  BY <1>1 DEF GateInv, Runs, HasAnswer, Turns
<1>7. QED
  BY <1>5, <1>6 DEF Gate!GateNext

\* dispatch runs a read-only command, or leaves the gate alone.
LEMMA DispatchAtGate ==
    ASSUME IInv, IInv', GateInv, NEW g \in Goroutines, Dispatch(g)
    PROVE  GateInv' /\ (Gate!GateNext \/ UNCHANGED Gate!gate)
<1>1. driver[g].pc = "dispatch" /\ UNCHANGED <<pending, messages, handler, approved>>
  BY DEF Dispatch, At
<1>2. PICK call \in Calls : call = Head(driver[g].calls)
  BY <1>1, DriverAtGate
<1>3. call \notin approved /\ Gate!Free(call)
  BY <1>1, <1>2, DriverAtGate
<1>4. AnsweredCalls' = AnsweredCalls
  BY <1>1 DEF AnsweredCalls, Turns
<1>5. CASE UNCHANGED executed
  BY <1>1, <1>4, <1>5, GateUntouched DEF IInv
<1>6. CASE ~UNCHANGED executed
  <2>1. call.kind = "exempt" /\ Start(call)
    BY <1>2, <1>6 DEF Dispatch
  <2>2. executed[call] = 0
    <3>1. Works(g) /\ driver[g].pc # "record" /\ ~HasAnswer(call)
      BY <1>1, <1>2, <1>3, AnsweredHaveAnswer DEF Works, Gate!Free, IInv
    <3>2. ~(executed[call] > 0)
      BY <3>1, StartedIsAnswered
    <3>3. executed[call] \in 0..2
      BY <1>2 DEF IInv, TypeOK
    <3>4. QED
      BY <3>2, <3>3
  <2>3. executed' = [executed EXCEPT ![call] = 1]
    BY <2>1, <2>2 DEF Start
  <2>4. Gate!Execute(call)
    BY <1>1, <1>3, <1>4, <2>1, <2>2, <2>3 DEF Gate!Execute
  <2>5. GateInv'
    <3>1. \A h \in Handlers : ~Runs(h)
      BY <1>1 DEF IInv, ActorInv, OnlyDriver, Works, Decides, Runs
    <3>2. \A h \in Handlers : handler'[h].pc # "record"
      BY <1>1, <3>1 DEF Runs
    <3>3. QED
      BY <1>1, <3>1, <3>2 DEF GateInv, Runs, HasAnswer, Turns
  <2>6. QED
    BY <2>4, <2>5 DEF Gate!GateNext
<1>7. QED
  BY <1>5, <1>6

\* processToolCalls answers the call it dispatched.
LEMMA RecordAtGate ==
    ASSUME IInv, IInv', GateInv, NEW g \in Goroutines, Record(g)
    PROVE  GateInv' /\ Gate!GateNext
<1>1. /\ driver[g].pc = "record" /\ Answer(Head(driver[g].calls))
      /\ UNCHANGED <<pending, handler, approved, executed>>
  BY DEF Record, At
<1>2. PICK call \in Calls : call = Head(driver[g].calls)
  BY <1>1, DriverAtGate
<1>3. call \notin approved /\ Gate!Free(call)
  BY <1>1, <1>2, DriverAtGate
<1>4. AnsweredCalls' = AnsweredCalls \cup {call}
  BY <1>1, <1>2, AnswerAdds DEF IInv
<1>5. Gate!Reply(call)
  BY <1>1, <1>3, <1>4 DEF Gate!Reply
<1>6. \A c : HasAnswer(c) => HasAnswer(c)'
  BY <1>4, AnswersStay
<1>7. GateInv'
  BY <1>1, <1>6 DEF GateInv, Runs
<1>8. QED
  BY <1>5, <1>7 DEF Gate!GateNext

\* Decide approves or denies the command that waits.
LEMMA DecideAtGate ==
    ASSUME IInv, IInv', GateInv, NEW h \in Handlers, Decide(h)
    PROVE  GateInv' /\ Gate!GateNext
<1>1. PICK call \in Calls : call = pending
  BY DecideFinds
<1>2. /\ pending # None /\ pending' = None /\ UNCHANGED executed
      /\ handler[h].shown = call /\ Nobody
  BY <1>1, DecideFinds, OpsTaskAssumption DEF Decide, TakePending
<1>3. \A k \in Handlers : ~Runs(k)
  BY <1>2 DEF Nobody, Decides, Runs
<1>4. \A c \in approved : HasAnswer(c)
  BY <1>3 DEF GateInv
<1>5. CASE /\ approved' = approved \cup {call} /\ UNCHANGED messages
           /\ handler' = [handler EXCEPT ![h].pc = "execute", ![h].call = pending]
  <2>1. AnsweredCalls' = AnsweredCalls /\ \A c : HasAnswer(c)' = HasAnswer(c)
    BY <1>5 DEF AnsweredCalls, HasAnswer, Turns
  <2>2. Gate!Approve
    BY <1>1, <1>2, <1>5, <2>1 DEF Gate!Approve
  <2>3. /\ handler'[h].pc = "execute" /\ handler'[h].call = call
        /\ \A k \in Handlers \ {h} : handler'[k] = handler[k]
    BY <1>1, <1>5 DEF IInv, TypeOK
  <2>4. GateInv'
    BY <1>3, <1>4, <1>5, <2>1, <2>3 DEF GateInv, Runs
  <2>5. QED
    BY <2>2, <2>4 DEF Gate!GateNext
<1>6. CASE /\ Answer(call) /\ UNCHANGED approved
           /\ handler' = [handler EXCEPT ![h].pc = "resume", ![h].call = pending]
  <2>1. AnsweredCalls' = AnsweredCalls \cup {call}
    BY <1>6, AnswerAdds DEF IInv
  <2>2. Gate!Deny
    BY <1>1, <1>2, <1>6, <2>1 DEF Gate!Deny
  <2>3. \A c : HasAnswer(c) => HasAnswer(c)'
    BY <2>1, AnswersStay
  <2>4. /\ handler'[h].pc = "resume"
        /\ \A k \in Handlers \ {h} : handler'[k] = handler[k]
    BY <1>6 DEF IInv, TypeOK
  <2>5. GateInv'
    BY <1>3, <1>4, <1>6, <2>3, <2>4 DEF GateInv, Runs
  <2>6. QED
    BY <2>2, <2>5 DEF Gate!GateNext
<1>7. QED
  BY <1>1, <1>2, <1>5, <1>6 DEF Decide

\* Decide runs the command it approved.
LEMMA ExecuteAtGate ==
    ASSUME IInv, IInv', GateInv, NEW h \in Handlers, ExecuteApproved(h)
    PROVE  GateInv' /\ Gate!GateNext
<1>1. /\ handler[h].pc = "execute" /\ Runs(h) /\ Start(handler[h].call)
      /\ handler' = [handler EXCEPT ![h].pc = "record"]
      /\ UNCHANGED <<pending, messages, approved>>
  BY DEF ExecuteApproved, Runs, task
<1>2. PICK call \in Calls : call = handler[h].call
  BY <1>1, HandlerAtGate
<1>3. call \in approved /\ Gate!Free(call) /\ call.kind = "guarded"
  BY <1>1, <1>2, HandlerAtGate DEF IInv, HandlerInv, HandlerHolds
<1>4. AnsweredCalls' = AnsweredCalls /\ \A c : HasAnswer(c)' = HasAnswer(c)
  BY <1>1 DEF AnsweredCalls, HasAnswer, Turns
<1>5. OnlyHandler(h)
  BY <1>1 DEF IInv, ActorInv, Runs, Decides
<1>6. executed[call] = 0
  <2>1. ~HasAnswer(call)
    BY <1>2, <1>3, AnsweredHaveAnswer DEF Gate!Free, IInv
  <2>2. ~(executed[call] > 0)
    BY <1>1, <1>5, <2>1 DEF IInv, ExecutedInv, OnlyHandler, Works, Decides
  <2>3. executed[call] \in 0..2
    BY <1>2 DEF IInv, TypeOK
  <2>4. QED
    BY <2>2, <2>3
<1>7. executed' = [executed EXCEPT ![call] = 1] /\ executed'[call] = 1
  BY <1>1, <1>2, <1>6 DEF Start, IInv, TypeOK
<1>8. Gate!Execute(call)
  BY <1>1, <1>3, <1>4, <1>6, <1>7 DEF Gate!Execute
<1>9. /\ handler'[h].pc = "record" /\ handler'[h].call = call
      /\ \A k \in Handlers \ {h} : handler'[k] = handler[k]
  BY <1>1, <1>2 DEF IInv, TypeOK
<1>10. \A k \in Handlers \ {h} : ~Runs(k)
  BY <1>5 DEF OnlyHandler, Decides, Runs
<1>11. GateInv'
  BY <1>1, <1>2, <1>4, <1>7, <1>9, <1>10 DEF GateInv, Runs
<1>12. QED
  BY <1>8, <1>11 DEF Gate!GateNext

\* The result of an approved command is its answer.
LEMMA ResultAtGate ==
    ASSUME IInv, IInv', GateInv, NEW h \in Handlers, RecordApproved(h)
    PROVE  GateInv' /\ Gate!GateNext
<1>1. /\ handler[h].pc = "record" /\ Runs(h) /\ Answer(handler[h].call)
      /\ handler' = [handler EXCEPT ![h].pc = "resume"]
      /\ UNCHANGED <<pending, approved, executed>>
  BY DEF RecordApproved, Runs
<1>2. PICK call \in Calls : call = handler[h].call
  BY <1>1, HandlerAtGate
<1>3. Gate!Free(call) /\ executed[call] = 1
  BY <1>1, <1>2, HandlerAtGate DEF GateInv
<1>4. AnsweredCalls' = AnsweredCalls \cup {call}
  BY <1>1, <1>2, AnswerAdds DEF IInv
<1>5. Gate!Reply(call)
  BY <1>1, <1>3, <1>4 DEF Gate!Reply
<1>6. /\ \A c : HasAnswer(c) => HasAnswer(c)'
      /\ HasAnswer(call)'
  <2>1. call \in AnsweredCalls'
    BY <1>4
  <2>2. HasAnswer(call)'
    BY <2>1 DEF AnsweredCalls, HasAnswer
  <2>3. QED
    BY <1>4, <2>2, AnswersStay
<1>7. /\ handler'[h].pc = "resume"
      /\ \A k \in Handlers \ {h} : handler'[k] = handler[k]
  BY <1>1 DEF IInv, TypeOK
<1>8. GateInv'
  BY <1>1, <1>2, <1>6, <1>7 DEF GateInv, Runs
<1>9. QED
  BY <1>5, <1>8 DEF Gate!GateNext

LEMMA GateStep ==
    ASSUME IInv, IInv', GateInv, [Next]_vars
    PROVE  GateInv' /\ (Gate!GateNext \/ UNCHANGED Gate!gate)
<1> DEFINE Goal == GateInv' /\ (Gate!GateNext \/ UNCHANGED Gate!gate)
<1>1. ASSUME NEW g \in Goroutines, Drive(g) PROVE Goal
  <2>1. CASE Loop(g) \/ NextCall(g) \/ Finish(g) \/ FinishCancel(g) \/ Resume(g)
    <3>1. UNCHANGED <<pending, messages, handler, approved, executed>>
      BY <2>1 DEF Loop, NextCall, Finish, FinishCancel, Resume, task
    <3>2. AnsweredCalls' = AnsweredCalls
      BY <3>1 DEF AnsweredCalls, Turns
    <3>3. QED
      BY <3>1, <3>2, GateUntouched DEF IInv
  <2>2. CASE Model(g)
    <3>1. UNCHANGED <<pending, handler, approved, executed>>
      BY <2>2 DEF Model
    <3>2. QED
      BY <2>2, <3>1, TurnAddsNothing, GateUntouched DEF IInv
  <2>3. QED
    BY <1>1, <2>1, <2>2, DispatchAtGate, PauseAtGate, RecordAtGate DEF Drive
<1>2. ASSUME NEW h \in Handlers, Request(h) \/ Handle(h) PROVE Goal
  <2>1. CASE Request(h) \/ Refuse(h) \/ SpawnResume(h)
    <3>1. UNCHANGED <<pending, messages, approved, executed>>
      BY <2>1 DEF Request, Refuse, SpawnResume, task
    <3>2. AnsweredCalls' = AnsweredCalls
      BY <3>1 DEF AnsweredCalls, Turns
    <3>3. /\ ~Runs(h) /\ handler'[h].pc \in {"idle", "sent"}
          /\ \A k \in Handlers \ {h} : handler'[k] = handler[k]
      BY <2>1 DEF Request, Refuse, SpawnResume, NoDecision, Runs, IInv, TypeOK
    <3>4. QED
      BY <3>1, <3>2, <3>3, GateUntouched DEF IInv, Runs
  <2>2. QED
    BY <1>2, <2>1, DecideAtGate, ExecuteAtGate, ResultAtGate DEF Handle
<1>3. CASE Expire \/ WatchDeadline \/ Reap \/ Close \/ Forgotten \/ UNCHANGED vars
  <2>1. UNCHANGED <<pending, messages, handler, approved, executed>>
    BY <1>3 DEF Expire, WatchDeadline, Reap, Close, Forgotten, vars, task
  <2>2. AnsweredCalls' = AnsweredCalls
    BY <2>1 DEF AnsweredCalls, Turns
  <2>3. QED
    BY <2>1, <2>2, GateUntouched DEF IInv
<1>4. QED
  BY <1>1, <1>2, <1>3 DEF Next

\* OpsTask implements ApprovalGate, for any limits and any number of administrators: one
\* call at a time, decided once, executed once and only if it is let through, answered
\* once (processToolCalls, Agent.dispatch, Agent.Decide, resumeQueuedCalls).
THEOREM CommandsGoThroughGate == Spec => CommandsPassGate
<1>1. Init => GateInv /\ Gate!GateInit
  BY DEF Init, GateInv, NoDecision, Gate!GateInit, AnsweredCalls, Turns
<1>2. IInv /\ IInv' /\ GateInv /\ [Next]_vars => GateInv' /\ [Gate!GateNext]_(Gate!gate)
  BY GateStep
<1>3. QED
  BY <1>1, <1>2, OpsTaskInductive, PTL DEF Spec, CommandsPassGate, Gate!GateSpec
=============================================================================
