-------------------------- MODULE TaskEventsProofs --------------------------
(***************************************************************************)
(* Proofs about the event stream of a task, for any goroutines, browsers,  *)
(* channel capacity and number of events.  The inductive invariant IInv    *)
(* says where every event is: what a connection wrote, what is left of its *)
(* history, what its channel holds and what a goroutine is about to offer  *)
(* to it stand in one line, in which an event occurs once and the events   *)
(* of one goroutine in the order it emitted them.                          *)
(***************************************************************************)
EXTENDS TaskEvents, SequenceTheorems, TLAPS

\* Event k may be received before event m.
Precedes(k, m) == k # m /\ (source[k] = source[m] => k < m)

InLine(s) == \A i, j \in 1..Len(s) : i < j => Precedes(s[i], s[j])

Before(s, t) == \A i \in 1..Len(s), j \in 1..Len(t) : Precedes(s[i], t[j])

BeforeEvent(s, m) == \A i \in 1..Len(s) : Precedes(s[i], m)

\* Only events that exist are written or on their way.
IdsExist(b) ==
    /\ stream[b].from <= Len(events)
    /\ \A i \in 1..Len(stream[b].sent) : stream[b].sent[i] <= Len(events)
    /\ \A i \in 1..Len(stream[b].history) : stream[b].history[i] <= Len(events)
    /\ \A i \in 1..Len(stream[b].chan) : stream[b].chan[i] <= Len(events)

\* Where history, channel and written events may be found.
Shape(b) ==
    /\ stream[b].pc \in {"got", "write"} => stream[b].sent = <<>>
    /\ stream[b].pc # "write" => stream[b].history = <<>>
    /\ stream[b].pc \notin {"write", "loop"} => stream[b].chan = <<>>

\* The line of one connection.
Line(b) ==
    /\ InLine(stream[b].sent) /\ InLine(stream[b].history) /\ InLine(stream[b].chan)
    /\ Before(stream[b].sent, stream[b].chan) /\ Before(stream[b].history, stream[b].chan)
    /\ \A w \in Writers : b \in writer[w].left =>
          /\ BeforeEvent(stream[b].sent, writer[w].id)
          /\ BeforeEvent(stream[b].history, writer[w].id)
          /\ BeforeEvent(stream[b].chan, writer[w].id)

\* An event of the connection of b has been written, is on its way, or was dropped.
Reaches(k, b) ==
    \/ k \in Range(stream[b].sent) \/ k \in Range(stream[b].history)
    \/ k \in Range(stream[b].chan) \/ k \in dropped[b]
    \/ \E w \in Writers : b \in writer[w].left /\ writer[w].id = k

NoGap(b) == b \in Subscribed => \A k \in stream[b].from + 1 .. Len(events) : Reaches(k, b)

StreamInv == \A b \in Browsers : IdsExist(b) /\ Shape(b) /\ Line(b) /\ NoGap(b)

\* What a goroutine offers is the last event it emitted, to channels that exist.
WriterInv ==
    \A w \in Writers :
        /\ writer[w].pc # "send" => writer[w].left = {}
        /\ writer[w].left \subseteq Subscribed
        /\ writer[w].pc = "send" =>
              /\ writer[w].id \in 1..Len(events) /\ source[writer[w].id] = w
              /\ \A k \in 1..Len(events) : source[k] = w => k <= writer[w].id

IInv == TypeOK /\ Len(source) = Len(events) /\ WriterInv /\ StreamInv

-----------------------------------------------------------------------------
(* Sequences of events *)

\* Types that the steps below need.
LEMMA Types ==
    ASSUME TypeOK
    PROVE  /\ Len(events) \in Nat /\ Len(source) \in Nat /\ MaxEvents \in Nat
           /\ \A b \in Browsers :
                 /\ stream[b] \in Stream
                 /\ stream[b].sent \in Seq(Ids) /\ stream[b].history \in Seq(Ids) /\ stream[b].chan \in Seq(Ids)
                 /\ stream[b].from \in 0..MaxEvents
           /\ \A w \in Writers : /\ writer[w] \in Writer /\ writer[w].id \in Ids \cup {0}
                                 /\ writer[w].left \subseteq Browsers
BY TaskEventsAssumption DEF TypeOK, Stream, Writer

\* Appending an event behind a line.
LEMMA AppendToLine ==
    ASSUME NEW s \in Seq(Ids), NEW m \in Ids
    PROVE  /\ Append(s, m) \in Seq(Ids)
           /\ Range(Append(s, m)) = Range(s) \cup {m}
           /\ InLine(s) /\ BeforeEvent(s, m) => InLine(Append(s, m))
           /\ \A t \in Seq(Ids) : Before(t, s) /\ BeforeEvent(t, m) => Before(t, Append(s, m))
           /\ \A t \in Seq(Ids) : Before(s, t) /\ (\A j \in 1..Len(t) : Precedes(m, t[j])) => Before(Append(s, m), t)
           /\ \A k : BeforeEvent(s, k) /\ Precedes(m, k) => BeforeEvent(Append(s, m), k)
<1>1. /\ Append(s, m) \in Seq(Ids) /\ Len(s) \in Nat
      /\ Len(Append(s, m)) = Len(s) + 1
      /\ \A i \in 1..Len(s) : Append(s, m)[i] = s[i]
      /\ Append(s, m)[Len(s) + 1] = m
      /\ DOMAIN s = 1..Len(s) /\ DOMAIN Append(s, m) = 1..Len(s) + 1
  OBVIOUS
<1>2. Range(Append(s, m)) = Range(s) \cup {m}
  BY <1>1 DEF Range
<1>3. InLine(s) /\ BeforeEvent(s, m) => InLine(Append(s, m))
  BY <1>1 DEF InLine, BeforeEvent
<1>4. \A t \in Seq(Ids) : Before(t, s) /\ BeforeEvent(t, m) => Before(t, Append(s, m))
  BY <1>1 DEF Before, BeforeEvent
<1>5. \A t \in Seq(Ids) : Before(s, t) /\ (\A j \in 1..Len(t) : Precedes(m, t[j])) => Before(Append(s, m), t)
  BY <1>1 DEF Before
<1>6. \A k : BeforeEvent(s, k) /\ Precedes(m, k) => BeforeEvent(Append(s, m), k)
  BY <1>1 DEF BeforeEvent
<1>7. QED
  BY <1>1, <1>2, <1>3, <1>4, <1>5, <1>6

\* Taking the first event of a line.
LEMMA TakeFromLine ==
    ASSUME NEW s \in Seq(Ids), s # <<>>
    PROVE  /\ Head(s) \in Ids /\ Tail(s) \in Seq(Ids)
           /\ Range(s) = Range(Tail(s)) \cup {Head(s)}
           /\ InLine(s) => InLine(Tail(s)) /\ \A j \in 1..Len(Tail(s)) : Precedes(Head(s), Tail(s)[j])
           /\ \A t \in Seq(Ids) : Before(t, s) => Before(t, Tail(s)) /\ BeforeEvent(t, Head(s))
           /\ \A k : BeforeEvent(s, k) => BeforeEvent(Tail(s), k) /\ Precedes(Head(s), k)
<1>1. /\ Head(s) \in Ids /\ Tail(s) \in Seq(Ids) /\ Len(s) \in Nat \ {0}
      /\ Head(s) = s[1] /\ Len(Tail(s)) = Len(s) - 1
      /\ \A i \in 1..Len(Tail(s)) : Tail(s)[i] = s[i + 1]
      /\ DOMAIN s = 1..Len(s) /\ DOMAIN Tail(s) = 1..Len(Tail(s))
  OBVIOUS
<1>2. Range(s) = Range(Tail(s)) \cup {Head(s)}
  <2>1. ASSUME NEW i \in 1..Len(s) PROVE s[i] \in Range(Tail(s)) \cup {Head(s)}
    <3>1. CASE i = 1
      BY <1>1, <3>1
    <3>2. CASE i # 1
      <4>1. i - 1 \in 1..Len(Tail(s)) /\ (i - 1) + 1 = i
        BY <1>1, <3>2
      <4>2. Tail(s)[i - 1] = s[i]
        BY <1>1, <4>1
      <4>3. QED
        BY <1>1, <4>1, <4>2 DEF Range
    <3>3. QED
      BY <3>1, <3>2
  <2>2. ASSUME NEW i \in 1..Len(Tail(s)) PROVE Tail(s)[i] \in Range(s)
    <3>1. i + 1 \in 1..Len(s)
      BY <1>1
    <3>2. QED
      BY <1>1, <3>1 DEF Range
  <2>3. Head(s) \in Range(s)
    BY <1>1 DEF Range
  <2>4. QED
    BY <1>1, <2>1, <2>2, <2>3 DEF Range
<1>3. ASSUME InLine(s) PROVE InLine(Tail(s)) /\ \A j \in 1..Len(Tail(s)) : Precedes(Head(s), Tail(s)[j])
  <2>1. \A i \in 1..Len(Tail(s)) : i + 1 \in 1..Len(s) /\ 1 < i + 1
    BY <1>1
  <2>2. QED
    BY <1>1, <1>3, <2>1 DEF InLine
<1>4. \A t \in Seq(Ids) : Before(t, s) => Before(t, Tail(s)) /\ BeforeEvent(t, Head(s))
  <2>1. \A i \in 1..Len(Tail(s)) : i + 1 \in 1..Len(s)
    BY <1>1
  <2>2. QED
    BY <1>1, <2>1 DEF Before, BeforeEvent
<1>5. \A k : BeforeEvent(s, k) => BeforeEvent(Tail(s), k) /\ Precedes(Head(s), k)
  <2>1. \A i \in 1..Len(Tail(s)) : i + 1 \in 1..Len(s)
    BY <1>1
  <2>2. QED
    BY <1>1, <2>1 DEF BeforeEvent
<1>6. QED
  BY <1>1, <1>2, <1>3, <1>4, <1>5

\* Nothing is in the way of an empty sequence.
LEMMA EmptyLine ==
    /\ <<>> \in Seq(Ids) /\ InLine(<<>>) /\ Range(<<>>) = {}
    /\ \A t \in Seq(Ids) : Before(t, <<>>) /\ Before(<<>>, t)
    /\ \A k : BeforeEvent(<<>>, k)
BY DEF InLine, Before, BeforeEvent, Range

-----------------------------------------------------------------------------
(* The actions *)

\* A connection the step does not touch stays as it was.
LEMMA OtherBrowser ==
    ASSUME IInv, NEW c \in Browsers,
           stream'[c] = stream[c], dropped'[c] = dropped[c],
           UNCHANGED <<events, source>>,
           \A w \in Writers : /\ c \in writer'[w].left <=> c \in writer[w].left
                              /\ c \in writer[w].left => writer'[w].id = writer[w].id
    PROVE  IdsExist(c)' /\ Shape(c)' /\ Line(c)' /\ NoGap(c)'
<1>1. IdsExist(c) /\ Shape(c) /\ Line(c) /\ NoGap(c)
  BY DEF IInv, StreamInv
<1>2. IdsExist(c)' /\ Shape(c)'
  BY <1>1 DEF IdsExist, Shape
<1>3. /\ \A s : InLine(s)' = InLine(s)
      /\ \A s, t : Before(s, t)' = Before(s, t)
      /\ \A s, m : BeforeEvent(s, m)' = BeforeEvent(s, m)
  BY DEF InLine, Before, BeforeEvent, Precedes
<1>4. PICK r : r = stream[c]
  OBVIOUS
<1>5. InLine(r.sent)' /\ InLine(r.history)' /\ InLine(r.chan)' /\ Before(r.sent, r.chan)' /\ Before(r.history, r.chan)'
  BY <1>1, <1>3, <1>4 DEF Line
<1>6. ASSUME NEW w \in Writers, c \in writer'[w].left
      PROVE  (BeforeEvent(r.sent, writer[w].id) /\ BeforeEvent(r.history, writer[w].id) /\ BeforeEvent(r.chan, writer[w].id))'
  <2>1. PICK m : m = writer[w].id /\ m = writer'[w].id
    BY <1>6
  <2>2. BeforeEvent(r.sent, m)' /\ BeforeEvent(r.history, m)' /\ BeforeEvent(r.chan, m)'
    BY <1>1, <1>3, <1>4, <1>6, <2>1 DEF Line
  <2>3. QED
    BY <2>1, <2>2
<1>7. Line(c)'
  BY <1>4, <1>5, <1>6 DEF Line
<1>8. NoGap(c)'
  BY <1>1 DEF NoGap, Reaches, Subscribed
<1>9. QED
  BY <1>2, <1>7, <1>8

\* emit appends an event and goes on to offer it to the subscribers of this moment.
LEMMA EmitStep ==
    ASSUME IInv, NEW w \in Writers, NEW kind \in {"progress", "end"},
           Len(events) < MaxEvents, writer[w].pc # "send", Emit(w, kind),
           UNCHANGED <<status, listed, stream, received, dropped>>
    PROVE  IInv'
<1> USE DEF IInv
<1> DEFINE n == Len(events)
<1>1. n \in Nat /\ MaxEvents \in Nat /\ Len(source) = n /\ events \in Seq({"progress", "end"}) /\ source \in Seq(Writers)
  BY Types DEF TypeOK
<1>2. writer[w].left = {} /\ Subscribed \subseteq Browsers
  BY DEF WriterInv, Subscribed
<1>3. CASE ~listed
  <2>1. writer' = [writer EXCEPT ![w] = Quiet] /\ UNCHANGED <<events, source>>
    BY <1>3 DEF Emit
  <2>2. writer'[w] = Quiet /\ Quiet \in Writer /\ \A v \in Writers \ {w} : writer'[v] = writer[v]
    BY <2>1 DEF TypeOK, Quiet, Writer
  <2>3. TypeOK'
    BY <2>1, <2>2 DEF TypeOK
  <2>4. WriterInv'
    BY <2>1, <2>2 DEF WriterInv, Subscribed, Quiet
  <2>5. ASSUME NEW c \in Browsers PROVE IdsExist(c)' /\ Shape(c)' /\ Line(c)' /\ NoGap(c)'
    BY <1>2, <2>1, <2>2, OtherBrowser DEF Quiet
  <2>6. QED
    BY <2>1, <2>3, <2>4, <2>5 DEF StreamInv
<1>4. CASE listed
  <2>1. /\ events' = Append(events, kind) /\ source' = Append(source, w)
        /\ writer' = [writer EXCEPT ![w] = [pc |-> "send", id |-> n + 1, left |-> Subscribed]]
    BY <1>4 DEF Emit
  <2>2. /\ Len(events') = n + 1 /\ Len(source') = n + 1
        /\ events' \in Seq({"progress", "end"}) /\ source' \in Seq(Writers)
        /\ source'[n + 1] = w /\ \A k \in 1..n : source'[k] = source[k]
    BY <1>1, <2>1
  <2>3. /\ writer'[w] = [pc |-> "send", id |-> n + 1, left |-> Subscribed]
        /\ writer'[w] \in Writer
        /\ \A v \in Writers \ {w} : writer'[v] = writer[v]
    BY <1>1, <1>2, <2>1 DEF TypeOK, Writer, Ids
  <2>4. TypeOK'
    BY <1>1, <2>1, <2>2, <2>3 DEF TypeOK
  <2>5. Subscribed' = Subscribed
    BY DEF Subscribed
  <2>6. WriterInv'
    <3>1. SUFFICES ASSUME NEW v \in Writers
                   PROVE  /\ writer'[v].pc # "send" => writer'[v].left = {}
                          /\ writer'[v].left \subseteq Subscribed
                          /\ writer'[v].pc = "send" =>
                                /\ writer'[v].id \in 1..n + 1 /\ source'[writer'[v].id] = v
                                /\ \A k \in 1..n + 1 : source'[k] = v => k <= writer'[v].id
      BY <2>2, <2>5 DEF WriterInv
    <3>2. CASE v = w
      BY <1>1, <2>2, <2>3, <3>2
    <3>3. CASE v # w
      <4>1. writer'[v] = writer[v]
        BY <2>3, <3>3
      <4>2. writer[v].pc = "send" => writer[v].id \in 1..n
        BY DEF WriterInv
      <4>3. ASSUME NEW k \in 1..n + 1, source'[k] = v, writer[v].pc = "send" PROVE k <= writer[v].id
        <5>1. k # n + 1
          BY <2>2, <3>3, <4>3
        <5>2. k \in 1..n
          BY <1>1, <5>1
        <5>3. source[k] = v
          BY <2>2, <4>3, <5>2
        <5>4. QED
          BY <4>3, <5>2, <5>3 DEF WriterInv
      <4>4. writer[v].pc = "send" => writer[v].id \in 1..n + 1 /\ source'[writer[v].id] = v
        <5>1. \A k \in 1..n : k \in 1..n + 1
          BY <1>1
        <5>2. QED
          BY <2>2, <4>2, <5>1 DEF WriterInv
      <4>5. writer[v].pc # "send" => writer[v].left = {}
        BY DEF WriterInv
      <4>6. writer[v].left \subseteq Subscribed
        BY DEF WriterInv
      <4>7. QED
        BY <4>1, <4>3, <4>4, <4>5, <4>6
    <3>4. QED
      BY <3>2, <3>3
  <2>7. ASSUME NEW c \in Browsers PROVE IdsExist(c)' /\ Shape(c)' /\ Line(c)' /\ NoGap(c)'
    <3>1. /\ stream[c].sent \in Seq(Ids) /\ stream[c].history \in Seq(Ids) /\ stream[c].chan \in Seq(Ids)
          /\ stream[c].from \in Nat
      BY Types
    <3>2. IdsExist(c) /\ Shape(c) /\ Line(c) /\ NoGap(c)
      BY DEF StreamInv
    <3>3. /\ \A i \in 1..Len(stream[c].sent) : stream[c].sent[i] \in 1..n
          /\ \A i \in 1..Len(stream[c].history) : stream[c].history[i] \in 1..n
          /\ \A i \in 1..Len(stream[c].chan) : stream[c].chan[i] \in 1..n
      <4>1. \A m \in Ids : m <= n => m \in 1..n
        BY <1>1 DEF Ids
      <4>2. /\ \A i \in 1..Len(stream[c].sent) : stream[c].sent[i] <= n
            /\ \A i \in 1..Len(stream[c].history) : stream[c].history[i] <= n
            /\ \A i \in 1..Len(stream[c].chan) : stream[c].chan[i] <= n
        BY <3>2 DEF IdsExist
      <4>3. ASSUME NEW s \in Seq(Ids), \A i \in 1..Len(s) : s[i] <= n
            PROVE  \A i \in 1..Len(s) : s[i] \in 1..n
        BY <4>1, <4>3
      <4>4. \A i \in 1..Len(stream[c].sent) : stream[c].sent[i] \in 1..n
        BY <3>1, <4>2, <4>3
      <4>5. \A i \in 1..Len(stream[c].history) : stream[c].history[i] \in 1..n
        BY <3>1, <4>2, <4>3
      <4>6. \A i \in 1..Len(stream[c].chan) : stream[c].chan[i] \in 1..n
        BY <3>1, <4>2, <4>3
      <4>7. QED
        BY <4>4, <4>5, <4>6
    <3>4. /\ \A k, m \in 1..n : Precedes(k, m)' = Precedes(k, m)
          /\ \A k \in 1..n : k # n + 1 /\ k < n + 1
      BY <1>1, <2>2 DEF Precedes
    <3>5. IdsExist(c)'
      <4>1. /\ \A m \in 1..n : m <= n + 1
            /\ \A m \in Nat : m <= n => m <= n + 1
        BY <1>1
      <4>2. stream[c].from <= n + 1
        BY <3>1, <3>2, <4>1 DEF IdsExist
      <4>3. /\ \A i \in 1..Len(stream[c].sent) : stream[c].sent[i] <= n + 1
            /\ \A i \in 1..Len(stream[c].history) : stream[c].history[i] <= n + 1
            /\ \A i \in 1..Len(stream[c].chan) : stream[c].chan[i] <= n + 1
        BY <3>3, <4>1
      <4>4. QED
        BY <2>2, <4>2, <4>3 DEF IdsExist
    <3>6. Shape(c)'
      BY <3>2 DEF Shape
    <3>7. Line(c)'
      <4>1. InLine(stream[c].sent)' /\ InLine(stream[c].history)' /\ InLine(stream[c].chan)'
        <5>1. InLine(stream[c].sent) /\ InLine(stream[c].history) /\ InLine(stream[c].chan)
          BY <3>2 DEF Line
        <5>2. ASSUME NEW s, InLine(s), \A i \in 1..Len(s) : s[i] \in 1..n
              PROVE  \A i, j \in 1..Len(s) : i < j => Precedes(s[i], s[j])'
          BY <3>4, <5>2 DEF InLine
        <5>3. InLine(stream[c].sent)'
          BY <2>2, <3>3, <5>1, <5>2 DEF InLine
        <5>4. InLine(stream[c].history)'
          BY <2>2, <3>3, <5>1, <5>2 DEF InLine
        <5>5. InLine(stream[c].chan)'
          BY <2>2, <3>3, <5>1, <5>2 DEF InLine
        <5>6. QED
          BY <5>3, <5>4, <5>5
      <4>2. Before(stream[c].sent, stream[c].chan)' /\ Before(stream[c].history, stream[c].chan)'
        <5>1. Before(stream[c].sent, stream[c].chan) /\ Before(stream[c].history, stream[c].chan)
          BY <3>2 DEF Line
        <5>2. ASSUME NEW s, NEW z, Before(s, z),
                     \A i \in 1..Len(s) : s[i] \in 1..n, \A i \in 1..Len(z) : z[i] \in 1..n
              PROVE  \A i \in 1..Len(s), j \in 1..Len(z) : Precedes(s[i], z[j])'
          BY <3>4, <5>2 DEF Before
        <5>3. Before(stream[c].sent, stream[c].chan)'
          BY <2>2, <3>3, <5>1, <5>2 DEF Before
        <5>4. Before(stream[c].history, stream[c].chan)'
          BY <2>2, <3>3, <5>1, <5>2 DEF Before
        <5>5. QED
          BY <5>3, <5>4
      <4>3. ASSUME NEW v \in Writers, c \in writer'[v].left
            PROVE  /\ BeforeEvent(stream[c].sent, writer[v].id)'
                   /\ BeforeEvent(stream[c].history, writer[v].id)'
                   /\ BeforeEvent(stream[c].chan, writer[v].id)'
        <5>1. CASE v = w
          <6>1. writer'[v].id = n + 1
            BY <2>3, <5>1
          <6>2. \A k \in 1..n : Precedes(k, writer[v].id)'
            BY <1>1, <3>4, <6>1 DEF Precedes
          <6>3. QED
            BY <3>3, <6>2 DEF BeforeEvent
        <5>2. CASE v # w
          <6>1. writer'[v] = writer[v] /\ c \in writer[v].left
            BY <2>3, <4>3, <5>2
          <6>2. writer[v].id \in 1..n
            BY <6>1 DEF WriterInv
          <6>3. QED
            BY <3>2, <3>3, <3>4, <6>1, <6>2 DEF Line, BeforeEvent
        <5>3. QED
          BY <5>1, <5>2
      <4>4. QED
        BY <4>1, <4>2, <4>3 DEF Line
    <3>8. NoGap(c)'
      <4>1. SUFFICES ASSUME c \in Subscribed, NEW k \in stream[c].from + 1 .. n + 1
                     PROVE  Reaches(k, c)'
        BY <2>2, <2>5 DEF NoGap
      <4>2. CASE k = n + 1
        BY <2>3, <4>1, <4>2 DEF Reaches
      <4>3. CASE k # n + 1
        <5>1. k \in stream[c].from + 1 .. n
          BY <1>1, <3>1, <4>1, <4>3
        <5>2. Reaches(k, c)
          BY <3>2, <4>1, <5>1 DEF NoGap
        <5>3. \A v \in Writers : c \in writer[v].left => writer'[v] = writer[v]
          BY <1>2, <2>3
        <5>4. QED
          BY <5>2, <5>3 DEF Reaches
      <4>4. QED
        BY <4>2, <4>3
    <3>9. QED
      BY <3>5, <3>6, <3>7, <3>8
  <2>8. QED
    BY <2>2, <2>4, <2>6, <2>7 DEF StreamInv
<1>5. QED
  BY <1>3, <1>4

\* A step of the connection of b, whose record becomes t, on a given task.
LEMMA BrowserStep ==
    ASSUME IInv, NEW b \in Browsers, NEW t \in Stream,
           stream' = [stream EXCEPT ![b] = t], UNCHANGED <<status, events, listed, source>>,
           received' \in [Browsers -> SUBSET Ids], dropped' \in [Browsers -> SUBSET Ids],
           \A c \in Browsers \ {b} : dropped'[c] = dropped[c],
           writer' \in [Writers -> Writer],
           \A w \in Writers :
               /\ writer'[w].pc = writer[w].pc /\ writer'[w].id = writer[w].id
               /\ writer'[w].left \subseteq writer[w].left /\ writer[w].left \subseteq writer'[w].left \cup {b}
               /\ b \in writer'[w].left => t.pc \in {"write", "loop"},
           \* TypeOK
           Len(t.chan) <= Capacity,
           \* IdsExist
           t.from <= Len(events),
           \A i \in 1..Len(t.sent) : t.sent[i] <= Len(events),
           \A i \in 1..Len(t.history) : t.history[i] <= Len(events),
           \A i \in 1..Len(t.chan) : t.chan[i] <= Len(events),
           \* Shape
           t.pc \in {"got", "write"} => t.sent = <<>>,
           t.pc # "write" => t.history = <<>>,
           t.pc \notin {"write", "loop"} => t.chan = <<>>,
           \* Line
           InLine(t.sent), InLine(t.history), InLine(t.chan),
           Before(t.sent, t.chan), Before(t.history, t.chan),
           \A w \in Writers : b \in writer'[w].left =>
               /\ BeforeEvent(t.sent, writer[w].id)
               /\ BeforeEvent(t.history, writer[w].id)
               /\ BeforeEvent(t.chan, writer[w].id),
           \* NoGap
           t.pc \in {"write", "loop"} => \A k \in t.from + 1 .. Len(events) :
               \/ k \in Range(t.sent) \/ k \in Range(t.history) \/ k \in Range(t.chan) \/ k \in dropped'[b]
               \/ \E w \in Writers : b \in writer'[w].left /\ writer[w].id = k
    PROVE  IInv'
<1>1. /\ stream'[b] = t
      /\ \A c \in Browsers \ {b} : stream'[c] = stream[c]
      /\ stream' \in [Browsers -> Stream]
  BY DEF IInv, TypeOK
<1>2. TypeOK'
  BY <1>1 DEF IInv, TypeOK
<1>3. WriterInv'
  <2>1. SUFFICES ASSUME NEW w \in Writers
                 PROVE  /\ writer'[w].pc # "send" => writer'[w].left = {}
                        /\ writer'[w].left \subseteq Subscribed'
                        /\ writer'[w].pc = "send" =>
                              /\ writer'[w].id \in 1..Len(events) /\ source[writer'[w].id] = w
                              /\ \A k \in 1..Len(events) : source[k] = w => k <= writer'[w].id
    BY DEF WriterInv
  <2>2. writer[w].left \subseteq Subscribed
    BY DEF IInv, WriterInv
  <2>3. writer'[w].left \subseteq Subscribed'
    BY <1>1, <2>2 DEF Subscribed
  <2>4. QED
    BY <2>3 DEF IInv, WriterInv
<1>4. ASSUME NEW c \in Browsers, c # b PROVE IdsExist(c)' /\ Shape(c)' /\ Line(c)' /\ NoGap(c)'
  <2>1. stream'[c] = stream[c] /\ dropped'[c] = dropped[c]
    BY <1>1, <1>4
  <2>2. \A w \in Writers : /\ c \in writer'[w].left <=> c \in writer[w].left
                           /\ c \in writer[w].left => writer'[w].id = writer[w].id
    BY <1>4
  <2>3. QED
    BY <2>1, <2>2, OtherBrowser
<1>5. IdsExist(b)' /\ Shape(b)' /\ NoGap(b)'
  <2>1. IdsExist(b)' /\ Shape(b)'
    BY <1>1 DEF IdsExist, Shape
  <2>2. NoGap(b)'
    <3>1. SUFFICES ASSUME t.pc \in {"write", "loop"}, NEW k \in t.from + 1 .. Len(events)
                   PROVE  Reaches(k, b)'
      BY <1>1 DEF NoGap, Subscribed
    <3>2. \/ k \in Range(t.sent) \/ k \in Range(t.history) \/ k \in Range(t.chan) \/ k \in dropped'[b]
          \/ \E w \in Writers : b \in writer'[w].left /\ writer[w].id = k
      BY <3>1
    <3>3. QED
      BY <1>1, <3>2 DEF Reaches
  <2>3. QED
    BY <2>1, <2>2
<1>6. Line(b)'
  <2>1. /\ \A s : InLine(s)' = InLine(s)
        /\ \A s, u : Before(s, u)' = Before(s, u)
        /\ \A s, m : BeforeEvent(s, m)' = BeforeEvent(s, m)
    BY DEF InLine, Before, BeforeEvent, Precedes
  <2>2. InLine(t.sent)' /\ InLine(t.history)' /\ InLine(t.chan)' /\ Before(t.sent, t.chan)' /\ Before(t.history, t.chan)'
    BY <2>1
  <2>3. ASSUME NEW w \in Writers, b \in writer'[w].left
        PROVE  (BeforeEvent(t.sent, writer[w].id) /\ BeforeEvent(t.history, writer[w].id) /\ BeforeEvent(t.chan, writer[w].id))'
    <3>1. PICK m : m = writer[w].id /\ m = writer'[w].id
      OBVIOUS
    <3>2. BeforeEvent(t.sent, m)' /\ BeforeEvent(t.history, m)' /\ BeforeEvent(t.chan, m)'
      BY <2>1, <2>3, <3>1
    <3>3. QED
      BY <3>1, <3>2
  <2>4. QED
    BY <1>1, <2>2, <2>3 DEF Line
<1>7. StreamInv'
  BY <1>4, <1>5, <1>6 DEF StreamInv
<1>8. QED
  BY <1>2, <1>3, <1>7 DEF IInv

\* What the invariant says of one connection.
LEMMA Connection ==
    ASSUME IInv, NEW b \in Browsers
    PROVE  /\ IdsExist(b) /\ Shape(b) /\ Line(b) /\ NoGap(b)
           /\ stream[b] \in Stream /\ Len(stream[b].chan) <= Capacity
           /\ stream[b].sent \in Seq(Ids) /\ stream[b].history \in Seq(Ids) /\ stream[b].chan \in Seq(Ids)
           /\ Len(events) \in Nat
           /\ writer \in [Writers -> Writer] /\ received \in [Browsers -> SUBSET Ids]
           /\ dropped \in [Browsers -> SUBSET Ids]
           /\ b \notin Subscribed => \A w \in Writers : b \notin writer[w].left
BY Types DEF IInv, StreamInv, WriterInv, TypeOK

\* An event offered to a channel joins the end of the line, or is dropped.
LEMMA SendStep ==
    ASSUME IInv, NEW w \in Writers, NEW b \in Browsers, Send(w, b)
    PROVE  IInv'
<1>1. /\ IdsExist(b) /\ Shape(b) /\ Line(b) /\ NoGap(b)
      /\ stream[b] \in Stream /\ Len(stream[b].chan) <= Capacity
      /\ stream[b].chan \in Seq(Ids) /\ stream[b].sent \in Seq(Ids) /\ stream[b].history \in Seq(Ids)
      /\ Len(events) \in Nat /\ writer \in [Writers -> Writer]
      /\ dropped \in [Browsers -> SUBSET Ids] /\ received \in [Browsers -> SUBSET Ids]
  BY Connection
<1>2. PICK m : m = writer[w].id
  OBVIOUS
<1>3. PICK r : r = stream[b]
  OBVIOUS
<1>4. /\ writer[w].pc = "send" /\ b \in writer[w].left
      /\ writer' = [writer EXCEPT ![w].left = @ \ {b}]
      /\ UNCHANGED <<status, events, listed, received, source>>
  BY DEF Send
<1>5. b \in Subscribed /\ r.pc \in {"write", "loop"} /\ m \in 1..Len(events) /\ source[m] = w
  BY <1>2, <1>3, <1>4 DEF IInv, WriterInv, Subscribed
<1>6. m \in Ids /\ m <= Len(events)
  BY <1>1, <1>2, <1>5 DEF Writer, Ids
<1>7. /\ writer' \in [Writers -> Writer]
      /\ writer'[w] = [writer[w] EXCEPT !.left = @ \ {b}]
      /\ \A v \in Writers \ {w} : writer'[v] = writer[v]
  BY <1>1, <1>4 DEF Writer
<1>8. \A v \in Writers : /\ writer'[v].pc = writer[v].pc /\ writer'[v].id = writer[v].id
                         /\ writer'[v].left \subseteq writer[v].left
                         /\ writer[v].left \subseteq writer'[v].left \cup {b}
  BY <1>1, <1>7 DEF Writer
<1>9. b \notin writer'[w].left
  BY <1>1, <1>7 DEF Writer
<1>10. /\ InLine(r.sent) /\ InLine(r.history) /\ InLine(r.chan)
       /\ Before(r.sent, r.chan) /\ Before(r.history, r.chan)
       /\ BeforeEvent(r.sent, m) /\ BeforeEvent(r.history, m) /\ BeforeEvent(r.chan, m)
  BY <1>1, <1>2, <1>3, <1>4 DEF Line
<1>11. \A k \in r.from + 1 .. Len(events) :
          \/ k \in Range(r.sent) \/ k \in Range(r.history) \/ k \in Range(r.chan) \/ k \in dropped[b] \/ k = m
          \/ \E v \in Writers : b \in writer'[v].left /\ writer[v].id = k
  <2>1. ASSUME NEW k \in r.from + 1 .. Len(events), NEW v \in Writers, b \in writer[v].left, writer[v].id = k, k # m
        PROVE  b \in writer'[v].left
    BY <1>2, <1>7, <2>1
  <2>2. QED
    BY <1>1, <1>3, <1>5, <2>1 DEF NoGap, Reaches
<1>12. ASSUME NEW v \in Writers, b \in writer'[v].left
       PROVE  /\ BeforeEvent(r.sent, writer[v].id) /\ BeforeEvent(r.history, writer[v].id)
              /\ BeforeEvent(r.chan, writer[v].id) /\ Precedes(m, writer[v].id)
  <2>1. v # w /\ b \in writer[v].left
    BY <1>7, <1>9, <1>12
  <2>2. writer[v].id \in 1..Len(events) /\ source[writer[v].id] = v
    BY <2>1 DEF IInv, WriterInv
  <2>3. Precedes(m, writer[v].id)
    BY <1>5, <2>1, <2>2 DEF Precedes
  <2>4. QED
    BY <1>1, <1>3, <2>1, <2>3 DEF Line
<1>13. /\ r.from <= Len(events)
       /\ \A i \in 1..Len(r.sent) : r.sent[i] <= Len(events)
       /\ \A i \in 1..Len(r.history) : r.history[i] <= Len(events)
       /\ \A i \in 1..Len(r.chan) : r.chan[i] <= Len(events)
       /\ r.pc \in {"got", "write"} => r.sent = <<>>
       /\ r.pc # "write" => r.history = <<>>
  BY <1>1, <1>3 DEF IdsExist, Shape
<1>14. CASE HasRoom(b)
  <2>1. PICK t : t = [r EXCEPT !.chan = Append(@, m)]
    OBVIOUS
  <2>2. stream' = [stream EXCEPT ![b] = t] /\ dropped' = dropped
    BY <1>2, <1>3, <1>14, <2>1 DEF Send
  <2>3. /\ Append(r.chan, m) \in Seq(Ids) /\ Range(Append(r.chan, m)) = Range(r.chan) \cup {m}
        /\ InLine(Append(r.chan, m)) /\ Before(r.sent, Append(r.chan, m)) /\ Before(r.history, Append(r.chan, m))
        /\ \A k : BeforeEvent(r.chan, k) /\ Precedes(m, k) => BeforeEvent(Append(r.chan, m), k)
    BY <1>1, <1>3, <1>6, <1>10, AppendToLine
  <2>4. /\ t \in Stream /\ t.chan = Append(r.chan, m)
        /\ t.pc = r.pc /\ t.from = r.from /\ t.sent = r.sent /\ t.history = r.history
    BY <1>1, <1>3, <2>1, <2>3 DEF Stream
  <2>5. Len(t.chan) <= Capacity
    <3>1. Len(r.chan) \in Nat /\ Len(t.chan) = Len(r.chan) + 1 /\ Len(r.chan) < Capacity
      BY <1>1, <1>3, <1>14, <2>4 DEF HasRoom
    <3>2. QED
      BY <3>1, TaskEventsAssumption
  <2>6. \A i \in 1..Len(t.chan) : t.chan[i] <= Len(events)
    <3>1. ASSUME NEW i \in 1..Len(t.chan) PROVE t.chan[i] <= Len(events)
      <4>1. i \in 1..Len(r.chan) \/ (i = Len(r.chan) + 1 /\ t.chan[i] = m)
        BY <1>1, <1>3, <2>4
      <4>2. CASE i \in 1..Len(r.chan)
        BY <1>1, <1>3, <1>13, <2>4, <4>2
      <4>3. QED
        BY <1>6, <4>1, <4>2
    <3>2. QED
      BY <3>1
  <2>7. /\ t.from <= Len(events)
        /\ \A i \in 1..Len(t.sent) : t.sent[i] <= Len(events)
        /\ \A i \in 1..Len(t.history) : t.history[i] <= Len(events)
        /\ t.pc \in {"got", "write"} => t.sent = <<>>
        /\ t.pc # "write" => t.history = <<>>
        /\ t.pc \notin {"write", "loop"} => t.chan = <<>>
    BY <1>5, <1>13, <2>4
  <2>8. /\ InLine(t.sent) /\ InLine(t.history) /\ InLine(t.chan)
        /\ Before(t.sent, t.chan) /\ Before(t.history, t.chan)
    BY <1>10, <2>3, <2>4
  <2>9. \A v \in Writers : b \in writer'[v].left =>
           /\ BeforeEvent(t.sent, writer[v].id)
           /\ BeforeEvent(t.history, writer[v].id)
           /\ BeforeEvent(t.chan, writer[v].id)
    BY <1>12, <2>3, <2>4
  <2>10. \A k \in t.from + 1 .. Len(events) :
            \/ k \in Range(t.sent) \/ k \in Range(t.history) \/ k \in Range(t.chan) \/ k \in dropped'[b]
            \/ \E v \in Writers : b \in writer'[v].left /\ writer[v].id = k
    BY <1>11, <2>2, <2>3, <2>4
  <2>11. \A v \in Writers :
            /\ writer'[v].pc = writer[v].pc /\ writer'[v].id = writer[v].id
            /\ writer'[v].left \subseteq writer[v].left /\ writer[v].left \subseteq writer'[v].left \cup {b}
            /\ b \in writer'[v].left => t.pc \in {"write", "loop"}
    BY <1>5, <1>8, <2>4
  <2>12. /\ received' \in [Browsers -> SUBSET Ids] /\ dropped' \in [Browsers -> SUBSET Ids]
         /\ \A c \in Browsers \ {b} : dropped'[c] = dropped[c]
    BY <1>1, <1>4, <2>2
  <2>13. /\ UNCHANGED <<status, events, listed, source>>
         /\ writer' \in [Writers -> Writer] /\ t \in Stream
    BY <1>4, <1>7, <2>4
  <2>14. QED
    BY <2>2, <2>5, <2>6, <2>7, <2>8, <2>9, <2>10, <2>11, <2>12, <2>13, BrowserStep, Zenon
<1>15. CASE ~HasRoom(b)
  <2>1. stream' = stream /\ dropped' = [dropped EXCEPT ![b] = @ \cup {m}]
    BY <1>2, <1>15 DEF Send
  <2>2. stream' = [stream EXCEPT ![b] = r] /\ r \in Stream /\ Len(r.chan) <= Capacity
    BY <1>1, <1>3, <2>1 DEF IInv, TypeOK
  <2>3. /\ dropped' \in [Browsers -> SUBSET Ids] /\ dropped'[b] = dropped[b] \cup {m}
        /\ \A c \in Browsers \ {b} : dropped'[c] = dropped[c]
    BY <1>1, <1>6, <2>1
  <2>4. \A k \in r.from + 1 .. Len(events) :
            \/ k \in Range(r.sent) \/ k \in Range(r.history) \/ k \in Range(r.chan) \/ k \in dropped'[b]
            \/ \E v \in Writers : b \in writer'[v].left /\ writer[v].id = k
    BY <1>11, <2>3
  <2>5. \A v \in Writers :
            /\ writer'[v].pc = writer[v].pc /\ writer'[v].id = writer[v].id
            /\ writer'[v].left \subseteq writer[v].left /\ writer[v].left \subseteq writer'[v].left \cup {b}
            /\ b \in writer'[v].left => r.pc \in {"write", "loop"}
    BY <1>5, <1>8
  <2>6. \A v \in Writers : b \in writer'[v].left =>
           /\ BeforeEvent(r.sent, writer[v].id)
           /\ BeforeEvent(r.history, writer[v].id)
           /\ BeforeEvent(r.chan, writer[v].id)
    BY <1>12
  <2>7. received' \in [Browsers -> SUBSET Ids] /\ (r.pc \notin {"write", "loop"} => r.chan = <<>>)
    BY <1>1, <1>4, <1>5
  <2>8. \A i \in 1..Len(r.chan) : r.chan[i] <= Len(events)
    BY <1>13
  <2>9. QED
    BY <1>4, <1>7, <1>10, <1>13, <2>2, <2>3, <2>4, <2>5, <2>6, <2>7, <2>8, BrowserStep
<1>16. QED
  BY <1>14, <1>15

\* A request takes the place of a connection that is closed, and asks for what is behind an event.
LEMMA GetStep ==
    ASSUME IInv, NEW b \in Browsers, Get(b)
    PROVE  IInv'
<1>1. /\ IdsExist(b) /\ Shape(b) /\ Line(b) /\ stream[b] \in Stream /\ Len(stream[b].chan) <= Capacity
      /\ stream[b].sent \in Seq(Ids) /\ Len(events) \in Nat
      /\ writer \in [Writers -> Writer] /\ received \in [Browsers -> SUBSET Ids] /\ dropped \in [Browsers -> SUBSET Ids]
      /\ b \notin Subscribed => \A w \in Writers : b \notin writer[w].left
  BY Connection
<1>2. /\ stream[b].pc = "closed" /\ \A w \in Writers : b \notin writer[w].left
      /\ UNCHANGED <<status, events, listed, writer, received, dropped, source>>
  BY <1>1 DEF Get, Subscribed
<1>3. PICK r : r = stream[b]
  OBVIOUS
<1>4. CASE listed
  <2> DEFINE request(last) == [Closed EXCEPT !.pc = "got", !.from = last, !.ended = status = "ended"]
  <2>1. PICK last \in {0, LastEventID(b)} : stream' = [stream EXCEPT ![b] = request(last)]
    BY <1>4 DEF Get
  <2>2. PICK t : t = request(last)
    OBVIOUS
  <2>3. last \in 0..MaxEvents /\ last <= Len(events)
    <3>1. r.from \in 0..MaxEvents /\ r.from <= Len(events)
      BY <1>1, <1>3 DEF IdsExist, Stream
    <3>2. CASE r.sent = <<>>
      BY <1>1, <1>3, <2>1, <3>1, <3>2, TaskEventsAssumption DEF LastEventID
    <3>3. CASE r.sent # <<>>
      <4>1. Len(r.sent) \in 1..Len(r.sent) /\ r.sent[Len(r.sent)] \in Ids
        BY <1>1, <1>3, <3>3
      <4>2. r.sent[Len(r.sent)] <= Len(events)
        BY <1>1, <1>3, <4>1 DEF IdsExist
      <4>3. r.sent[Len(r.sent)] \in 0..MaxEvents
        BY <4>1, TaskEventsAssumption DEF Ids
      <4>4. last = 0 \/ last = r.sent[Len(r.sent)]
        BY <1>3, <2>1, <3>3 DEF LastEventID
      <4>5. QED
        BY <1>1, <4>2, <4>3, <4>4, TaskEventsAssumption
    <3>4. QED
      BY <3>2, <3>3
  <2>4. /\ t \in Stream /\ t.pc = "got" /\ t.from = last
        /\ t.history = <<>> /\ t.chan = <<>> /\ t.sent = <<>>
    <3>1. PICK e \in BOOLEAN : e = (status = "ended")
      OBVIOUS
    <3>2. t = [pc |-> "got", from |-> last, ended |-> e, history |-> <<>>, chan |-> <<>>, sent |-> <<>>]
      BY <2>2, <3>1 DEF Closed
    <3>3. <<>> \in Seq(Ids)
      OBVIOUS
    <3>4. t \in Stream
      BY <2>3, <3>2, <3>3 DEF Stream
    <3>5. QED
      BY <3>2, <3>4
  <2> HIDE DEF request
  <2>5. stream' = [stream EXCEPT ![b] = t]
    BY <2>1, <2>2
  <2>6. /\ InLine(t.sent) /\ InLine(t.history) /\ InLine(t.chan)
        /\ Before(t.sent, t.chan) /\ Before(t.history, t.chan)
        /\ Len(t.sent) = 0 /\ Len(t.history) = 0 /\ Len(t.chan) = 0
    BY <2>4, EmptyLine
  <2>7. Len(t.chan) <= Capacity
    BY <2>6, TaskEventsAssumption
  <2>8. /\ \A i \in 1..Len(t.sent) : t.sent[i] <= Len(events)
        /\ \A i \in 1..Len(t.history) : t.history[i] <= Len(events)
        /\ \A i \in 1..Len(t.chan) : t.chan[i] <= Len(events)
    BY <2>6
  <2>9. \A w \in Writers :
            /\ writer'[w].pc = writer[w].pc /\ writer'[w].id = writer[w].id
            /\ writer'[w].left \subseteq writer[w].left /\ writer[w].left \subseteq writer'[w].left \cup {b}
            /\ b \notin writer'[w].left
    BY <1>2
  <2>10. /\ writer' \in [Writers -> Writer] /\ received' \in [Browsers -> SUBSET Ids]
         /\ dropped' \in [Browsers -> SUBSET Ids] /\ \A c \in Browsers \ {b} : dropped'[c] = dropped[c]
    BY <1>1, <1>2
  <2>11. QED
    BY <1>2, <2>3, <2>4, <2>5, <2>6, <2>7, <2>8, <2>9, <2>10, BrowserStep
<1>5. CASE ~listed
  <2>1. PICK t : t = [r EXCEPT !.pc = "left"]
    OBVIOUS
  <2>2. stream' = [stream EXCEPT ![b] = t]
    BY <1>3, <1>5, <2>1 DEF Get
  <2>3. /\ t \in Stream /\ t.pc = "left" /\ t.from = r.from
        /\ t.history = r.history /\ t.chan = r.chan /\ t.sent = r.sent
    BY <1>1, <1>3, <2>1 DEF Stream
  <2>4. /\ InLine(t.sent) /\ InLine(t.history) /\ InLine(t.chan)
        /\ Before(t.sent, t.chan) /\ Before(t.history, t.chan)
    BY <1>1, <1>3, <2>3 DEF Line
  <2>5. /\ t.history = <<>> /\ t.chan = <<>> /\ Len(t.chan) <= Capacity
    BY <1>1, <1>2, <1>3, <2>3 DEF Shape
  <2>6. /\ t.from <= Len(events)
        /\ \A i \in 1..Len(t.sent) : t.sent[i] <= Len(events)
        /\ \A i \in 1..Len(t.history) : t.history[i] <= Len(events)
        /\ \A i \in 1..Len(t.chan) : t.chan[i] <= Len(events)
    BY <1>1, <1>3, <2>3 DEF IdsExist
  <2>7. \A w \in Writers :
            /\ writer'[w].pc = writer[w].pc /\ writer'[w].id = writer[w].id
            /\ writer'[w].left \subseteq writer[w].left /\ writer[w].left \subseteq writer'[w].left \cup {b}
            /\ b \notin writer'[w].left
    BY <1>2
  <2>8. /\ writer' \in [Writers -> Writer] /\ received' \in [Browsers -> SUBSET Ids]
        /\ dropped' \in [Browsers -> SUBSET Ids] /\ \A c \in Browsers \ {b} : dropped'[c] = dropped[c]
    BY <1>1, <1>2
  <2>9. t \in Stream /\ t.pc \notin {"got", "write"} /\ t.pc \notin {"write", "loop"}
    BY <2>3
  <2>10. UNCHANGED <<status, events, listed, source>>
    BY <1>2
  <2>11. QED
    BY <2>2, <2>4, <2>5, <2>6, <2>7, <2>8, <2>9, <2>10, BrowserStep
<1>6. QED
  BY <1>4, <1>5

\* The history behind an event.
LEMMA MissedEvents ==
    ASSUME IInv, NEW last \in 0..Len(events)
    PROVE  /\ Missed(last) \in Seq(Ids) /\ Range(Missed(last)) = last + 1 .. Len(events)
           /\ \A i \in 1..Len(Missed(last)) : Missed(last)[i] <= Len(events)
           /\ InLine(Missed(last))
<1>1. Len(events) \in 0..MaxEvents /\ MaxEvents \in Nat
  BY TaskEventsAssumption DEF IInv, TypeOK
<1>2. PICK d : d = Len(events) - last
  OBVIOUS
<1>3. d \in Nat
  BY <1>1, <1>2
<1>4. PICK s : s = Missed(last)
  OBVIOUS
<1>5. s = [i \in 1..d |-> last + i]
  BY <1>2, <1>4 DEF Missed
<1>6. \A i \in 1..d : last + i \in Ids /\ last + i <= Len(events) /\ last + i \in last + 1 .. Len(events)
  BY <1>1, <1>2 DEF Ids
<1>7. s \in [1..d -> Ids]
  BY <1>5, <1>6
<1>8. s \in Seq(Ids) /\ Len(s) = d
  BY <1>3, <1>7, SeqDef
<1>9. Range(s) = last + 1 .. Len(events)
  <2>1. ASSUME NEW k \in last + 1 .. Len(events) PROVE k \in Range(s)
    <3>1. k - last \in 1..d /\ last + (k - last) = k
      BY <1>1, <1>2
    <3>2. s[k - last] = k /\ DOMAIN s = 1..d
      BY <1>5, <3>1
    <3>3. QED
      BY <3>1, <3>2 DEF Range
  <2>2. QED
    BY <1>5, <1>6, <2>1 DEF Range
<1>10. \A i \in 1..Len(s) : s[i] <= Len(events)
  BY <1>5, <1>6, <1>8
<1>11. InLine(s)
  <2>1. \A i, j \in 1..d : i < j => last + i < last + j /\ last + i # last + j
    BY <1>1
  <2>2. QED
    BY <1>5, <1>8, <2>1 DEF InLine, Precedes
<1>12. QED
  BY <1>4, <1>8, <1>9, <1>10, <1>11

\* A connection that ends takes its channel out of what goroutines still offer.
LEMMA UnsubscribeStep ==
    ASSUME IInv, NEW b \in Browsers, Unsubscribe(b)
    PROVE  /\ writer' \in [Writers -> Writer]
           /\ \A w \in Writers :
                 /\ writer'[w].pc = writer[w].pc /\ writer'[w].id = writer[w].id
                 /\ writer'[w].left \subseteq writer[w].left /\ writer[w].left \subseteq writer'[w].left \cup {b}
                 /\ b \notin writer'[w].left
<1>1. writer \in [Writers -> Writer]
  BY DEF IInv, TypeOK
<1>2. ASSUME NEW w \in Writers
      PROVE  /\ writer'[w] \in Writer /\ writer'[w].left = writer[w].left \ {b}
             /\ writer'[w].pc = writer[w].pc /\ writer'[w].id = writer[w].id
  <2>1. writer'[w] = [writer[w] EXCEPT !.left = @ \ {b}]
    BY DEF Unsubscribe
  <2>2. QED
    BY <1>1, <2>1 DEF Writer
<1>3. writer' \in [Writers -> Writer]
  BY <1>2 DEF Unsubscribe
<1>4. QED
  BY <1>2, <1>3

\* A connection that is closed, and keeps what it has written.
LEMMA CloseStep ==
    ASSUME IInv, NEW b \in Browsers, NEW t \in Stream, t.pc \in {"closed", "left"},
           stream' = [stream EXCEPT ![b] = t], UNCHANGED <<status, events, listed, source>>,
           received' \in [Browsers -> SUBSET Ids], dropped' \in [Browsers -> SUBSET Ids],
           \A c \in Browsers \ {b} : dropped'[c] = dropped[c],
           writer' \in [Writers -> Writer],
           \A w \in Writers :
               /\ writer'[w].pc = writer[w].pc /\ writer'[w].id = writer[w].id
               /\ writer'[w].left \subseteq writer[w].left /\ writer[w].left \subseteq writer'[w].left \cup {b}
               /\ b \notin writer'[w].left,
           t.from <= Len(events), InLine(t.sent),
           \A i \in 1..Len(t.sent) : t.sent[i] <= Len(events),
           t.history = <<>>, t.chan = <<>>
    PROVE  IInv'
<1>1. t.sent \in Seq(Ids)
  BY DEF Stream
<1>2. /\ InLine(t.history) /\ InLine(t.chan) /\ Before(t.sent, t.chan) /\ Before(t.history, t.chan)
      /\ Len(t.history) = 0 /\ Len(t.chan) = 0
  BY <1>1, EmptyLine
<1>3. /\ \A i \in 1..Len(t.history) : t.history[i] <= Len(events)
      /\ \A i \in 1..Len(t.chan) : t.chan[i] <= Len(events)
      /\ Len(t.chan) <= Capacity
  BY <1>2, TaskEventsAssumption
<1>4. t.pc \notin {"got", "write"} /\ t.pc \notin {"write", "loop"}
  OBVIOUS
<1>5. QED
  BY <1>2, <1>3, <1>4, BrowserStep

\* The connection of the request for a task that is gone, or one that breaks.
LEMMA DisconnectStep ==
    ASSUME IInv, NEW b \in Browsers, Disconnect(b)
    PROVE  IInv'
<1>1. /\ IdsExist(b) /\ Line(b) /\ stream[b] \in Stream /\ dropped \in [Browsers -> SUBSET Ids]
      /\ received \in [Browsers -> SUBSET Ids]
  BY Connection
<1>2. PICK pc \in {"closed", "left"} :
         stream' = [stream EXCEPT ![b] = [@ EXCEPT !.pc = pc, !.history = <<>>, !.chan = <<>>]]
  BY DEF Disconnect
<1>3. PICK t : t = [stream[b] EXCEPT !.pc = pc, !.history = <<>>, !.chan = <<>>]
  OBVIOUS
<1>4. stream' = [stream EXCEPT ![b] = t]
  BY <1>2, <1>3
<1>5. t \in Stream /\ t.pc = pc /\ t.from = stream[b].from /\ t.sent = stream[b].sent /\ t.history = <<>> /\ t.chan = <<>>
  BY <1>1, <1>3, EmptyLine DEF Stream
<1>6. /\ t.from <= Len(events) /\ InLine(t.sent)
      /\ \A i \in 1..Len(t.sent) : t.sent[i] <= Len(events)
  BY <1>1, <1>5 DEF IdsExist, Line
<1>7. Unsubscribe(b) /\ UNCHANGED <<status, events, listed, received, dropped, source>>
  BY DEF Disconnect
<1>8. QED
  BY <1>1, <1>4, <1>5, <1>6, <1>7, UnsubscribeStep, CloseStep

\* Subscribe registers the channel and takes the history in one critical section: they fit together.
LEMMA SubscribeStep ==
    ASSUME IInv, NEW b \in Browsers, Subscribe(b)
    PROVE  IInv'
<1>1. /\ IdsExist(b) /\ Shape(b) /\ Line(b) /\ stream[b] \in Stream /\ dropped \in [Browsers -> SUBSET Ids]
      /\ received \in [Browsers -> SUBSET Ids] /\ writer \in [Writers -> Writer] /\ Len(events) \in Nat
      /\ b \notin Subscribed => \A w \in Writers : b \notin writer[w].left
  BY Connection
<1>2. /\ stream[b].pc = "got" /\ \A w \in Writers : b \notin writer[w].left
      /\ dropped' = [dropped EXCEPT ![b] = {}]
      /\ UNCHANGED <<status, events, listed, writer, received, source>>
  BY <1>1 DEF Subscribe, Subscribed
<1>3. PICK r : r = stream[b]
  OBVIOUS
<1>4. /\ writer' \in [Writers -> Writer] /\ received' \in [Browsers -> SUBSET Ids]
      /\ dropped' \in [Browsers -> SUBSET Ids] /\ \A c \in Browsers \ {b} : dropped'[c] = dropped[c]
      /\ \A w \in Writers :
            /\ writer'[w].pc = writer[w].pc /\ writer'[w].id = writer[w].id
            /\ writer'[w].left \subseteq writer[w].left /\ writer[w].left \subseteq writer'[w].left \cup {b}
            /\ b \notin writer'[w].left
  BY <1>1, <1>2
<1>5. r.sent = <<>> /\ r.history = <<>> /\ r.chan = <<>> /\ r.from \in 0..Len(events) /\ r \in Stream
  BY <1>1, <1>2, <1>3 DEF Shape, IdsExist, Stream
<1>6. CASE listed
  <2>1. PICK t : t = [r EXCEPT !.pc = "write", !.history = Missed(r.from)]
    OBVIOUS
  <2>2. stream' = [stream EXCEPT ![b] = t]
    BY <1>3, <1>6, <2>1 DEF Subscribe
  <2>3. PICK s : s = Missed(r.from)
    OBVIOUS
  <2>4. /\ s \in Seq(Ids) /\ Range(s) = r.from + 1 .. Len(events) /\ InLine(s)
        /\ \A i \in 1..Len(s) : s[i] <= Len(events)
    BY <1>5, <2>3, MissedEvents
  <2>5. /\ t \in Stream /\ t.pc = "write" /\ t.from = r.from
        /\ t.sent = <<>> /\ t.chan = <<>> /\ t.history = s
    BY <1>5, <2>1, <2>3, <2>4 DEF Stream
  <2>6. /\ InLine(t.sent) /\ InLine(t.history) /\ InLine(t.chan)
        /\ Before(t.sent, t.chan) /\ Before(t.history, t.chan)
        /\ Len(t.sent) = 0 /\ Len(t.chan) = 0
    BY <2>4, <2>5, EmptyLine
  <2>7. /\ t.from <= Len(events) /\ Len(t.chan) <= Capacity
        /\ \A i \in 1..Len(t.sent) : t.sent[i] <= Len(events)
        /\ \A i \in 1..Len(t.history) : t.history[i] <= Len(events)
        /\ \A i \in 1..Len(t.chan) : t.chan[i] <= Len(events)
    BY <1>1, <1>5, <2>4, <2>5, <2>6, TaskEventsAssumption
  <2>8. \A k \in t.from + 1 .. Len(events) : k \in Range(t.history)
    BY <2>4, <2>5
  <2>9. UNCHANGED <<status, events, listed, source>>
    BY <1>2
  <2>10. QED
    BY <1>4, <2>2, <2>5, <2>6, <2>7, <2>8, <2>9, BrowserStep
<1>7. CASE ~listed
  <2>1. PICK t : t = [r EXCEPT !.pc = "left"]
    OBVIOUS
  <2>2. stream' = [stream EXCEPT ![b] = t]
    BY <1>3, <1>7, <2>1 DEF Subscribe
  <2>3. /\ t \in Stream /\ t.pc = "left" /\ t.from = r.from
        /\ t.history = <<>> /\ t.chan = <<>> /\ t.sent = <<>>
    BY <1>5, <2>1 DEF Stream
  <2>4. InLine(t.sent) /\ Len(t.sent) = 0 /\ t.from <= Len(events)
    BY <1>1, <1>5, <2>3, EmptyLine
  <2>5. \A i \in 1..Len(t.sent) : t.sent[i] <= Len(events)
    BY <2>4
  <2>6. UNCHANGED <<status, events, listed, source>>
    BY <1>2
  <2>7. QED
    BY <1>4, <2>2, <2>3, <2>4, <2>5, <2>6, CloseStep
<1>8. QED
  BY <1>6, <1>7

\* The history becomes what the connection wrote.
LEMMA WriteHistoryStep ==
    ASSUME IInv, NEW b \in Browsers, WriteHistory(b)
    PROVE  IInv'
<1>1. /\ IdsExist(b) /\ Shape(b) /\ Line(b) /\ NoGap(b) /\ stream[b] \in Stream /\ dropped \in [Browsers -> SUBSET Ids]
      /\ Len(stream[b].chan) <= Capacity
      /\ received \in [Browsers -> SUBSET Ids] /\ writer \in [Writers -> Writer] /\ Len(events) \in Nat
      /\ stream[b].history \in Seq(Ids) /\ stream[b].chan \in Seq(Ids)
  BY Connection
<1>2. PICK r : r = stream[b]
  OBVIOUS
<1>3. /\ r.pc = "write" /\ r.sent = <<>> /\ r \in Stream /\ b \in Subscribed
      /\ received' = [received EXCEPT ![b] = @ \cup Range(r.history)]
      /\ UNCHANGED <<status, events, listed, dropped, source>>
  BY <1>1, <1>2 DEF WriteHistory, Shape, Subscribed
<1>4. /\ received' \in [Browsers -> SUBSET Ids] /\ dropped' \in [Browsers -> SUBSET Ids]
      /\ \A c \in Browsers \ {b} : dropped'[c] = dropped[c]
  <2>1. Range(r.history) \subseteq Ids
    BY <1>1, <1>2 DEF Range
  <2>2. QED
    BY <1>1, <1>3, <2>1
<1>5. r.sent \o r.history = r.history
  BY <1>1, <1>2, <1>3, ConcatEmptySeq
<1>6. PICK h : h = [r EXCEPT !.sent = @ \o r.history, !.history = <<>>]
  OBVIOUS
<1>7. h = [r EXCEPT !.sent = r.history, !.history = <<>>]
  BY <1>5, <1>6
<1>8. CASE r.ended
  <2>1. PICK t : t = [h EXCEPT !.pc = "closed", !.chan = <<>>]
    OBVIOUS
  <2>2. stream' = [stream EXCEPT ![b] = t] /\ Unsubscribe(b)
    BY <1>2, <1>6, <1>8, <2>1 DEF WriteHistory
  <2>3. /\ t \in Stream /\ t.pc = "closed" /\ t.from = r.from /\ t.sent = r.history
        /\ t.history = <<>> /\ t.chan = <<>>
    BY <1>3, <1>7, <2>1, EmptyLine DEF Stream
  <2>4. /\ t.from <= Len(events) /\ InLine(t.sent)
        /\ \A i \in 1..Len(t.sent) : t.sent[i] <= Len(events)
    BY <1>1, <1>2, <2>3 DEF IdsExist, Line
  <2>5. UNCHANGED <<status, events, listed, source>>
    BY <1>3
  <2>6. QED
    BY <1>4, <2>2, <2>3, <2>4, <2>5, UnsubscribeStep, CloseStep
<1>9. CASE ~r.ended
  <2>1. PICK t : t = [h EXCEPT !.pc = "loop"]
    OBVIOUS
  <2>2. stream' = [stream EXCEPT ![b] = t] /\ writer' = writer
    BY <1>2, <1>6, <1>9, <2>1 DEF WriteHistory
  <2>3. /\ t \in Stream /\ t.pc = "loop" /\ t.from = r.from /\ t.sent = r.history
        /\ t.history = <<>> /\ t.chan = r.chan
    BY <1>3, <1>7, <2>1, EmptyLine DEF Stream
  <2>4. /\ InLine(t.sent) /\ InLine(t.history) /\ InLine(t.chan)
        /\ Before(t.sent, t.chan) /\ Before(t.history, t.chan) /\ Len(t.history) = 0
    BY <1>1, <1>2, <2>3, EmptyLine DEF Line
  <2>5. /\ t.from <= Len(events) /\ Len(t.chan) <= Capacity
        /\ \A i \in 1..Len(t.sent) : t.sent[i] <= Len(events)
        /\ \A i \in 1..Len(t.history) : t.history[i] <= Len(events)
        /\ \A i \in 1..Len(t.chan) : t.chan[i] <= Len(events)
    BY <1>1, <1>2, <2>3, <2>4 DEF IdsExist
  <2>6. \A w \in Writers : b \in writer'[w].left =>
            /\ BeforeEvent(t.sent, writer[w].id)
            /\ BeforeEvent(t.history, writer[w].id)
            /\ BeforeEvent(t.chan, writer[w].id)
    BY <1>1, <1>2, <2>2, <2>3, EmptyLine DEF Line
  <2>7. \A k \in t.from + 1 .. Len(events) :
            \/ k \in Range(t.sent) \/ k \in Range(t.history) \/ k \in Range(t.chan) \/ k \in dropped'[b]
            \/ \E w \in Writers : b \in writer'[w].left /\ writer[w].id = k
    BY <1>1, <1>2, <1>3, <2>2, <2>3, EmptyLine DEF NoGap, Reaches
  <2>8. /\ writer' \in [Writers -> Writer]
        /\ \A w \in Writers :
              /\ writer'[w].pc = writer[w].pc /\ writer'[w].id = writer[w].id
              /\ writer'[w].left \subseteq writer[w].left /\ writer[w].left \subseteq writer'[w].left \cup {b}
              /\ b \in writer'[w].left => t.pc \in {"write", "loop"}
    BY <1>1, <2>2, <2>3
  <2>9. /\ UNCHANGED <<status, events, listed, source>>
        /\ t.pc \in {"got", "write"} => t.sent = <<>>
        /\ t.pc # "write" => t.history = <<>>
        /\ t.pc \notin {"write", "loop"} => t.chan = <<>>
    BY <1>3, <2>3
  <2>10. QED
    BY <1>4, <2>2, <2>3, <2>4, <2>5, <2>6, <2>7, <2>8, <2>9, BrowserStep
<1>10. QED
  BY <1>8, <1>9

\* The first event of the channel becomes the last one written.
LEMMA DeliverStep ==
    ASSUME IInv, NEW b \in Browsers, Deliver(b)
    PROVE  IInv'
<1>1. /\ IdsExist(b) /\ Shape(b) /\ Line(b) /\ NoGap(b) /\ stream[b] \in Stream /\ dropped \in [Browsers -> SUBSET Ids]
      /\ Len(stream[b].chan) <= Capacity
      /\ received \in [Browsers -> SUBSET Ids] /\ writer \in [Writers -> Writer] /\ Len(events) \in Nat
      /\ stream[b].sent \in Seq(Ids) /\ stream[b].chan \in Seq(Ids)
  BY Connection
<1>2. PICK r : r = stream[b]
  OBVIOUS
<1>3. PICK id : id = Head(r.chan)
  OBVIOUS
<1>4. /\ r.pc = "loop" /\ r.chan # <<>> /\ r.history = <<>> /\ r \in Stream /\ b \in Subscribed
      /\ received' = [received EXCEPT ![b] = @ \cup {id}]
      /\ UNCHANGED <<status, events, listed, dropped, source>>
  BY <1>1, <1>2, <1>3 DEF Deliver, Shape, Subscribed
<1>5. /\ id \in Ids /\ Tail(r.chan) \in Seq(Ids) /\ Range(r.chan) = Range(Tail(r.chan)) \cup {id}
      /\ InLine(Tail(r.chan)) /\ \A j \in 1..Len(Tail(r.chan)) : Precedes(id, Tail(r.chan)[j])
      /\ Before(r.sent, Tail(r.chan)) /\ BeforeEvent(r.sent, id)
      /\ \A k : BeforeEvent(r.chan, k) => BeforeEvent(Tail(r.chan), k) /\ Precedes(id, k)
  BY <1>1, <1>2, <1>3, <1>4, TakeFromLine DEF Line
<1>6. PICK s : s = Append(r.sent, id)
  OBVIOUS
<1>7. PICK u : u = Tail(r.chan)
  OBVIOUS
<1>8. /\ s \in Seq(Ids) /\ Range(s) = Range(r.sent) \cup {id} /\ InLine(s) /\ Before(s, u)
      /\ \A k : BeforeEvent(r.sent, k) /\ Precedes(id, k) => BeforeEvent(s, k)
  BY <1>1, <1>2, <1>5, <1>6, <1>7, AppendToLine DEF Line
<1>9. /\ received' \in [Browsers -> SUBSET Ids] /\ dropped' \in [Browsers -> SUBSET Ids]
      /\ \A c \in Browsers \ {b} : dropped'[c] = dropped[c]
  BY <1>1, <1>4, <1>5
<1>10. id <= Len(events) /\ \A i \in 1..Len(u) : u[i] <= Len(events)
  <2>1. /\ Len(r.chan) \in Nat \ {0} /\ id = r.chan[1] /\ Len(u) = Len(r.chan) - 1
        /\ \A i \in 1..Len(u) : u[i] = r.chan[i + 1]
    BY <1>1, <1>2, <1>3, <1>4, <1>7
  <2>2. 1 \in 1..Len(r.chan) /\ \A i \in 1..Len(u) : i + 1 \in 1..Len(r.chan)
    BY <2>1
  <2>3. QED
    BY <1>1, <1>2, <2>1, <2>2 DEF IdsExist
<1>11. \A i \in 1..Len(s) : s[i] <= Len(events)
  <2>1. ASSUME NEW i \in 1..Len(s) PROVE s[i] <= Len(events)
    <3>1. (i \in 1..Len(r.sent) /\ s[i] = r.sent[i]) \/ s[i] = id
      BY <1>1, <1>2, <1>6
    <3>2. QED
      BY <1>1, <1>2, <1>10, <3>1 DEF IdsExist
  <2>2. QED
    BY <2>1
<1>12. PICK d : d = [r EXCEPT !.sent = s, !.chan = u]
  OBVIOUS
<1>13. d = [r EXCEPT !.sent = Append(@, id), !.chan = Tail(@)]
  BY <1>6, <1>7, <1>12
<1>14. CASE events[id] = "end"
  <2>1. PICK t : t = [d EXCEPT !.pc = "closed", !.chan = <<>>]
    OBVIOUS
  <2>2. stream' = [stream EXCEPT ![b] = t] /\ Unsubscribe(b)
    BY <1>2, <1>3, <1>13, <1>14, <2>1 DEF Deliver
  <2>3. /\ t \in Stream /\ t.pc = "closed" /\ t.from = r.from /\ t.sent = s
        /\ t.history = <<>> /\ t.chan = <<>>
    BY <1>4, <1>8, <1>12, <2>1, EmptyLine DEF Stream
  <2>4. t.from <= Len(events)
    BY <1>1, <1>2, <2>3 DEF IdsExist
  <2>5. UNCHANGED <<status, events, listed, source>>
    BY <1>4
  <2>6. InLine(t.sent) /\ \A i \in 1..Len(t.sent) : t.sent[i] <= Len(events)
    BY <1>8, <1>11, <2>3
  <2>7. QED
    BY <1>9, <2>2, <2>3, <2>4, <2>5, <2>6, UnsubscribeStep, CloseStep
<1>15. CASE events[id] # "end"
  <2>1. stream' = [stream EXCEPT ![b] = d] /\ writer' = writer
    BY <1>2, <1>3, <1>13, <1>15 DEF Deliver
  <2>2. /\ d \in Stream /\ d.pc = "loop" /\ d.from = r.from /\ d.sent = s
        /\ d.history = <<>> /\ d.chan = u
    BY <1>4, <1>5, <1>7, <1>8, <1>12 DEF Stream
  <2>3. /\ InLine(d.sent) /\ InLine(d.history) /\ InLine(d.chan)
        /\ Before(d.sent, d.chan) /\ Before(d.history, d.chan) /\ Len(d.history) = 0
    BY <1>5, <1>7, <1>8, <2>2, EmptyLine
  <2>4. /\ d.from <= Len(events)
        /\ \A i \in 1..Len(d.sent) : d.sent[i] <= Len(events)
        /\ \A i \in 1..Len(d.history) : d.history[i] <= Len(events)
        /\ \A i \in 1..Len(d.chan) : d.chan[i] <= Len(events)
    BY <1>1, <1>2, <1>10, <1>11, <2>2, <2>3 DEF IdsExist
  <2>5. Len(d.chan) <= Capacity
    <3>1. Len(u) = Len(r.chan) - 1 /\ Len(r.chan) \in Nat /\ Len(r.chan) <= Capacity
      BY <1>1, <1>2, <1>4, <1>7
    <3>2. QED
      BY <2>2, <3>1, TaskEventsAssumption
  <2>6. \A w \in Writers : b \in writer'[w].left =>
            /\ BeforeEvent(d.sent, writer[w].id)
            /\ BeforeEvent(d.history, writer[w].id)
            /\ BeforeEvent(d.chan, writer[w].id)
    BY <1>1, <1>2, <1>5, <1>7, <1>8, <2>1, <2>2, EmptyLine DEF Line
  <2>7. \A k \in d.from + 1 .. Len(events) :
            \/ k \in Range(d.sent) \/ k \in Range(d.history) \/ k \in Range(d.chan) \/ k \in dropped'[b]
            \/ \E w \in Writers : b \in writer'[w].left /\ writer[w].id = k
    <3>1. \A k \in r.from + 1 .. Len(events) :
            \/ k \in Range(r.sent) \/ k \in Range(r.chan) \/ k \in dropped[b]
            \/ \E w \in Writers : b \in writer[w].left /\ writer[w].id = k
      BY <1>1, <1>2, <1>4, EmptyLine DEF NoGap, Reaches
    <3>2. QED
      BY <1>4, <1>5, <1>7, <1>8, <2>1, <2>2, <3>1
  <2>8. /\ writer' \in [Writers -> Writer]
        /\ \A w \in Writers :
              /\ writer'[w].pc = writer[w].pc /\ writer'[w].id = writer[w].id
              /\ writer'[w].left \subseteq writer[w].left /\ writer[w].left \subseteq writer'[w].left \cup {b}
              /\ b \in writer'[w].left => d.pc \in {"write", "loop"}
    BY <1>1, <2>1, <2>2
  <2>9. /\ UNCHANGED <<status, events, listed, source>>
        /\ d.pc \in {"got", "write"} => d.sent = <<>>
        /\ d.pc # "write" => d.history = <<>>
        /\ d.pc \notin {"write", "loop"} => d.chan = <<>>
    BY <1>4, <2>2
  <2>10. QED
    BY <1>9, <2>1, <2>2, <2>3, <2>4, <2>5, <2>6, <2>7, <2>8, <2>9, BrowserStep
<1>16. QED
  BY <1>14, <1>15

\* A step of goroutines or of the task that leaves the events and the connections alone.
LEMMA QuietStep ==
    ASSUME IInv, UNCHANGED <<events, stream, received, dropped, source>>,
           status' \in {"active", "ended"}, listed' \in BOOLEAN, writer' \in [Writers -> Writer],
           \A w \in Writers : \/ writer'[w] = writer[w]
                              \/ writer'[w].pc # "send" /\ writer'[w].left = {} /\ writer[w].left = {}
    PROVE  IInv'
<1>1. TypeOK' /\ Len(source)' = Len(events)'
  BY DEF IInv, TypeOK
<1>2. WriterInv'
  <2>1. SUFFICES ASSUME NEW w \in Writers
                 PROVE  /\ writer'[w].pc # "send" => writer'[w].left = {}
                        /\ writer'[w].left \subseteq Subscribed
                        /\ writer'[w].pc = "send" =>
                              /\ writer'[w].id \in 1..Len(events) /\ source[writer'[w].id] = w
                              /\ \A k \in 1..Len(events) : source[k] = w => k <= writer'[w].id
    BY DEF WriterInv, Subscribed
  <2>2. CASE writer'[w] = writer[w]
    BY <2>2 DEF IInv, WriterInv
  <2>3. CASE writer'[w].pc # "send" /\ writer'[w].left = {}
    BY <2>3
  <2>4. QED
    BY <2>2, <2>3
<1>3. ASSUME NEW c \in Browsers PROVE IdsExist(c)' /\ Shape(c)' /\ Line(c)' /\ NoGap(c)'
  <2>1. \A w \in Writers : /\ c \in writer'[w].left <=> c \in writer[w].left
                           /\ c \in writer[w].left => writer'[w].id = writer[w].id
    OBVIOUS
  <2>2. QED
    BY <2>1, OtherBrowser
<1>4. QED
  BY <1>1, <1>2, <1>3 DEF IInv, StreamInv

-----------------------------------------------------------------------------
(* The inductive invariant *)

LEMMA InitHolds == Init => IInv
<1> SUFFICES ASSUME Init PROVE IInv
  OBVIOUS
<1> USE DEF Init
<1>1. /\ \A w \in Writers : writer[w] = Quiet
      /\ \A b \in Browsers : stream[b] = Closed
      /\ Len(events) = 0 /\ Len(source) = 0
  OBVIOUS
<1>2. Quiet \in Writer /\ Quiet.pc = "idle" /\ Quiet.left = {}
  BY DEF Quiet, Writer
<1>3. /\ Closed \in Stream /\ Closed.pc = "closed" /\ Closed.from = 0 /\ Len(Closed.chan) = 0
      /\ Closed.history = <<>> /\ Closed.chan = <<>> /\ Closed.sent = <<>>
  BY TaskEventsAssumption, EmptyLine DEF Closed, Stream
<1>4. TypeOK
  BY <1>1, <1>2, <1>3, TaskEventsAssumption DEF TypeOK
<1>5. WriterInv
  BY <1>1, <1>2 DEF WriterInv
<1>6. ASSUME NEW b \in Browsers PROVE IdsExist(b) /\ Shape(b) /\ Line(b) /\ NoGap(b)
  <2>1. PICK r : r = stream[b] /\ r = Closed
    BY <1>1
  <2>2. IdsExist(b) /\ Shape(b)
    BY <1>1, <1>3, <2>1 DEF IdsExist, Shape
  <2>3. Line(b)
    BY <1>1, <1>2, <1>3, <2>1, EmptyLine DEF Line
  <2>4. NoGap(b)
    BY <1>3, <2>1 DEF NoGap, Subscribed
  <2>5. QED
    BY <2>2, <2>3, <2>4
<1>7. QED
  BY <1>1, <1>4, <1>5, <1>6 DEF IInv, StreamInv

LEMMA StepHolds == IInv /\ [Next]_vars => IInv'
<1> SUFFICES ASSUME IInv, [Next]_vars PROVE IInv'
  OBVIOUS
<1>1. /\ writer \in [Writers -> Writer] /\ Len(events) \in Nat /\ MaxEvents \in Nat
      /\ status \in {"active", "ended"} /\ listed \in BOOLEAN
      /\ \A w \in Writers : writer[w].pc # "send" => writer[w].left = {}
  BY Types DEF IInv, TypeOK, WriterInv
<1>2. ASSUME NEW w \in Writers, Progress(w) PROVE IInv'
  <2>1. Len(events) < MaxEvents
    BY <1>1, <1>2 DEF Progress
  <2>2. QED
    BY <1>2, <2>1, EmitStep DEF Progress
<1>3. ASSUME NEW w \in Writers, EmitEnd(w) PROVE IInv'
  BY <1>3, EmitStep DEF EmitEnd
<1>4. ASSUME NEW w \in Writers, End(w) PROVE IInv'
  <2>1. /\ writer[w].pc = "idle" /\ status' = "ended"
        /\ writer' = [writer EXCEPT ![w].pc = "ended"]
        /\ UNCHANGED <<events, listed, stream, received, dropped, source>>
    BY <1>4 DEF End
  <2>2. /\ writer' \in [Writers -> Writer] /\ writer'[w].pc = "ended" /\ writer'[w].left = {} /\ writer[w].left = {}
        /\ \A v \in Writers \ {w} : writer'[v] = writer[v]
    BY <1>1, <2>1 DEF Writer
  <2>3. QED
    BY <1>1, <2>1, <2>2, QuietStep
<1>5. ASSUME NEW w \in Writers, Sent(w) PROVE IInv'
  <2>1. /\ writer[w].left = {} /\ writer' = [writer EXCEPT ![w] = Quiet]
        /\ UNCHANGED <<status, events, listed, stream, received, dropped, source>>
    BY <1>5 DEF Sent
  <2>2. Quiet \in Writer /\ Quiet.pc = "idle" /\ Quiet.left = {}
    BY DEF Quiet, Writer
  <2>3. /\ writer' \in [Writers -> Writer] /\ writer'[w] = Quiet
        /\ \A v \in Writers \ {w} : writer'[v] = writer[v]
    BY <1>1, <2>1, <2>2
  <2>4. QED
    BY <1>1, <2>1, <2>2, <2>3, QuietStep
<1>6. ASSUME NEW w \in Writers, NEW b \in Browsers, Send(w, b) PROVE IInv'
  BY <1>6, SendStep
<1>7. ASSUME NEW b \in Browsers, Get(b) \/ Serve(b) \/ Disconnect(b) PROVE IInv'
  BY <1>7, GetStep, SubscribeStep, WriteHistoryStep, DeliverStep, DisconnectStep DEF Serve
<1>8. ASSUME Revive PROVE IInv'
  BY <1>1, <1>8, QuietStep DEF Revive
<1>9. ASSUME Reap PROVE IInv'
  BY <1>1, <1>9, QuietStep DEF Reap
<1>10. ASSUME Forgotten \/ UNCHANGED vars PROVE IInv'
  BY <1>1, <1>10, QuietStep DEF Forgotten, vars
<1>11. QED
  BY <1>2, <1>3, <1>4, <1>5, <1>6, <1>7, <1>8, <1>9, <1>10 DEF Next, Write

\* Everything the theorems below say of the states of an event stream.
THEOREM TaskEventsInductive == Spec => []IInv
BY InitHolds, StepHolds, PTL DEF Spec

\* Every state of the event stream has its type; no channel holds more than its capacity.
THEOREM TaskEventsTypeCorrect == Spec => []TypeOK
<1>1. IInv => TypeOK
  BY DEF IInv
<1>2. QED
  BY <1>1, TaskEventsInductive, PTL

\* A connection carries each event behind the one it asked for, once: the history Subscribe
\* returns and the channel it registers in the same critical section neither overlap nor leave
\* a gap, whatever emits are between the lock and the channels.
THEOREM EventsReachConnections == Spec => []EachEventOnce
<1>1. ASSUME IInv PROVE EachEventOnce
  <2>1. ASSUME NEW b \in Browsers PROVE IsInjective(stream[b].sent)
    <3>1. stream[b].sent \in Seq(Ids) /\ InLine(stream[b].sent)
      BY <1>1, Connection DEF Line
    <3>2. DOMAIN stream[b].sent = 1..Len(stream[b].sent) /\ Len(stream[b].sent) \in Nat
      BY <3>1
    <3>3. \A i, j \in 1..Len(stream[b].sent) : i < j => stream[b].sent[i] # stream[b].sent[j]
      BY <3>1 DEF InLine, Precedes
    <3>4. \A i, j \in 1..Len(stream[b].sent) : i = j \/ i < j \/ j < i
      BY <3>2
    <3>5. QED
      BY <3>2, <3>3, <3>4 DEF IsInjective
  <2>2. ASSUME NEW b \in Subscribed, NEW k \in stream[b].from + 1 .. Len(events)
        PROVE  k \in Range(stream[b].sent) \cup OnTheWay(b) \cup dropped[b]
    <3>1. b \in Browsers
      BY DEF Subscribed
    <3>2. Reaches(k, b)
      BY <1>1, <2>2, <3>1, Connection DEF NoGap
    <3>3. QED
      BY <3>2 DEF Reaches, OnTheWay
  <2>3. QED
    BY <2>1, <2>2 DEF EachEventOnce
<1>2. QED
  BY <1>1, TaskEventsInductive, PTL

\* What one goroutine emits arrives in the order in which it emitted it, although emit sends
\* outside the lock and goroutines overtake each other.
THEOREM EventsKeepOrder == Spec => []OrderPerWriter
<1>1. ASSUME IInv PROVE OrderPerWriter
  <2>1. SUFFICES ASSUME NEW b \in Browsers, NEW i \in DOMAIN stream[b].sent, NEW j \in DOMAIN stream[b].sent,
                        i < j, source[stream[b].sent[i]] = source[stream[b].sent[j]]
                 PROVE  stream[b].sent[i] <= stream[b].sent[j]
    BY DEF OrderPerWriter
  <2>2. stream[b].sent \in Seq(Ids) /\ InLine(stream[b].sent)
    BY <1>1, Connection DEF Line
  <2>3. i \in 1..Len(stream[b].sent) /\ j \in 1..Len(stream[b].sent)
    BY <2>2
  <2>4. stream[b].sent[i] < stream[b].sent[j]
    BY <2>1, <2>2, <2>3 DEF InLine, Precedes
  <2>5. stream[b].sent[i] \in Ids /\ stream[b].sent[j] \in Ids
    BY <2>2, <2>3
  <2>6. QED
    BY <2>4, <2>5 DEF Ids
<1>2. QED
  BY <1>1, TaskEventsInductive, PTL
=============================================================================
