----------------------------- MODULE ChatLogic ------------------------------
(***************************************************************************)
(* Pure functions of the code analysis page (src/code-logic.js): the       *)
(* question that is sent with the history of the conversation, the list of *)
(* traces, what is restored from sessionStorage, the JSON-RPC messages of  *)
(* the MCP server, and the report of an inspection.  Texts are lengths.    *)
(***************************************************************************)
EXTENDS Integers, Sequences, FiniteSets, SequencesExt, Lists

\* slice(-n)
Newest(s, n) == SubSeq(s, IF Len(s) > n THEN Len(s) - n + 1 ELSE 1, Len(s))

-----------------------------------------------------------------------------
(* buildConversationQuestion *)

MaxLength == 16000

\* Lengths of the fixed texts: prefix, suffix before the question, labels, the
\* note that a text was cut.
PrefixLength == 63
SuffixLength == 8
CutLength == 8

LabelLength(turn) == IF turn.role = "user" THEN 2 ELSE 4

RoleLimit(turn) == IF turn.role = "user" THEN 3000 ELSE 6000

Smaller(a, b) == IF a < b THEN a ELSE b

\* clipped: the limit does not count the note.
Clipped(length, limit) == IF length <= limit THEN length ELSE limit + CutLength

\* The loop goes from the newest turn to the oldest.
TurnOrder(n) == [k \in 1..n |-> n + 1 - k]

\* A turn is put in front of those selected before, as long as there is room; "used"
\* counts the label, a colon and the blank line between turns.
Take(history, budget, state, i) ==
    LET remaining == budget - state.used - LabelLength(history[i]) - 4
        content == Clipped(history[i].length, Smaller(remaining, RoleLimit(history[i])))
    IN IF state.over \/ remaining <= 0
       THEN [state EXCEPT !.over = TRUE]
       ELSE [state EXCEPT !.used = @ + content + LabelLength(history[i]) + 3,
                          !.selected = <<[turn |-> i, text |-> LabelLength(history[i]) + 1 + content]>> \o @]

Selection(history, budget) ==
    FoldLeft(LAMBDA state, i : Take(history, budget, state, i),
             [used |-> 0, over |-> FALSE, selected |-> <<>>], TurnOrder(Len(history))).selected

\* The texts with a blank line behind each.
TextSum(selected) == FoldLeft(LAMBDA sum, t : sum + t.text + 2, 0, selected)

\* The joined texts, with a blank line between two of them.
TextLength(selected) == TextSum(selected) - (IF selected = <<>> THEN 0 ELSE 2)

\* Mistake: the history is not cut again after it was put together.
BoundedUnchecked(length, budget) == length

\* slice(-budget)
Bounded(length, budget) == Smaller(length, budget)

\* Turns that were cancelled or failed are blank and not sent.
History(turns) == Newest(Kept(turns, {t \in ToSet(turns) : t.length > 0}), 6)

BuildConversationQuestion(turns, current) ==
    LET history == History(turns)
        budget == IF MaxLength > PrefixLength + SuffixLength + current
                  THEN MaxLength - PrefixLength - SuffixLength - current ELSE 0
        selected == Selection(history, budget)
    IN IF history = <<>>
       THEN [selected |-> <<>>, history |-> 0, length |-> Smaller(current, MaxLength)]
       ELSE [selected |-> selected,
             history |-> Bounded(TextLength(selected), budget),
             length |-> PrefixLength + Bounded(TextLength(selected), budget) + SuffixLength + current]

-----------------------------------------------------------------------------
(* appendTrace, restoreConversation *)

OnceOnly == {"protocol", "catalog"}

AppendTrace(current, trace, maxItems) ==
    LET same(t) == t.type = trace.type /\ t.detail = trace.detail
        known == \E i \in DOMAIN current : same(current[i])
        repeated == current # <<>> /\ same(current[Len(current)])
    IN IF (trace.type \in OnceOnly /\ known) \/ repeated
       THEN current
       ELSE Newest(Append(current, trace), maxItems)

AppendedTraces(traces, maxItems) ==
    FoldLeft(LAMBDA items, t : AppendTrace(items, t, maxItems), <<>>, traces)

RestoredTraces(traces, maxItems) == AppendedTraces(Newest(traces, maxItems), maxItems)

-----------------------------------------------------------------------------
(* parseMCPEnvelope, toolText, requireMCPTools *)

\* Events of a response: each is one JSON document, a list of messages, or is
\* not JSON.  A message carries an error, a result, or a result with isError.
Outcomes == {"error", "isError", "blank", "text"}

Messages == [id : {"own", "other"}, outcome : Outcomes]

NoMessage == [id |-> "none", outcome |-> "error"]

\* Mistake: the first message is taken, whatever call it answers.
MatchesAny(message) == TRUE

Matches(message) == message.id = "own"

\* The first message that answers this call.
ParseMCPEnvelope(events) ==
    LET messages == FlattenSeq(events)
        own == Kept(messages, {m \in ToSet(messages) : Matches(m)})
    IN IF own = <<>> THEN NoMessage ELSE own[1]

ToolText(envelope) == IF envelope.outcome = "text" THEN "text" ELSE "fails"

CallTool(events) == ToolText(ParseMCPEnvelope(events))

-----------------------------------------------------------------------------
(* parseRepositoryInspection *)

\* Lines of a report: "key: value", where a key is one the page shows or not, or
\* text without a colon.
InspectionLines == [key : {"projectid", "agent"}, value : 1..2] \cup {[key |-> "", value |-> 1]}

SetField(fields, line) == With(fields, line.key, line.value)

FieldsOf(lines) == FoldLeft(SetField, <<>>, lines)

ParseRepositoryInspection(lines) ==
    [fields |-> FieldsOf(Kept(lines, {l \in ToSet(lines) : l.key # ""})),
     extra |-> Cardinality({i \in DOMAIN lines : lines[i].key = ""})]

-----------------------------------------------------------------------------
(* What is expected of them *)

\* The request stays within the limit the server accepts for every history and
\* every question the text area accepts, although the parts that are cut exceed
\* their own limits by the note that says so.
QuestionWithinLimit(turns, current) ==
    BuildConversationQuestion(turns, current).length <= MaxLength

\* The history is the end of the conversation: no turn is left out while an older
\* one is sent, the newest one is always there, and only the oldest is cut short.
NewestTurnsAreSent(turns, current) ==
    LET question == BuildConversationQuestion(turns, current)
        selected == question.selected
        history == History(turns)
    IN history # <<>> =>
          /\ selected # <<>> /\ selected[Len(selected)].turn = Len(history)
          /\ \A k \in DOMAIN selected : selected[k].turn = Len(history) - Len(selected) + k
          /\ TextLength(selected) - question.history < selected[1].text

\* A restored list of traces is within its limit, repeats no trace next to itself
\* and names the protocol once; restoring it again changes nothing.
TracesAreCompact(traces, maxItems) ==
    LET restored == RestoredTraces(traces, maxItems)
        same(i, j) == restored[i].type = restored[j].type /\ restored[i].detail = restored[j].detail
    IN /\ Len(restored) <= maxItems
       /\ \A i, j \in DOMAIN restored :
             i < j /\ same(i, j) => j # i + 1 /\ restored[i].type \notin OnceOnly
       /\ RestoredTraces(restored, maxItems) = restored

\* A tool call returns text only if the server answered this call with it.
OwnAnswersOnly(events) ==
    CallTool(events) = "text" =>
        \E i \in DOMAIN events : Contains(events[i], [id |-> "own", outcome |-> "text"])

\* A report that repeats a field shows its latest value, and no text without a
\* field is lost.
InspectionIsKept(lines) ==
    LET report == ParseRepositoryInspection(lines)
        ofKey(k) == {i \in DOMAIN lines : lines[i].key = k}
    IN /\ DOMAIN report.fields = {lines[i].key : i \in DOMAIN lines} \ {""}
       /\ \A k \in DOMAIN report.fields :
             \E i \in ofKey(k) : (\A j \in ofKey(k) : j <= i) /\ report.fields[k] = lines[i].value
       /\ report.extra = Cardinality(ofKey(""))
=============================================================================
