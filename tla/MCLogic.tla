------------------------------ MODULE MCLogic ------------------------------
(***************************************************************************)
(* The pure functions of the Grafana plug-in on every small input: a       *)
(* behaviour chooses a function and an input for it.                       *)
(***************************************************************************)
EXTENDS Markdown, ChatLogic, SampleLogic

CONSTANTS MaxLines,     \* bound: lines of a document
          MaxRows,      \* bound: lines of a list of projects
          MaxItems      \* bound: turns, traces, messages, samples

ASSUME BoundsAssumption == MaxLines \in Nat /\ MaxRows \in Nat /\ MaxItems \in Nat

VARIABLES subject,  \* the function
          input     \* its arguments

vars == <<subject, input>>

\* Turns around the limits of their roles; a blank one is not sent.
Turns == [role : {"user", "assistant"}, length : {0, 1, 3000, 3001, 6001, 64000}]

\* Seven turns: one more than are sent.
LongHistory == [k \in 1..7 |-> [role |-> IF k % 2 = 1 THEN "user" ELSE "assistant", length |-> 6001]]

Questions == {<<turns, current>> : turns \in BoundedSeq(Turns, MaxItems) \cup {LongHistory},
                                   current \in {1, 4000}}

Traces == BoundedSeq([type : {"protocol", "tool"}, detail : {"a", "b"}], MaxItems + 1)

\* Up to two events, each with up to two messages.
Envelopes == BoundedSeq(BoundedSeq(Messages, 2), 2)

Results == [node : {NoLabel, "a", "b"}, query : {"up", "online"}, value : {Null, 0, 1}]

Connections == [node : {NoLabel, "a"}, type : {"central", "region", "other"}, id : 1..2]

\* Long lists of results, and long lists of connections.
Samples == (BoundedSeq(Results, MaxItems) \X BoundedSeq(Connections, 0))
               \cup (BoundedSeq(Results, 1) \X BoundedSeq(Connections, MaxItems))

Alerts == [server : {NoLabel, "t"}, severity : {NoLabel, "critical", "warning"},
           state : {NoLabel, "firing", "inactive"}, since : 1..2]

Rules == {<<[server |-> s, severity |-> v, state |-> t, alerts |-> alerts],
            [server |-> "t", severity |-> "critical", state |-> "firing",
             alerts |-> <<[server |-> "s", severity |-> NoLabel, state |-> "pending", since |-> 2]>>]>> :
              s \in {"s", "t"}, v \in {NoLabel, "warning"}, t \in {"firing", "inactive"},
              alerts \in BoundedSeq(Alerts, 2)}

Scalars == {Null, 0, 1, 3, 100}

Init == subject = "none" /\ input = <<>>

Choose(function, inputs) ==
    /\ subject = "none" /\ subject' = function
    /\ input' \in inputs

Next ==
    \/ Choose("markdown", BoundedSeq(Lines, MaxLines))
    \/ Choose("projects", BoundedSeq(ProjectLines, MaxRows))
    \/ Choose("question", Questions)
    \/ Choose("traces", Traces)
    \/ Choose("envelope", Envelopes)
    \/ Choose("inspection", BoundedSeq(InspectionLines, MaxItems))
    \/ Choose("samples", Samples)
    \/ Choose("rules", Rules)
    \/ Choose("levels", Scalars \X Scalars \X Scalars \X Scalars \X Scalars)

Spec == Init /\ [][Next]_vars

-----------------------------------------------------------------------------
(* Properties *)

\* parseSafeMarkdown and unwrapMarkdownDocumentFence: every line of a report that is
\* not blank is shown in exactly one block, in order, with lines of its own kind, no
\* block is broken in two, and a fence goes only if it wraps all of the document.
ReportIsShownOnce ==
    subject = "markdown" =>
        /\ BlocksCover(input) /\ LinesFitBlocks(input) /\ BlocksAreWhole(input)
        /\ UnwrapIsFinal(input)

\* parseProjects: a row is listed as a project exactly if its own table has the
\* required columns; columns of one table are never used for another.
ProjectsHaveColumns == subject = "projects" => RowsHaveColumns(input)

\* buildConversationQuestion: the request stays within the limit of the server,
\* and the history in it is the end of the conversation.
QuestionFits ==
    subject = "question" =>
        QuestionWithinLimit(input[1], input[2]) /\ NewestTurnsAreSent(input[1], input[2])

\* appendTrace and restoreConversation, parseMCPEnvelope and toolText, and
\* parseRepositoryInspection: in the records of a conversation no entry follows
\* its like, a tool call returns only its own answer, and the latest value of a
\* field is shown.
RecordsAreOwnAndLatest ==
    /\ subject = "traces" => \A n \in 1..3 : TracesAreCompact(input, n)
    /\ subject = "envelope" => OwnAnswersOnly(input)
    /\ subject = "inspection" => InspectionIsKept(input)

\* mergeNodeSamples, activeAlertsFromRules and the levels: answers that arrive
\* query by query, with any of them missing, become one row for each node, one
\* line for each active alert of the server, and levels within their scale.
SamplesAreMerged ==
    /\ subject = "samples" => NodesAreMerged(input[1], input[2])
    /\ subject = "rules" => AlertsAreOfServer(input, "s")
    /\ subject = "levels" => LevelsFitScale(input[1], input[2], input[3], input[4], input[5])
=============================================================================
