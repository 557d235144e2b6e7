------------------------------ MODULE CodeChat ------------------------------
(***************************************************************************)
(* The code analysis page (src/code-page.js): a conversation about one     *)
(* registered project with a remote MCP server, kept in sessionStorage.    *)
(*                                                                         *)
(* On opening, the health check and the MCP handshake run in parallel; the *)
(* first failure of either ends the wait, while the handshake goes on in   *)
(* the background and still shows its stages.  A question is preceded by   *)
(* an inspection of the repository unless one is at hand.  Callbacks run   *)
(* one at a time; the effect that saves the conversation runs before the   *)
(* next one, so saving is part of every change.  Traces are left out.      *)
(***************************************************************************)
EXTENDS Integers, Sequences

CONSTANTS Repos,         \* paths of projects
          None,
          TurnLimit,     \* turns that are kept: 20 in the code
          MaxQuestions,  \* bound: questions of the user
          MaxReloads     \* bound: reloads of the page

CodeChatAssumption ==
    /\ None \notin Repos
    /\ TurnLimit \in Nat \ {0} /\ MaxQuestions \in Nat /\ MaxReloads \in Nat

VARIABLES mounted,
          saved,      \* sessionStorage: repoPath and turns
          opening,    \* the health check, the handshake, and whether the page still waits
          projects,   \* paths of the listed projects
          repo,       \* repoPath, None while there is none
          turns,
          inspected,  \* inspectionReady, with the repository of the report
          busy,
          activity,   \* the stage that is shown as current
          call,       \* submit: the stage it is in, its question, the turns it saw
          asked,      \* history: the number of questions
          reloads

vars == <<mounted, saved, opening, projects, repo, turns, inspected, busy, activity, call, asked, reloads>>

Handshake == <<"initialize", "initialized", "tools", "catalog">>

Stages == {"initialize", "initialized", "tools", "catalog", "inspect", "analyze"}

Turn == [role : {"user", "assistant"}, question : 1..MaxQuestions, repo : Repos]

NoCall == [stage |-> "idle", question |-> 0, before |-> <<>>]

\* Turns are cut at TurnLimit by an answer and by restoring, not by a question.
IsConversation(ts) ==
    /\ Len(ts) <= TurnLimit + MaxQuestions
    /\ \A i \in DOMAIN ts : ts[i] \in Turn

TypeOK ==
    /\ mounted \in BOOLEAN /\ busy \in BOOLEAN
    /\ saved.repo \in Repos \cup {None} /\ IsConversation(saved.turns)
    /\ opening \in [health : {"asked", "ok", "failed"}, stage : 1..5 \cup {0}, waits : BOOLEAN]
    /\ projects \subseteq Repos
    /\ repo \in Repos \cup {None} /\ IsConversation(turns)
    /\ inspected \in Repos \cup {None}
    /\ activity \in Stages \cup {None}
    /\ call.stage \in {"idle", "inspect", "analyze"} /\ call.question \in 0..MaxQuestions
    /\ IsConversation(call.before)
    /\ asked \in 0..MaxQuestions /\ reloads \in 0..MaxReloads

Closed == [health |-> "failed", stage |-> 0, waits |-> FALSE]

Init ==
    /\ mounted = FALSE /\ saved = [repo |-> None, turns |-> <<>>]
    /\ opening = Closed /\ projects = {}
    /\ repo = None /\ turns = <<>> /\ inspected = None
    /\ busy = FALSE /\ activity = None /\ call = NoCall
    /\ asked = 0 /\ reloads = 0

-----------------------------------------------------------------------------
(* Opening the page *)

\* slice(-TurnLimit)
Latest(ts) == SubSeq(ts, IF Len(ts) > TurnLimit THEN Len(ts) - TurnLimit + 1 ELSE 1, Len(ts))

\* The effect on the conversation.
Save == saved' = [repo |-> repo', turns |-> turns']

\* readStoredConversation, and the effect that opens the connection.
Mount ==
    /\ ~mounted /\ mounted' = TRUE
    /\ repo' = saved.repo /\ turns' = Latest(saved.turns)
    /\ Save
    /\ opening' = [health |-> "asked", stage |-> 1, waits |-> TRUE]
    /\ busy' = TRUE /\ activity' = Handshake[1]
    /\ UNCHANGED <<projects, inspected, call, asked, reloads>>

\* The .catch and .finally of the Promise.all, which settles once.
GiveUp(change) ==
    /\ opening' = [change EXCEPT !.waits = FALSE]
    /\ busy' = IF opening.waits THEN FALSE ELSE busy

\* reconcileConversationProject with a list that is not empty.  The restored
\* conversation is still the current one: the page has been busy since.
Reconcile(listed) ==
    IF repo \in listed
    THEN UNCHANGED <<repo, turns, inspected>>
    ELSE /\ repo' \in listed
         /\ turns' = <<>>
         /\ inspected' = IF turns = <<>> THEN inspected ELSE None

\* Both were answered: the list of projects, which may be empty.
Connected(change) ==
    /\ opening' = [change EXCEPT !.waits = FALSE]
    /\ busy' = FALSE
    /\ \/ UNCHANGED <<projects, repo, turns, inspected, saved>>
       \/ \E listed \in SUBSET Repos \ {{}} :
             projects' = listed /\ Reconcile(listed) /\ Save

HealthAnswer ==
    /\ opening.health = "asked"
    /\ LET ok == [opening EXCEPT !.health = "ok"]
       IN \/ /\ opening.stage = 5 /\ opening.waits
             /\ Connected(ok)
          \/ /\ ~(opening.stage = 5 /\ opening.waits)
             /\ opening' = ok
             /\ UNCHANGED <<projects, repo, turns, inspected, saved, busy>>
          \/ /\ GiveUp([opening EXCEPT !.health = "failed"])
             /\ UNCHANGED <<projects, repo, turns, inspected, saved>>
    /\ UNCHANGED <<mounted, activity, call, asked, reloads>>

\* The finally of runStage.
StageOver(stage) == IF activity = stage THEN None ELSE activity

\* One more stage of initializeMCP and list_projects is over.
HandshakeAnswer ==
    /\ opening.stage \in 1..4
    /\ LET next == [opening EXCEPT !.stage = @ + 1]
           failed == [opening EXCEPT !.stage = 0]
       IN \/ /\ opening.stage < 4
             /\ opening' = next /\ activity' = Handshake[opening.stage + 1]
             /\ UNCHANGED <<projects, repo, turns, inspected, saved, busy>>
          \/ /\ opening.stage = 4
             /\ activity' = StageOver("catalog")
             /\ IF opening.waits /\ opening.health = "ok"
                THEN Connected(next)
                ELSE opening' = next /\ UNCHANGED <<projects, repo, turns, inspected, saved, busy>>
          \/ /\ activity' = StageOver(Handshake[opening.stage])
             /\ GiveUp(failed)
             /\ UNCHANGED <<projects, repo, turns, inspected, saved>>
    /\ UNCHANGED <<mounted, call, asked, reloads>>

-----------------------------------------------------------------------------
(* The conversation *)

\* The list is locked while the page is busy and once there are turns.
SelectProject(r) ==
    /\ mounted /\ ~busy /\ turns = <<>>
    /\ r \in projects \ {repo}
    /\ repo' = r /\ inspected' = None
    /\ UNCHANGED turns /\ Save
    /\ UNCHANGED <<mounted, opening, projects, busy, activity, call, asked, reloads>>

\* The question joins the turns when its analysis begins.
Analyze(question, before) ==
    /\ call' = [stage |-> "analyze", question |-> question, before |-> before]
    /\ activity' = "analyze"
    /\ turns' = Append(before, [role |-> "user", question |-> question, repo |-> repo])

Submit ==
    /\ mounted /\ ~busy /\ repo # None
    /\ asked < MaxQuestions /\ asked' = asked + 1
    /\ busy' = TRUE
    /\ IF inspected = None
       THEN /\ call' = [stage |-> "inspect", question |-> asked', before |-> turns]
            /\ activity' = "inspect"
            /\ UNCHANGED turns
       ELSE Analyze(asked', turns)
    /\ UNCHANGED repo /\ Save
    /\ UNCHANGED <<mounted, opening, projects, inspected, reloads>>

\* inspect_repository returns a report.
Inspected ==
    /\ call.stage = "inspect"
    /\ inspected' = repo
    /\ Analyze(call.question, call.before)
    /\ UNCHANGED repo /\ Save
    /\ UNCHANGED <<mounted, opening, projects, busy, asked, reloads>>

\* It does, but the user has cancelled: the analysis begins, aborted already, and
\* its finally clears the activity it has just set.
InspectedTooLate ==
    /\ call.stage = "inspect"
    /\ inspected' = repo
    /\ turns' = Append(call.before, [role |-> "user", question |-> call.question, repo |-> repo])
    /\ call' = NoCall /\ busy' = FALSE
    /\ activity' = None
    /\ UNCHANGED repo /\ Save
    /\ UNCHANGED <<mounted, opening, projects, asked, reloads>>

\* Mistake: the answer is put after the turns the question was built from.
AnsweredTurnsBefore(answer) == Append(call.before, answer)

\* nextTurns of submit, and the answer.
AnsweredTurns(answer) ==
    Append(Append(call.before, [answer EXCEPT !.role = "user"]), answer)

\* analyze_codebase returns a report.
Analyzed ==
    /\ call.stage = "analyze"
    /\ turns' = Latest(AnsweredTurns([role |-> "assistant", question |-> call.question, repo |-> repo]))
    /\ call' = NoCall /\ busy' = FALSE
    /\ activity' = StageOver("analyze")
    /\ UNCHANGED repo /\ Save
    /\ UNCHANGED <<mounted, opening, projects, inspected, asked, reloads>>

\* The stage fails, or the user cancels it.
SubmitFails ==
    /\ call.stage # "idle"
    /\ call' = NoCall /\ busy' = FALSE
    /\ activity' = StageOver(call.stage)
    /\ inspected' = IF call.stage = "inspect" THEN None ELSE inspected
    /\ UNCHANGED <<mounted, saved, opening, projects, repo, turns, asked, reloads>>

\* The button is disabled while the page is busy.
NewConversation ==
    /\ mounted /\ ~busy
    /\ turns' = <<>> /\ inspected' = None /\ activity' = None
    /\ UNCHANGED repo /\ Save
    /\ UNCHANGED <<mounted, opening, projects, busy, call, asked, reloads>>

\* The page is left or loaded again; what is on its way is aborted.
Reload ==
    /\ mounted /\ mounted' = FALSE
    /\ reloads < MaxReloads /\ reloads' = reloads + 1
    /\ opening' = Closed /\ projects' = {}
    /\ repo' = None /\ turns' = <<>> /\ inspected' = None
    /\ busy' = FALSE /\ activity' = None /\ call' = NoCall
    /\ UNCHANGED <<saved, asked>>

-----------------------------------------------------------------------------
Opening == HealthAnswer \/ HandshakeAnswer

Answer == Inspected \/ InspectedTooLate \/ Analyzed \/ SubmitFails

Next ==
    \/ Mount \/ Reload \/ Opening \/ Answer
    \/ (\E r \in Repos : SelectProject(r)) \/ Submit \/ NewConversation

\* Requests are answered, fail or are closed by the proxy.
Fairness == WF_vars(Opening) /\ WF_vars(Answer)

Spec == Init /\ [][Next]_vars

FairSpec == Spec /\ Fairness

-----------------------------------------------------------------------------
(* Properties *)

\* An answer stands right behind the question it belongs to, however rounds fail,
\* are cancelled or cut off by a reload; only the oldest question may be cut.
AnswersFollowQuestions ==
    \A i \in DOMAIN turns :
        turns[i].role = "assistant" /\ i > 1 => turns[i - 1] = [turns[i] EXCEPT !.role = "user"]

\* A conversation is about one project, the one that is selected.
OneProjectPerConversation == \A i \in DOMAIN turns : turns[i].repo = repo

\* No source is analysed before the repository was inspected on this page.
InspectedBeforeAnalysis == call.stage = "analyze" => inspected = repo

\* A stage that is over is never shown as the current one, with the handshake in
\* the background of a question or not.
ActivityIsRunning ==
    activity # None =>
        \/ activity = call.stage
        \/ opening.stage \in 1..4 /\ activity = Handshake[opening.stage]

\* The page becomes usable again.
ChatUnlocks == busy ~> ~busy
=============================================================================
