-------------------------------- MODULE Pages -------------------------------
(***************************************************************************)
(* The plug-in's own pages in one browser tab: RootPage of src/module.js   *)
(* renders the page that belongs to the path.  The pages share nothing but *)
(* the address, so a behaviour stays on one of them.                       *)
(***************************************************************************)
EXTENDS Integers, Sequences, FiniteSets

CONSTANTS None,
          Dashboards, Servers, ServerOf, Retries, Loads, MaxSwitches,  \* Overview
          Tasks, Earlier, Slow, MaxCalls, MaxReplies,                  \* AgentPage
          Repos, TurnLimit, MaxQuestions, MaxReloads                   \* CodeChat

VARIABLES page,
          overviewMounted, url, requests, context, loads, collect, shown, error, switches,
          opsMounted, urlTask, catalog, server, task, opsBusy, post, replies, agent, expired,
          codeMounted, saved, opening, projects, repo, turns, inspected, codeBusy,
          activity, call, asked, reloads

Overview == INSTANCE Overview WITH mounted <- overviewMounted, Pages <- Dashboards

Ops == INSTANCE AgentPage WITH mounted <- opsMounted, busy <- opsBusy

Code == INSTANCE CodeChat WITH mounted <- codeMounted, busy <- codeBusy

ASSUME PagesAssumption ==
    Overview!OverviewAssumption /\ Ops!AgentPageAssumption /\ Code!CodeChatAssumption

overview == <<overviewMounted, url, requests, context, loads, collect, shown, error, switches>>

ops == <<opsMounted, urlTask, catalog, server, task, opsBusy, post, replies, agent, expired>>

code == <<codeMounted, saved, opening, projects, repo, turns, inspected, codeBusy,
          activity, call, asked, reloads>>

vars == <<page, overview, ops, code>>

Paths == {"overview", "ops-agent", "code-analysis"}

TypeOK == page \in Paths /\ Overview!TypeOK /\ Ops!TypeOK /\ Code!TypeOK

Init == page \in Paths /\ Overview!Init /\ Ops!Init /\ Code!Init

-----------------------------------------------------------------------------
(* RootPage *)

OverviewPage == page = "overview" /\ Overview!Next /\ UNCHANGED <<page, ops, code>>

OpsPage == page = "ops-agent" /\ Ops!Next /\ UNCHANGED <<page, overview, code>>

CodePage == page = "code-analysis" /\ Code!Next /\ UNCHANGED <<page, overview, ops>>

Next == OverviewPage \/ OpsPage \/ CodePage

Spec == Init /\ [][Next]_vars

FairSpec == Spec /\ Overview!Fairness /\ Ops!Fairness /\ Code!Fairness

-----------------------------------------------------------------------------
(* Properties *)

\* Overview: the context of a dashboard that was left never replaces the current
\* one; a snapshot of the server shown before, which does, is replaced in the end;
\* and a page that neither loads nor collects shows data or says why it does not.
OverviewFollowsDashboard ==
    /\ Overview!ContextFollowsURL
    /\ Overview!SnapshotRecovers
    /\ []Overview!NoSilentFailure

\* Operations agent: a command to approve and the end of a task reach the page and
\* stay, although answers overtake each other and requests are lost.  A page that
\* saw a task fail at its deadline may miss that it waits for an approval again.
PageFollowsTask == Ops!PageCatchesUp /\ Ops!EndIsShown

\* Code analysis: every answer stands behind its question, all turns are about the
\* project that is selected, none was analysed before its inspection on this page,
\* and no stage that is over is shown as the current one, however rounds fail, are
\* cancelled or cut off by a reload.
ConversationIsCoherent ==
    /\ Code!AnswersFollowQuestions /\ Code!OneProjectPerConversation
    /\ Code!InspectedBeforeAnalysis /\ Code!ActivityIsRunning

\* Every page becomes usable again after a request, answered or not.
PagesUnlock == Overview!BusyEnds /\ Ops!PageUnlocks /\ Code!ChatUnlocks
=============================================================================
