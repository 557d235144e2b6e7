----------------------------- MODULE Navigation -----------------------------
(***************************************************************************)
(* installMonitorNavigation and applyHomePresentation of the Grafana       *)
(* plug-in: entries of the navigation menu and sections of Grafana's home  *)
(* page are hidden by attributes, again after every change of the page.    *)
(*                                                                         *)
(* Grafana renders the page in pieces and replaces them as it likes.  A    *)
(* MutationObserver calls apply in a later callback, after any number of   *)
(* changes.  Grid items have one react-grid-layout, which holds the        *)
(* members of Grid; any other item is a section outside of it.             *)
(***************************************************************************)
EXTENDS Integers, Sequences

CONSTANTS Document,   \* the items of the home page, in document order
          Grid,       \* those that are items of the grid
          MaxRenders  \* bound: changes of the page by Grafana

Items == {Document[i] : i \in DOMAIN Document}

NavigationAssumption ==
    /\ Document \in Seq(Items)
    /\ Grid \subseteq Items
    /\ \A i, j \in DOMAIN Document : Document[i] = Document[j] => i = j
    /\ MaxRenders \in Nat

VARIABLES home,       \* window.location.pathname is "/"
          item,       \* what is rendered of each item
          hidden,     \* items marked erlang-monitor-home-hidden
          titled,     \* items marked erlang-monitor-home-dashboard
          laidOut,    \* the grid is marked erlang-monitor-home-layout
          menu,       \* the navigation menu is rendered
          navHidden,  \* its entries marked erlang-monitor-nav-hidden
          user,       \* who uses the browser
          anonymous,  \* anonymousNavigation
          asked,      \* progress of GET /api/user
          dirty,      \* the observer has changes to report
          renders

page == <<home, item, menu, renders>>
presentation == <<hidden, titled, laidOut>>

vars == <<page, presentation, navHidden, user, anonymous, asked, dirty>>

Content == {"absent", "empty", "other", "Dashboards"}

Entries == {"dashboards", "starred", "alerting", "drilldown"}

TypeOK ==
    /\ home \in BOOLEAN /\ item \in [Items -> Content] /\ menu \in BOOLEAN
    /\ renders \in 0..MaxRenders
    /\ hidden \subseteq Items /\ titled \subseteq Items /\ laidOut \in BOOLEAN
    /\ navHidden \subseteq Entries
    /\ user \in {"guest", "operator"} /\ anonymous \in {"null", "true", "false"}
    /\ asked \in {"no", "yes", "answered"} /\ dirty \in BOOLEAN

Init ==
    /\ home \in BOOLEAN /\ item = [i \in Items |-> "absent"] /\ menu \in BOOLEAN /\ renders = 0
    /\ hidden = {} /\ titled = {} /\ laidOut = FALSE /\ navHidden = {}
    /\ user \in {"guest", "operator"} /\ anonymous = "null" /\ asked = "no" /\ dirty = FALSE

-----------------------------------------------------------------------------
(* applyHomePresentation *)

Present == {i \in Items : item[i] # "absent"}

Sections == {i \in Items : item[i] \in {"other", "Dashboards"}}

Tracked == hidden \cup titled

\* dashboardSection: the first section in the document with that heading.
IsDashboardSection(d) ==
    /\ item[d] = "Dashboards"
    /\ \A i, j \in DOMAIN Document :
          Document[i] = d /\ j < i => item[Document[j]] # "Dashboards"

\* homeGridPresentationTargets and the loop over the sections.
HiddenItems(d) ==
    ((IF d \in Grid THEN Present \cap Grid ELSE {}) \cup Sections) \ {d}

\* Mistake: only what is to be marked is looked at, not what is marked.
CandidatesNew(d) == {d} \cup HiddenItems(d)

Candidates(d) == Tracked \cup {d} \cup HiddenItems(d)

\* syncBooleanAttribute on every candidate.
Sync(marked, candidates, wanted) == (marked \ candidates) \cup (candidates \cap wanted)

ApplyHomePresentation ==
    \/ ~home /\ hidden' = {} /\ titled' = {} /\ laidOut' = FALSE
    \/ /\ home /\ \A i \in Items : item[i] # "Dashboards"   \* the early return
       /\ UNCHANGED presentation
    \/ /\ home
       /\ \E d \in Items :
             /\ IsDashboardSection(d)
             /\ hidden' = Sync(hidden, Candidates(d), HiddenItems(d))
             /\ titled' = Sync(titled, Candidates(d), {d})
             /\ laidOut' = (d \in Grid)

-----------------------------------------------------------------------------
(* installMonitorNavigation *)

\* shouldHideGuestNavigation spares /dashboards itself, but not its starred list;
\* shouldHideUnusedNavigation names only what nobody uses.
HideFromGuests == Entries \ {"dashboards"}
HideFromAll == {"drilldown"}

\* apply, with the value anonymousNavigation has by then.
Apply(anon) ==
    /\ ApplyHomePresentation
    /\ navHidden' = IF anon = "null" \/ ~menu THEN navHidden
                    ELSE IF anon = "true" THEN HideFromGuests ELSE HideFromAll

\* The boot data may name the user; apply, observe, ask /api/user.
InstallMonitorNavigation ==
    /\ asked = "no" /\ asked' = "yes"
    /\ anonymous' \in {"null", IF user = "guest" THEN "true" ELSE "false"}
    /\ Apply(anonymous')
    /\ UNCHANGED <<page, user, dirty>>

\* The callback of the MutationObserver.
Observe ==
    /\ asked # "no" /\ dirty /\ dirty' = FALSE
    /\ Apply(anonymous)
    /\ UNCHANGED <<page, user, anonymous, asked>>

UserAnswers == user = "operator"

\* isAnonymousGrafanaStatus
AnonymousAfter(status) == IF status = 401 THEN "true" ELSE "false"

\* /api/user: 200 for a user, 401 for a guest, or Grafana is in trouble.
UserAnswer ==
    /\ asked = "yes" /\ asked' = "answered"
    /\ \/ UserAnswers /\ anonymous' = "false"
       \/ \E status \in {401, 500} :
             /\ status = 401 => ~UserAnswers
             /\ anonymous' = AnonymousAfter(status)
    /\ Apply(anonymous')
    /\ UNCHANGED <<page, user, dirty>>

-----------------------------------------------------------------------------
(* Grafana *)

Changes ==
    /\ renders < MaxRenders /\ renders' = renders + 1
    /\ dirty' = (asked # "no")

\* An item appears, disappears or gets another heading; a new one has no marks.
RenderItem(i) ==
    /\ home /\ Changes
    /\ \E c \in Content \ {item[i]} :
          /\ item' = [item EXCEPT ![i] = c]
          /\ LET kept == IF c = "absent" THEN {i} ELSE {}
             IN hidden' = hidden \ kept /\ titled' = titled \ kept
    /\ UNCHANGED <<home, menu, laidOut, navHidden, user, anonymous, asked>>

\* Another page is shown; parts of the old one may be left in the document.
RenderPage ==
    /\ Changes /\ home' = ~home
    /\ \E left \in SUBSET Present :
          /\ item' = [i \in Items |-> IF i \in left THEN item[i] ELSE "absent"]
          /\ hidden' = hidden \cap left /\ titled' = titled \cap left
          /\ laidOut' \in {FALSE, laidOut}
    /\ UNCHANGED <<menu, navHidden, user, anonymous, asked>>

\* The menu is rendered, or rendered anew.
RenderMenu ==
    /\ Changes
    /\ menu' = TRUE /\ navHidden' = {}
    /\ UNCHANGED <<home, item, presentation, user, anonymous, asked>>

Next ==
    \/ InstallMonitorNavigation \/ Observe \/ UserAnswer
    \/ (\E i \in Items : RenderItem(i)) \/ RenderPage \/ RenderMenu

Spec == Init /\ [][Next]_vars

-----------------------------------------------------------------------------
(* Properties *)

Settled == asked # "no" /\ ~dirty

\* What the home page hides beside its dashboards: every other section, and with a
\* dashboards section in the grid everything else in the grid.
Unwanted(d) ==
    {i \in Items \ {d} : i \in Sections \/ ({i, d} \subseteq Grid /\ item[i] # "absent")}

\* Once the observer ran, another page has no mark, and a home page with a dashboards
\* section has exactly the marks of this section: none of an earlier rendering is left,
\* none is missing.  Of a home page without such a section nothing is said: apply leaves
\* it as it is, with the marks of the section it had, until one comes back or the page
\* is left.
MarksFollowPage ==
    Settled =>
        /\ ~home => hidden = {} /\ titled = {} /\ ~laidOut
        /\ home => \A d \in Items :
              IsDashboardSection(d) =>
                  titled = {d} /\ hidden = Unwanted(d) /\ (laidOut <=> d \in Grid)

\* A guest who is known as one sees only the dashboards; no answer, failure or
\* rendering hides an operator's entries.
NavigationFollowsUser ==
    /\ user = "operator" => "alerting" \notin navHidden
    /\ user = "guest" /\ anonymous = "true" /\ Settled /\ menu => navHidden = HideFromGuests
=============================================================================
