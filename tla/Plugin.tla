------------------------------- MODULE Plugin -------------------------------
(***************************************************************************)
(* What the Grafana plug-in installs in every document (installControls of *)
(* src/module.js): the controls of dashboards, and the presentation of     *)
(* Grafana's navigation and home page.                                     *)
(*                                                                         *)
(* Both begin in the same callback.  A behaviour then follows a tab either *)
(* over dashboards, where the controls act, or around Grafana's home page, *)
(* where they see no dashboard and do nothing more; they share no state.   *)
(***************************************************************************)
EXTENDS Controls

CONSTANTS Document, Grid, MaxRenders   \* Navigation

VARIABLES atHome,  \* the tab is followed around the home page
          home, item, hidden, titled, laidOut, menu, navHidden, user, anonymous,
          asked, dirty, renders

N == INSTANCE Navigation

ASSUME PluginAssumption == N!NavigationAssumption

navigation == <<home, item, hidden, titled, laidOut, menu, navHidden, user, anonymous,
                asked, dirty, renders>>

pluginVars == <<atHome, vars, navigation>>

PluginTypeOK == atHome \in BOOLEAN /\ TypeOK /\ N!TypeOK

\* The first page of a tab: a dashboard, or any other page with or without the
\* startup parameter; or Grafana's home page.
PluginInit ==
    /\ atHome \in BOOLEAN
    /\ Init /\ N!Init
    /\ IF atHome
       THEN loc = Elsewhere /\ ~storage
       ELSE ~home /\ ~menu /\ user = "operator"

-----------------------------------------------------------------------------
\* Dashboards; what the navigation shows there is left out.
OverDashboards ==
    /\ ~atHome /\ Next
    /\ UNCHANGED <<atHome, navigation>>

\* installControls calls installMonitorNavigation; the controls do nothing more.
AroundHome ==
    /\ atHome /\ N!Next
    /\ IF asked = "no" /\ asked' # "no" THEN Install ELSE UNCHANGED vars
    /\ UNCHANGED atHome

PluginNext == OverDashboards \/ AroundHome

PluginSpec == PluginInit /\ [][PluginNext]_pluginVars

FairPluginSpec == PluginSpec /\ Fairness

-----------------------------------------------------------------------------
(* Properties; those of the Refresh button are stated in Controls *)

\* installMonitorNavigation: once the observer ran, a page that is not the home page
\* has no mark, a home page with a dashboards section exactly those of this section,
\* and the menu hides what fits the user, whatever order Grafana's renderings and the
\* answer of /api/user come in.
PresentationFollowsPage == N!MarksFollowPage /\ N!NavigationFollowsUser
=============================================================================
