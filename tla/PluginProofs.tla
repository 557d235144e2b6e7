---------------------------- MODULE PluginProofs ----------------------------
(***************************************************************************)
(* Proofs about what the Grafana plug-in installs in a document.  The      *)
(* composition implements the controls of dashboards, so what is proved of *)
(* them (ControlsProofs) holds in it; and the marks of a home page with a  *)
(* dashboards section, of every other page and of the navigation fit, for  *)
(* any document, in whatever order Grafana renders and the answer of       *)
(* /api/user comes.                                                        *)
(***************************************************************************)
EXTENDS Plugin, ControlsProofs

\* Only a guest is ever taken for one.
OnlyGuestsAreAnonymous == user = "operator" => anonymous # "true"

\* Each part is needed for the next: apply trusts anonymous.
NavigationInv == N!TypeOK /\ OnlyGuestsAreAnonymous /\ PresentationFollowsPage

-----------------------------------------------------------------------------
(* applyHomePresentation *)

\* Two sections are not both the first with the heading of the dashboards.
LEMMA OneDashboardSection ==
    ASSUME NEW d \in N!Items, NEW e \in N!Items, N!IsDashboardSection(d), N!IsDashboardSection(e)
    PROVE  d = e
<1>1. /\ DOMAIN Document \subseteq Int
      /\ N!Items = {Document[i] : i \in DOMAIN Document}
  BY PluginAssumption DEF N!NavigationAssumption, N!Items
<1>2. PICK i \in DOMAIN Document, j \in DOMAIN Document : d = Document[i] /\ e = Document[j]
  BY <1>1
<1>3. ~(j < i) /\ ~(i < j)
  BY <1>2 DEF N!IsDashboardSection
<1>4. i = j
  BY <1>1, <1>3
<1>5. QED
  BY <1>2, <1>4

\* What apply leaves of the marks, whatever was marked before.
LEMMA MarksAfterApply ==
    ASSUME N!TypeOK, N!ApplyHomePresentation, UNCHANGED <<home, item>>
    PROVE  /\ hidden' \subseteq N!Items /\ titled' \subseteq N!Items /\ laidOut' \in BOOLEAN
           /\ ~home' => hidden' = {} /\ titled' = {} /\ ~laidOut'
           /\ home' => \A d \in N!Items : N!IsDashboardSection(d)' =>
                 titled' = {d} /\ hidden' = N!Unwanted(d)' /\ (laidOut' <=> d \in Grid)
<1>1. /\ \A d \in N!Items : N!IsDashboardSection(d)' <=> N!IsDashboardSection(d)
      /\ \A d : N!Unwanted(d)' = N!Unwanted(d)
  BY DEF N!IsDashboardSection, N!Unwanted, N!Sections
<1>2. CASE ~home /\ hidden' = {} /\ titled' = {} /\ laidOut' = FALSE
  BY <1>2
<1>3. CASE home /\ (\A i \in N!Items : item[i] # "Dashboards") /\ UNCHANGED <<hidden, titled, laidOut>>
  BY <1>1, <1>3 DEF N!IsDashboardSection, N!TypeOK
<1>4. ASSUME home, NEW d \in N!Items, N!IsDashboardSection(d),
             hidden' = N!Sync(hidden, N!Candidates(d), N!HiddenItems(d)),
             titled' = N!Sync(titled, N!Candidates(d), {d}),
             laidOut' = (d \in Grid)
      PROVE  /\ hidden' \subseteq N!Items /\ titled' \subseteq N!Items /\ laidOut' \in BOOLEAN
             /\ home' => \A e \in N!Items : N!IsDashboardSection(e)' =>
                   titled' = {e} /\ hidden' = N!Unwanted(e)' /\ (laidOut' <=> e \in Grid)
  <2>1. hidden' = N!HiddenItems(d) /\ titled' = {d}
    BY <1>4 DEF N!Sync, N!Candidates, N!Tracked
  <2>2. N!HiddenItems(d) = N!Unwanted(d) /\ N!HiddenItems(d) \subseteq N!Items
    BY DEF N!HiddenItems, N!Unwanted, N!Sections, N!Present
  <2>3. \A e \in N!Items : N!IsDashboardSection(e)' => e = d
    BY <1>1, <1>4, OneDashboardSection
  <2>4. ASSUME NEW e \in N!Items, N!IsDashboardSection(e)'
        PROVE  titled' = {e} /\ hidden' = N!Unwanted(e)' /\ (laidOut' <=> e \in Grid)
    <3>1. e = d
      BY <2>3, <2>4
    <3>2. hidden' = N!Unwanted(d)'
      BY <1>1, <2>1, <2>2
    <3>3. QED
      BY <1>4, <2>1, <3>1, <3>2
  <2>5. hidden' \subseteq N!Items /\ titled' \subseteq N!Items /\ laidOut' \in BOOLEAN
    BY <1>4, <2>1, <2>2
  <2>6. QED
    BY <2>4, <2>5
<1>5. QED
  BY <1>2, <1>3, <1>4 DEF N!ApplyHomePresentation, N!presentation

\* A guest who is known as one sees the dashboards only; nobody hides an operator's entries.
LEMMA NavigationAfterApply ==
    ASSUME NEW anon, N!Apply(anon), navHidden \subseteq N!Entries
    PROVE  /\ navHidden' \subseteq N!Entries
           /\ anon # "true" /\ "alerting" \notin navHidden => "alerting" \notin navHidden'
           /\ anon = "true" /\ menu => navHidden' = N!HideFromGuests
BY DEF N!Apply, N!HideFromGuests, N!HideFromAll, N!Entries

\* A step that applies the presentation with what is known of the user after it.
LEMMA AppliedStep ==
    ASSUME NavigationInv, N!Apply(anonymous'), UNCHANGED <<home, item, menu, renders, user>>,
           anonymous' \in {"null", "true", "false"}, asked' \in {"no", "yes", "answered"}, dirty' \in BOOLEAN,
           OnlyGuestsAreAnonymous'
    PROVE  NavigationInv'
<1>1. N!TypeOK /\ N!ApplyHomePresentation /\ navHidden \subseteq N!Entries
  BY DEF NavigationInv, N!TypeOK, N!Apply
<1>2. /\ hidden' \subseteq N!Items /\ titled' \subseteq N!Items /\ laidOut' \in BOOLEAN
      /\ ~home' => hidden' = {} /\ titled' = {} /\ ~laidOut'
      /\ home' => \A d \in N!Items : N!IsDashboardSection(d)' =>
            titled' = {d} /\ hidden' = N!Unwanted(d)' /\ (laidOut' <=> d \in Grid)
  BY <1>1, MarksAfterApply
<1>3. /\ navHidden' \subseteq N!Entries
      /\ anonymous' # "true" /\ "alerting" \notin navHidden => "alerting" \notin navHidden'
      /\ anonymous' = "true" /\ menu => navHidden' = N!HideFromGuests
  BY <1>1, NavigationAfterApply
<1>4. N!TypeOK'
  BY <1>1, <1>2, <1>3 DEF N!TypeOK
<1>5. N!MarksFollowPage'
  BY <1>2 DEF N!MarksFollowPage
<1>6. N!NavigationFollowsUser'
  BY <1>3 DEF NavigationInv, PresentationFollowsPage, N!NavigationFollowsUser, OnlyGuestsAreAnonymous
<1>7. QED
  BY <1>4, <1>5, <1>6 DEF NavigationInv, PresentationFollowsPage

-----------------------------------------------------------------------------
(* The steps *)

\* What Grafana renders is not settled before the observer ran, or before the plug-in looks.
LEMMA RenderStep ==
    ASSUME NavigationInv, (\E i \in N!Items : N!RenderItem(i)) \/ N!RenderPage \/ N!RenderMenu
    PROVE  NavigationInv'
<1>1. /\ dirty' = (asked # "no") /\ renders' = renders + 1 /\ renders < MaxRenders
      /\ UNCHANGED <<user, anonymous, asked>>
  BY DEF N!RenderItem, N!RenderPage, N!RenderMenu, N!Changes
<1>2. ~N!Settled'
  BY <1>1 DEF N!Settled
<1>3. navHidden' \in {navHidden, {}}
  BY DEF N!RenderItem, N!RenderPage, N!RenderMenu
<1>4. renders' \in 0..MaxRenders /\ dirty' \in BOOLEAN /\ navHidden' \subseteq N!Entries
  BY <1>1, <1>3, PluginAssumption DEF NavigationInv, N!TypeOK, N!NavigationAssumption
<1>5. /\ home' \in BOOLEAN /\ item' \in [N!Items -> N!Content] /\ menu' \in BOOLEAN
      /\ hidden' \subseteq N!Items /\ titled' \subseteq N!Items /\ laidOut' \in BOOLEAN
  <2>1. CASE \E i \in N!Items : N!RenderItem(i)
    BY <2>1 DEF NavigationInv, N!TypeOK, N!RenderItem
  <2>2. CASE N!RenderPage
    BY <2>2 DEF NavigationInv, N!TypeOK, N!RenderPage, N!Content
  <2>3. CASE N!RenderMenu
    BY <2>3 DEF NavigationInv, N!TypeOK, N!RenderMenu, N!presentation
  <2>4. QED
    BY <2>1, <2>2, <2>3
<1>6. N!TypeOK'
  BY <1>1, <1>4, <1>5 DEF NavigationInv, N!TypeOK
<1>7. PresentationFollowsPage'
  BY <1>1, <1>2, <1>3 DEF NavigationInv, PresentationFollowsPage, N!MarksFollowPage, N!NavigationFollowsUser
<1>8. QED
  BY <1>1, <1>6, <1>7 DEF NavigationInv, OnlyGuestsAreAnonymous

LEMMA NavigationStep ==
    ASSUME NavigationInv, N!Next
    PROVE  NavigationInv'
<1>1. CASE N!InstallMonitorNavigation
  <2>1. /\ N!Apply(anonymous') /\ UNCHANGED <<home, item, menu, renders, user>> /\ asked' = "yes" /\ dirty' = dirty
        /\ anonymous' \in {"null", IF user = "guest" THEN "true" ELSE "false"}
    BY <1>1 DEF N!InstallMonitorNavigation, N!page
  <2>2. OnlyGuestsAreAnonymous' /\ anonymous' \in {"null", "true", "false"} /\ dirty' \in BOOLEAN
    BY <2>1 DEF OnlyGuestsAreAnonymous, NavigationInv, N!TypeOK
  <2>3. QED
    BY <2>1, <2>2, AppliedStep
<1>2. CASE N!Observe
  <2>1. /\ N!Apply(anonymous') /\ UNCHANGED <<home, item, menu, renders, user, anonymous, asked>> /\ dirty' = FALSE
    BY <1>2 DEF N!Observe, N!page
  <2>2. OnlyGuestsAreAnonymous' /\ anonymous' \in {"null", "true", "false"} /\ asked' \in {"no", "yes", "answered"}
    BY <2>1 DEF OnlyGuestsAreAnonymous, NavigationInv, N!TypeOK
  <2>3. QED
    BY <2>1, <2>2, AppliedStep
<1>3. CASE N!UserAnswer
  <2>1. /\ N!Apply(anonymous') /\ UNCHANGED <<home, item, menu, renders, user>> /\ asked' = "answered" /\ dirty' = dirty
        /\ anonymous' = "false" \/ (anonymous' = "true" /\ user # "operator")
    BY <1>3 DEF N!UserAnswer, N!page, N!AnonymousAfter, N!UserAnswers
  <2>2. OnlyGuestsAreAnonymous' /\ anonymous' \in {"null", "true", "false"} /\ dirty' \in BOOLEAN
    BY <2>1 DEF OnlyGuestsAreAnonymous, NavigationInv, N!TypeOK
  <2>3. QED
    BY <2>1, <2>2, AppliedStep
<1>4. QED
  BY <1>1, <1>2, <1>3, RenderStep DEF N!Next

\* A step over dashboards leaves the presentation of the page alone.
LEMMA NavigationStutters ==
    ASSUME NavigationInv, UNCHANGED navigation
    PROVE  NavigationInv'
BY DEF NavigationInv, navigation, OnlyGuestsAreAnonymous, PresentationFollowsPage, N!TypeOK, N!MarksFollowPage,
       N!NavigationFollowsUser, N!Settled, N!IsDashboardSection, N!Unwanted, N!Sections

LEMMA NavigationInit == PluginInit => NavigationInv
<1> SUFFICES ASSUME PluginInit PROVE NavigationInv
  OBVIOUS
<1>1. N!TypeOK
  <2>1. N!Init
    BY DEF PluginInit
  <2>2. renders \in 0..MaxRenders
    BY <2>1, PluginAssumption DEF N!Init, N!NavigationAssumption
  <2>3. item \in [N!Items -> N!Content]
    BY <2>1 DEF N!Init, N!Content
  <2>4. QED
    BY <2>1, <2>2, <2>3 DEF N!Init, N!TypeOK
<1>2. QED
  BY <1>1 DEF PluginInit, N!Init, NavigationInv, OnlyGuestsAreAnonymous, PresentationFollowsPage, N!MarksFollowPage,
              N!NavigationFollowsUser, N!Settled

-----------------------------------------------------------------------------
(* The composition *)

\* A step of the plug-in is one of the controls or leaves them alone.
LEMMA ControlsStep == [PluginNext]_pluginVars => [Next]_vars
BY DEF PluginNext, pluginVars, OverDashboards, AroundHome, Next

\* Around the home page the controls only install themselves: what the Refresh button does
\* in a document is what Controls says, whatever else the plug-in installs.
THEOREM PluginHasControls == PluginSpec => Spec
<1>1. PluginInit => Init
  BY DEF PluginInit
<1>2. QED
  BY <1>1, ControlsStep, PTL DEF PluginSpec, Spec

\* NavigationInv is inductive, whatever the controls do.
THEOREM NavigationInductive == PluginSpec => [](atHome \in BOOLEAN /\ NavigationInv)
<1>1. PluginInit => atHome \in BOOLEAN /\ NavigationInv
  BY NavigationInit DEF PluginInit
<1>2. ASSUME atHome \in BOOLEAN /\ NavigationInv, [PluginNext]_pluginVars
      PROVE  (atHome \in BOOLEAN /\ NavigationInv)'
  <2>1. atHome' = atHome
    BY <1>2 DEF PluginNext, pluginVars, OverDashboards, AroundHome
  <2>2. N!Next \/ UNCHANGED navigation
    BY <1>2 DEF PluginNext, pluginVars, OverDashboards, AroundHome
  <2>3. QED
    BY <1>2, <2>1, <2>2, NavigationStep, NavigationStutters
<1>3. QED
  BY <1>1, <1>2, PTL DEF PluginSpec

\* Every variable of the plug-in keeps its type.
THEOREM PluginTypeCorrect == PluginSpec => []PluginTypeOK
<1>1. (atHome \in BOOLEAN /\ NavigationInv) /\ (TypeOK /\ FlowsHaveServers) => PluginTypeOK
  BY DEF NavigationInv, PluginTypeOK
<1>2. QED
  BY <1>1, NavigationInductive, PluginHasControls, ControlsTypeCorrect, PTL

\* applyHomePresentation and installMonitorNavigation: once the observer ran, a page that is
\* not the home page has no mark, a home page with a dashboards section exactly those of this
\* section, and the menu fits the user.  A home page without one keeps the marks it had.
THEOREM PresentationFits == PluginSpec => []PresentationFollowsPage
<1>1. NavigationInv => PresentationFollowsPage
  BY DEF NavigationInv
<1>2. QED
  BY <1>1, NavigationInductive, PTL

\* The Refresh button keeps its promises in a document where the plug-in does more
\* (triggerCollection): one collection per cooldown, automatic refreshes as asked for.
THEOREM ButtonInPlugin == PluginSpec => OneCollectionPerCooldown /\ AutomaticRefresh
BY PluginHasControls, RateLimited, AutomaticRefreshIsRight, PTL
=============================================================================
