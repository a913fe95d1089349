----------------------------- MODULE MCScreens -----------------------------
(***************************************************************************)
(* What the devices display: the use cases of the touch devices and of the *)
(* button devices, the flows of the older applications, and the pages with *)
(* their touchable controls.  A behaviour is one of "device", and the      *)
(* others stay in their initial state.                                     *)
(***************************************************************************)
EXTENDS NbglReview, NbglNano, UxFlow

CONSTANTS LAYOUT_OBJ_POOL_LEN, HOLD_TO_APPROVE_STEP_PERCENT, HOLD_TO_APPROVE_FIRST_STEP, MaxHold,
          BackPages, OverPages

VARIABLES device, gui

P == INSTANCE NbglPage

-----------------------------------------------------------------------------
(* Touch devices: pairs of every kind, lists that end at a page's end *)

E1 == Element(1)
E2 == Element(2)
TextAlias == [Element(1) EXCEPT !.alias = "text"]
ListAlias == [Element(1) EXCEPT !.alias = "list"]
LongValue == [Element(1) EXCEPT !.long = TRUE]
CenteredPair == [Element(1) EXCEPT !.center = TRUE]
ForcedPage == [Element(1) EXCEPT !.force = TRUE]

MCTagLists == {<<E1, E2, E1, ListAlias, LongValue>>, <<E2, CenteredPair, TextAlias, ForcedPage, E1>>}
MCExtraLists == {<<>>, <<TextAlias>>, <<E1, E1, TextAlias>>}
MCSettings == {<<Pairs("SWITCHES_LIST", <<E1, E2, E1>>, FALSE), Pairs("INFOS_LIST", <<E1, E1, E1>>, FALSE)>>}
MCOperations == {{}, {"SKIPPABLE"}, {"BLIND"}}
MCWarnings == {[set |-> s, prelude |-> p] : s \in {{}, {"RISK", "BLIND"}, {"NO_THREAT"}}, p \in BOOLEAN}

(* Button devices: values of one and two pages, aliases, every content *)

Text(n) == [n |-> n, alias |-> "none", m |-> 0, center |-> FALSE]
MCNanoPairs ==
    {<<Text(2), [Text(1) EXCEPT !.alias = "list", !.m = 2]>>,
     <<[Text(1) EXCEPT !.center = TRUE], [Text(1) EXCEPT !.alias = "ens", !.m = 1]>>}
Content(type, n) == [type |-> type, n |-> n]
MCNanoContents ==
    {<<Content("INFO_BUTTON", 1), Content("TAG_VALUE_CONFIRM", 2)>>,
     <<Content("SWITCHES_LIST", 2), Content("CHOICES_LIST", 2)>>,
     <<Content("CENTERED_INFO", 1), Content("VERTICAL_LIST", 2)>>}
Warned(blind, info, prelude, intro) ==
    [blind |-> blind, info |-> info, prelude |-> prelude, intro |-> intro,
     bars |-> IF intro = "bars" THEN 2 ELSE 0]
MCNanoWarnings ==
    {Warned(TRUE, FALSE, FALSE, "none"), Warned(TRUE, FALSE, TRUE, "none"),
     Warned(FALSE, TRUE, TRUE, "centered"), Warned(FALSE, TRUE, FALSE, "bars"),
     Warned(FALSE, FALSE, FALSE, "none")}

(* Flows: loops, barriers, texts of several pages, errors, steps that time out *)

UxStep(kind, text, valid, error, to, timeout) ==
    [kind |-> kind, text |-> text, valid |-> valid, error |-> error, to |-> to, timeout |-> timeout]
Nowhere == <<"none", "none">>
Plain(valid) == UxStep("layout", <<>>, valid, "none", Nowhere, 0)
Paged(text, error) == UxStep("paging", text, "none", error, Nowhere, 0)
MCUxSteps ==
    [a |-> Paged(<<"x", "x", " ", "x", "x", "x", "n", "x">>, "oops"),
     b |-> Plain("sign"), c |-> Plain("none"),
     d |-> Paged(<<"x", "x", "x", "x", "x", " ", "x", " ", "x", "x">>, "none"),
     s1 |-> Paged(<<>>, "oops"), s2 |-> Plain("none"), ok |-> Plain("pin"),
     back |-> UxStep("jump", <<>>, "none", "none", <<"main", "c">>, 0),
     ask |-> UxStep("pin", <<>>, "none", "none", Nowhere, 0),
     done |-> UxStep("layout", <<>>, "list", "none", Nowhere, 2),
     m1 |-> Plain("none"), m2 |-> Plain("none"), m3 |-> Plain("none"),
     li |-> UxStep("list", <<>>, "none", "none", Nowhere, 0), c2 |-> Plain("list")]
MCUxFlows ==
    [main |-> <<"a", "b", "c", "d", "LOOP">>,
     sign |-> <<"s1", "s2", "BARRIER", "BARRIER", "ok", "back">>,
     pin |-> <<"ask", "done">>, modal |-> <<"m1", "BARRIER", "m2">>, list |-> <<"li">>,
     oops |-> <<"c2">>]

(* Pages: every draw function and content, more controls than the pool has *)

InfoPage(swipeable, tap, right, action, footer, bottom) ==
    [draw |-> "info", swipeable |-> swipeable, tap |-> tap, right |-> right, action |-> action,
     footer |-> footer, bottom |-> bottom]
GenericPage(nav, content) == [draw |-> "generic", nav |-> nav, content |-> content]
NavNone ==
    [type |-> "none", next |-> "none", skip |-> FALSE, progress |-> FALSE, back |-> FALSE,
     quit |-> FALSE, exit |-> FALSE, active |-> 0, nb |-> 1]
NavButtons == [NavNone EXCEPT !.type = "buttons", !.nb = 3, !.back = TRUE]
NavTap == [NavNone EXCEPT !.type = "tap", !.next = "text"]
Of(type) ==
    [type |-> type, title |-> FALSE, right |-> FALSE, icons |-> <<>>, n |-> 0, init |-> 0,
     details |-> "none", confirm |-> FALSE, tip |-> FALSE]
MCBackPages ==
    {InfoPage(TRUE, "text", TRUE, TRUE, FALSE, "ICON"), InfoPage(FALSE, "text", FALSE, FALSE, TRUE, "none"),
     InfoPage(FALSE, "none", TRUE, TRUE, FALSE, "QUIT_APP_TEXT"),
     InfoPage(FALSE, "empty", FALSE, FALSE, FALSE, "QUIT_APP_TEXT"),
     [draw |-> "ledgerInfo"], [draw |-> "spinner"], [draw |-> "confirmation"],
     GenericPage([NavTap EXCEPT !.skip = TRUE, !.progress = TRUE, !.back = TRUE, !.nb = 2],
                 Of("CENTERED_INFO")),
     GenericPage(NavTap, [Of("EXTENDED_CENTER") EXCEPT !.tip = TRUE]),
     GenericPage([NavButtons EXCEPT !.exit = TRUE], [Of("SWITCHES_LIST") EXCEPT !.n = 2, !.title = TRUE]),
     GenericPage([NavButtons EXCEPT !.quit = TRUE, !.skip = TRUE, !.active = 1],
                 [Of("TAG_VALUE_LIST") EXCEPT !.icons = <<FALSE, TRUE, TRUE>>]),
     GenericPage([NavButtons EXCEPT !.progress = TRUE, !.quit = TRUE, !.nb = 1],
                 [Of("TAG_VALUE_DETAILS") EXCEPT !.icons = <<TRUE>>]),
     GenericPage([NavButtons EXCEPT !.quit = TRUE],
                 [Of("TAG_VALUE_CONFIRM") EXCEPT !.icons = <<FALSE>>, !.details = "icon", !.confirm = TRUE]),
     GenericPage([NavButtons EXCEPT !.nb = 2, !.active = 1],
                 [Of("TAG_VALUE_CONFIRM") EXCEPT !.icons = <<FALSE, TRUE>>, !.details = "text", !.confirm = TRUE]),
     GenericPage(NavButtons, [Of("INFO_BUTTON") EXCEPT !.right = TRUE]),
     GenericPage(NavButtons, Of("INFO_LONG_PRESS")),
     GenericPage([NavButtons EXCEPT !.nb = 1], [Of("BARS_LIST") EXCEPT !.n = 6]),
     GenericPage(NavNone, [Of("INFOS_LIST") EXCEPT !.icons = <<FALSE, TRUE, TRUE>>]),
     GenericPage(NavNone, [Of("CHOICES_LIST") EXCEPT !.n = 3, !.init = 1, !.title = TRUE])}
MCOverPages ==
    {GenericPage([NavButtons EXCEPT !.nb = 2, !.exit = TRUE], Of("CENTERED_INFO")),
     GenericPage(NavNone, [Of("CHOICES_LIST") EXCEPT !.n = 2])}

-----------------------------------------------------------------------------
(* One device at a time *)

Parts == {"touch", "buttons", "flows", "pages"}

Init ==
    /\ device \in Parts
    /\ ReviewInit /\ NanoInit /\ P!PageInit
    /\ UxInit /\ (device # "flows" => ux.before)

Alone ==
    /\ UNCHANGED device
    /\ IF device = "touch" THEN TRUE ELSE UNCHANGED reviewVars
    /\ IF device = "buttons" THEN TRUE ELSE UNCHANGED nanoVars
    /\ IF device = "flows" THEN TRUE ELSE UNCHANGED uxVars
    /\ IF device = "pages" THEN TRUE ELSE UNCHANGED gui

Next ==
    \/ device = "touch" /\ ReviewNext /\ Alone
    \/ device = "buttons" /\ NanoNext /\ Alone
    \/ device = "flows" /\ UxNext /\ Alone
    \/ device = "pages" /\ P!PageNext /\ Alone

vars == <<device, reviewVars, nanoVars, uxVars, gui>>

Spec == Init /\ [][Next]_vars

=============================================================================
