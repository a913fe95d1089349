------------------------------ MODULE NbglPage ------------------------------
(***************************************************************************)
(* The pages of the touch devices (lib_nbgl/src/nbgl_page.c): what each    *)
(* kind of page adds to its layout, and how the touches of a user reach    *)
(* the callback of the page, with modal pages over the background one.     *)
(***************************************************************************)
EXTENDS NbglLayout

CONSTANTS BackPages, OverPages, MaxHold

\* The screen, the last event of the user, how long the long-press button has
\* been touched (in steps) and the calls made since it is touched.
VARIABLE gui

pageVars == <<gui>>

-----------------------------------------------------------------------------
(* The contents of the generic pages *)

\* The description of a page without navigation, and of an empty content.
NoNav == [type |-> "none", next |-> "none", skip |-> FALSE, progress |-> FALSE, back |-> FALSE,
          quit |-> FALSE, exit |-> FALSE, active |-> 0, nb |-> 1]
NoContent == [type |-> "CENTERED_INFO", title |-> FALSE, right |-> FALSE, icons |-> <<>>, n |-> 0,
              init |-> 0, details |-> "none", confirm |-> FALSE, tip |-> FALSE]

\* The switches and the bars of a list have a token each.
TokenOf == <<"item1", "item2", "item3", "item4", "item5", "item6">>

Repeated(l, n, Op(_, _)) == FoldLeft(Op, l, [i \in 1 .. n |-> i])

Titled(l, c) ==
    IF c.title THEN nbgl_layoutAddHeader(l, BackControls(<<"title">>)) ELSE l
WithTopRight(l, c) == IF c.right THEN nbgl_layoutAddTopRightButton(l, "topRight") ELSE l

addEmptyHeader(l) == nbgl_layoutAddHeader(l, <<>>)
WithHeader(l, headerAdded) == IF headerAdded THEN l ELSE addEmptyHeader(l)

\* TAG_VALUE_CONFIRM: the details and the confirmation buttons.
ConfirmButtons(l, c) ==
    IF c.details = "icon" /\ c.confirm THEN nbgl_layoutAddHorizontalButtons(l, "details", "confirm")
    ELSE IF ~c.confirm
    THEN IF c.details = "text" THEN nbgl_layoutAddButton(l, "details", FALSE, TRUE) ELSE l
    ELSE nbgl_layoutAddButton(IF c.details = "text" THEN nbgl_layoutAddButton(l, "details", FALSE, TRUE)
                              ELSE l, "confirm", TRUE, FALSE)

Contents(l, c, headerAdded) ==
    CASE c.type = "INFO_LONG_PRESS" -> nbgl_layoutAddLongPressButton(AddUntouchable(l), "longPress")
      [] c.type = "INFO_BUTTON" -> nbgl_layoutAddButton(AddUntouchable(l), "button", TRUE, FALSE)
      [] c.type = "CENTERED_INFO" -> AddUntouchable(WithHeader(l, headerAdded))
      [] c.type = "EXTENDED_CENTER" ->
            IF c.tip
            THEN UpFooterContainer(AddUntouchable(WithHeader(l, headerAdded)), Touchable("tip", "tip", 0))
            ELSE AddUntouchable(WithHeader(l, headerAdded))
      [] c.type = "TAG_VALUE_LIST" ->
            nbgl_layoutAddTagValueList(WithHeader(l, headerAdded), "pairs", c.icons)
      [] c.type = "TAG_VALUE_DETAILS" ->
            nbgl_layoutAddButton(
                nbgl_layoutAddTagValueList(WithHeader(l, headerAdded), "pairs", c.icons),
                "details", FALSE, TRUE)
      [] c.type = "TAG_VALUE_CONFIRM" ->
            ConfirmButtons(nbgl_layoutAddTagValueList(WithHeader(l, headerAdded), "pairs", c.icons), c)
      [] c.type = "SWITCHES_LIST" ->
            Repeated(l, c.n, LAMBDA m, i : nbgl_layoutAddSwitch(m, TokenOf[i], c.init))
      [] c.type = "INFOS_LIST" ->
            Repeated(l, Len(c.icons),
                     LAMBDA m, i : IF c.icons[i] THEN nbgl_layoutAddTextWithAlias(m, "infos", i - 1)
                                   ELSE nbgl_layoutAddText(m))
      [] c.type = "CHOICES_LIST" -> nbgl_layoutAddRadioChoice(l, "choices", c.n, c.init)
      [] c.type = "BARS_LIST" ->
            Repeated(l, c.n, LAMBDA m, i : nbgl_layoutAddTouchableBar(m, TokenOf[i], FALSE))

addContent(l, c, headerAdded) ==
    Contents(WithTopRight(Titled(l, c), c), c, headerAdded \/ c.title)

-----------------------------------------------------------------------------
(* The pages *)

\* nbgl_pageDrawGenericContentExt
TapFooter(l, nav) ==
    IF nav.skip THEN PlainFooter(l, "DOUBLE_TEXT", <<Touchable("label", "quit", 0),
                                                     Touchable("label", "skip", 0)>>)
    ELSE PlainFooter(l, "SIMPLE_TEXT", <<Touchable("label", "quit", 0)>>)
TapNavigation(l, nav) ==
    IF nav.progress
    THEN nbgl_layoutAddProgressIndicator(TapFooter(l, nav), nav.active, nav.nb, nav.back, "back")
    ELSE TapFooter(l, nav)

SkipHeader(l, nav) ==
    IF nav.skip THEN nbgl_layoutAddHeader(l, <<Touchable("label", "skip", 0)>>) ELSE l
NavOf(nav) == [active |-> nav.active, nb |-> nav.nb, exit |-> nav.exit /\ ~nav.quit,
               back |-> nav.back, token |-> "nav"]
ButtonsFooter(l, nav) ==
    IF nav.nb > 1
    THEN IF nav.quit THEN TextAndNavFooter(l, "quit", NavOf(nav)) ELSE NavFooter(l, NavOf(nav))
    ELSE IF nav.quit THEN PlainFooter(l, "SIMPLE_TEXT", <<Touchable("label", "quit", 0)>>)
    ELSE l
ButtonsNavigation(l, nav) ==
    IF nav.progress
    THEN nbgl_layoutAddProgressIndicator(ButtonsFooter(SkipHeader(l, nav), nav),
                                         nav.active, nav.nb, FALSE, "none")
    ELSE ButtonsFooter(SkipHeader(l, nav), nav)

nbgl_pageDrawGenericContentExt(nav, content, modal) ==
    CASE nav.type = "tap" ->
            addContent(TapNavigation(NewLayout(modal, nav.next, "next"), nav), content, nav.progress)
      [] nav.type = "buttons" ->
            addContent(ButtonsNavigation(NewLayout(modal, "none", "none"), nav), content,
                       nav.skip \/ nav.progress)
      [] nav.type = "none" -> addContent(NewLayout(modal, "none", "none"), content, FALSE)

\* nbgl_pageDrawInfo
InfoStart(info) ==
    IF info.swipeable
    THEN addSwipeInternal(NewLayout(FALSE, "none", "none"), "CUSTOM", "tap")
    ELSE NewLayout(FALSE, info.tap, "tap")
InfoHeader(l, info) == IF info.right \/ info.tap = "text" THEN addEmptyHeader(l) ELSE l
InfoAction(l, info) ==
    IF info.action /\ info.bottom # "QUIT_APP_TEXT" THEN nbgl_layoutAddButton(l, "bottom", FALSE, TRUE)
    ELSE l
InfoFooter(l, info) ==
    IF info.footer THEN PlainFooter(l, "SIMPLE_TEXT", <<Touchable("label", "footer", 0)>>) ELSE l
InfoTopRight(l, info) == IF info.right THEN nbgl_layoutAddTopRightButton(l, "topRight") ELSE l
InfoBottom(l, info) ==
    IF info.bottom = "none" THEN l
    ELSE IF info.bottom = "ICON"
    THEN PlainFooter(l, "SIMPLE_BUTTON", <<Touchable("button", "bottom", 0)>>)
    ELSE IF info.action THEN PlainFooter(l, "CHOICE_BUTTONS", ChoiceButtons("bottom"))
    ELSE PlainFooter(l, "SIMPLE_TEXT", <<Touchable("label", "bottom", 0)>>)

nbgl_pageDrawInfo(info) ==
    InfoBottom(InfoTopRight(InfoFooter(InfoAction(AddUntouchable(InfoHeader(InfoStart(info), info)),
                                                  info), info), info), info)

nbgl_pageDrawLedgerInfo == AddUntouchable(NewLayout(FALSE, "empty", "tap"))

nbgl_pageDrawSpinner == AddUntouchable(NewLayout(FALSE, "none", "none"))

nbgl_pageDrawConfirmation(modal) ==
    AddUntouchable(PlainFooter(addEmptyHeader(NewLayout(modal, "none", "none")),
                               "CHOICE_BUTTONS", ChoiceButtons("confirmation")))

\* The layout of a page of the application.
Page(p, modal) ==
    CASE p.draw = "info" -> nbgl_pageDrawInfo(p)
      [] p.draw = "ledgerInfo" -> nbgl_pageDrawLedgerInfo
      [] p.draw = "spinner" -> nbgl_pageDrawSpinner
      [] p.draw = "confirmation" -> nbgl_pageDrawConfirmation(modal)
      [] p.draw = "generic" -> nbgl_pageDrawGenericContentExt(p.nav, p.content, modal)

-----------------------------------------------------------------------------
(* The application draws and releases pages; the user touches the screen   *)
(* that is on top (nbgl_touch.c and nbgl_screen.c, external).              *)

NoTouch == [layout |-> NULL, obj |-> 0, event |-> "none", was |-> 0]

PageInit == gui = [g |-> NoScreen, touch |-> NoTouch, hold |-> 0, fired |-> 0]

Drawn(g) == gui' = [g |-> [g EXCEPT !.call = NoCall], touch |-> NoTouch, hold |-> 0, fired |-> 0]

BackLayouts == {Page(p, FALSE) : p \in BackPages}
OverLayouts == {Page(p, TRUE) : p \in OverPages}

DrawBackground ==
    \E layout \in BackLayouts : Drawn(nbgl_layoutGet(gui.g, 0, layout))

DrawModal ==
    \E layout \in OverLayouts :
        /\ ChosenLayout(gui.g, TRUE) # NULL
        /\ Drawn(nbgl_layoutGet(gui.g, ChosenLayout(gui.g, TRUE), layout))

\* nbgl_pageRelease, of any page still in use.
nbgl_pageRelease ==
    \E l \in Layouts : /\ gui.g.lay[l].used
                       /\ Drawn(nbgl_layoutRelease(gui.g, l))

\* The layout of the screen on top, and the objects on it.
OnTop(g) == IF g.screens = <<>> THEN 0 ELSE Last(g.screens)
Roots(l) == {Main, l.header, l.footer, l.up, l.right} \ {0}
OnScreen(l) ==
    {o \in 1 .. Len(l.objs) :
        \/ o \in Roots(l)
        \/ l.objs[o].in \in Roots(l)
        \/ l.objs[o].in # 0 /\ l.objs[l.objs[o].in].in \in Roots(l)}

\* The application takes a page it was told to leave off the screen.
Left(l) == l.page = EXIT_PAGE

\* An event the object takes, "steps" after it began to be touched.
Event(l, obj, event, steps, hold) ==
    /\ obj \in OnScreen(gui.g.lay[l]) /\ event \in gui.g.lay[l].objs[obj].touch
    /\ ~Left(gui.g.lay[l])
    /\ \E g \in {touchCallback([gui.g EXCEPT !.call = NoCall], l, obj, event, steps)} :
          gui' = [g |-> g, hold |-> hold,
                  touch |-> [layout |-> l, obj |-> obj, event |-> event, was |-> gui.g.lay[l].page],
                  fired |-> IF hold = 0 THEN 0
                            ELSE gui.fired + (IF g.call = NoCall THEN 0 ELSE 1)]

Touch ==
    /\ gui.hold = 0
    /\ \E obj \in 1 .. Len(gui.g.lay[OnTop(gui.g)].objs), event \in {"TOUCHED"} \cup Swipes :
          Event(OnTop(gui.g), obj, event, 0, 0)

Hold ==
    /\ gui.hold < MaxHold
    /\ \E obj \in 1 .. Len(gui.g.lay[OnTop(gui.g)].objs) :
          Event(OnTop(gui.g), obj, "TOUCHING", gui.hold, gui.hold + 1)

LetGo ==
    /\ gui.hold > 0
    /\ \E obj \in 1 .. Len(gui.g.lay[OnTop(gui.g)].objs), event \in {"TOUCH_RELEASED", "OUT_OF_TOUCH"} :
          Event(OnTop(gui.g), obj, event, 0, 0)

PageNext == DrawBackground \/ DrawModal \/ nbgl_pageRelease \/ Touch \/ Hold \/ LetGo

PageSpec == PageInit /\ [][PageNext]_pageVars

-----------------------------------------------------------------------------
(* Properties *)

\* The links between the layouts follow the stack of screens.
LinksFollowScreens ==
    \A i \in 1 .. Len(gui.g.screens) :
        /\ gui.g.lay[gui.g.screens[i]].used
        /\ gui.g.lay[gui.g.screens[i]].bottom = IF i = 1 THEN 0 ELSE gui.g.screens[i - 1]
        /\ i < Len(gui.g.screens) => gui.g.lay[gui.g.screens[i]].top = gui.g.screens[i + 1]

\* The index a touched control must be reported with.
Reported(l, o, event, was) ==
    CASE o.kind \in {"exit", "previous", "next"} -> l.page
      [] o.kind = "container" /\ event \in Swipes -> IF l.swipe = "CUSTOM" THEN EventCode(event) ELSE l.page
      [] o.kind = "switch" -> o.state
      [] OTHER -> o.index

\* Whether the touch must be reported.
MustReport(l, o, event, was) ==
    CASE o.kind \in {"exit", "previous", "next"} \/ (event \in Swipes /\ l.swipe = "NAVIGATION") ->
            l.page # was
      [] o.kind = "longPress" -> FALSE
      [] OTHER -> o.token # NBGL_INVALID_TOKEN

ReportedRight(t, l, o) ==
    /\ gui.g.call = NoCall => ~MustReport(l, o, t.event, t.was)
    /\ gui.g.call # NoCall =>
          gui.g.call = [layout |-> t.layout, obj |-> t.obj, token |-> o.token,
                        index |-> Reported(l, o, t.event, t.was)]
    /\ l.page = EXIT_PAGE \/ l.page < l.nb \/ l.page = 0
    /\ o.kind = "radio" => \A p \in DOMAIN l.objs : l.objs[p].kind = "radio" =>
                                                      (l.objs[p].state = 1 <=> p = t.obj)


=============================================================================
