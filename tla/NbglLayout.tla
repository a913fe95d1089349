----------------------------- MODULE NbglLayout -----------------------------
(***************************************************************************)
(* The layouts of the touch devices (lib_nbgl/src/nbgl_layout.c and        *)
(* nbgl_layout_navigation.c), as operators on a screen g:                  *)
(*   g.lay      gLayout: the background layout 0 and two modal ones        *)
(*   g.top      topLayout                                                  *)
(*   g.screens  the stack of the screens, which nbgl_screen.c keeps        *)
(*   g.call     the last call of a layout's callback                       *)
(* A layout has the objects allocated for it, of which a touch needs the   *)
(* kind, the parent ("in"), the events it takes and, for a control that    *)
(* has one, its state; its callbackObjPool; and the containers linked to   *)
(* its screen.  Positions, sizes, colours and texts are left out.  An      *)
(* object also remembers the token and the index it was described with,    *)
(* which the code has only in the pool.  The build is the one for Stax.    *)
(***************************************************************************)
EXTENDS Integers, Sequences, FiniteSets, SequencesExt

CONSTANTS LAYOUT_OBJ_POOL_LEN, HOLD_TO_APPROVE_STEP_PERCENT, HOLD_TO_APPROVE_FIRST_STEP

NB_MAX_LAYOUTS == 3
EXIT_PAGE == 255
NBGL_INVALID_TOKEN == "invalid"
NULL == -1

Layouts == 0 .. NB_MAX_LAYOUTS - 1
Swipes == {"SWIPED_LEFT", "SWIPED_RIGHT"}
EventCode(swipe) == IF swipe = "SWIPED_RIGHT" THEN 7 ELSE 8

\* The main container is the first object of a layout.
Main == 1

\* A control: what it is, the events it takes, its token, its index, its state.
Ctrl(kind, touch, token, index, state) ==
    [kind |-> kind, in |-> 0, touch |-> touch, token |-> token, index |-> index, state |-> state]
Touchable(kind, token, index) == Ctrl(kind, {"TOUCHED"}, token, index, 0)
Container == Ctrl("container", {}, NBGL_INVALID_TOKEN, 0, 0)

NoLayout == [used |-> FALSE, modal |-> FALSE, top |-> NULL, bottom |-> NULL, objs |-> <<>>,
             pool |-> <<>>, header |-> 0, hasFooter |-> FALSE, footer |-> 0, footerType |-> "EMPTY",
             up |-> 0, right |-> 0, swipe |-> "NAVIGATION", page |-> 0, nb |-> 0]

NoCall == [layout |-> NULL, obj |-> 0, token |-> NBGL_INVALID_TOKEN, index |-> 0]

NoScreen == [lay |-> [l \in Layouts |-> NoLayout], top |-> NULL, screens |-> <<>>, call |-> NoCall]

-----------------------------------------------------------------------------
(* Adding objects to a layout l *)

Put(l, ctrl, in) == [l EXCEPT !.objs = Append(@, [ctrl EXCEPT !.in = in])]
Newest(l) == Len(l.objs)

Fits(l, n) == Len(l.pool) + n < LAYOUT_OBJ_POOL_LEN

\* layoutAddCallbackObj keeps the last place of the pool free.
layoutAddCallbackObj(l, obj, token, index) ==
    IF ~Fits(l, 1) THEN l
    ELSE [l EXCEPT !.pool = Append(@, [obj |-> obj, token |-> token, index |-> index])]

\* A control in a container, or in the main one (layoutAddObject): none of it
\* is there if the pool is full.
Control(l, ctrl, in) ==
    IF ~Fits(l, 1) THEN l
    ELSE layoutAddCallbackObj(Put(l, ctrl, in), Newest(l) + 1, ctrl.token, ctrl.index)

Controls(l, ctrls, in) == FoldLeft(LAMBDA m, c : Control(m, c, in), l, ctrls)

\* addSwipeInternal
addSwipeInternal(l, usage, token) ==
    IF ~Fits(l, 1) THEN l
    ELSE [layoutAddCallbackObj(l, Main, token, 0)
             EXCEPT !.objs[Main].touch = Swipes, !.objs[Main].token = token, !.swipe = usage]

\* addListItem, for a bar that is touchable when active, a switch, or a text.
nbgl_layoutAddTouchableBar(l, token, inactive) ==
    Control(l, Ctrl("bar", IF inactive THEN {} ELSE {"TOUCHED"}, token, 0, 0), Main)
nbgl_layoutAddSwitch(l, token, initState) ==
    Control(l, Ctrl("switch", {"TOUCHED"}, token, 0, initState), Main)
nbgl_layoutAddText(l) == Control(l, Ctrl("text", {}, NBGL_INVALID_TOKEN, 0, 0), Main)
nbgl_layoutAddTextWithAlias(l, token, index) == Control(l, Touchable("bar", token, index), Main)

\* nbgl_layoutAddRadioChoice: one choice after the other, until the pool is full.
nbgl_layoutAddRadioChoice(l, token, nbChoices, initChoice) ==
    Controls(l, [i \in 1 .. nbChoices |->
                    Ctrl("radio", {"TOUCHED"}, token, i - 1, IF i - 1 = initChoice THEN 1 ELSE 0)], Main)

\* nbgl_layoutAddTagValueList: the pairs with an icon or an alias are touchable.
nbgl_layoutAddTagValueList(l, token, icons) ==
    FoldLeft(LAMBDA m, i : IF icons[i] THEN Control(m, Touchable("pair", token, i - 1), Main)
                           ELSE Put(m, Container, Main),
             l, [i \in 1 .. Len(icons) |-> i])

\* nbgl_layoutAddCenteredInfo, ...ContentCenter, ...Spinner, ...Separation line
\* and the other objects nothing can touch.
AddUntouchable(l) == Put(l, Container, Main)

nbgl_layoutAddTopRightButton(l, token) ==
    IF ~Fits(l, 1) THEN l
    ELSE [Control(l, Touchable("button", token, 0), 0) EXCEPT !.right = Newest(l) + 1]

-----------------------------------------------------------------------------
(* Headers and footers: a container and the controls in it, linked to the  *)
(* screen if the pool had room for all of them.  An error leaves the       *)
(* controls added before it in the pool.                                   *)

nbgl_layoutAddHeader(l, ctrls) ==
    IF ~Fits(l, Len(ctrls)) THEN Controls(Put(l, Container, 0), ctrls, Newest(l) + 1)
    ELSE [Controls(Put(l, Container, 0), ctrls, Newest(l) + 1) EXCEPT !.header = Newest(l) + 1]

\* HEADER_BACK_AND_TEXT and HEADER_EXTENDED_BACK have a control per valid token.
BackControls(tokens) ==
    [i \in 1 .. Len(SelectSeq(tokens, LAMBDA t : t # NBGL_INVALID_TOKEN)) |->
        Touchable("button", SelectSeq(tokens, LAMBDA t : t # NBGL_INVALID_TOKEN)[i], 0)]

\* HEADER_BACK_AND_PROGRESS, on Stax.
nbgl_layoutAddProgressIndicator(l, activePage, nbPages, withBack, backToken) ==
    IF withBack /\ ~Fits(l, 1) THEN Put(l, Container, 0)
    ELSE [nbgl_layoutAddHeader(l, IF withBack THEN <<Touchable("button", backToken, 0)>> ELSE <<>>)
             EXCEPT !.page = activePage, !.nb = nbPages]

\* layoutNavigationPopulate: the buttons are not in the pool, their container is.
layoutNavigationPopulate(l, nav, withExitKey, withBackKey) ==
    FoldLeft(LAMBDA m, kind : Put(m, Touchable(kind, l.objs[nav].token, 0), nav), l,
             (IF withExitKey THEN <<"exit">> ELSE <<>>)
             \o (IF withBackKey THEN <<"previous">> ELSE <<>>) \o <<"next">>)

Footer(l, type, id) == [l EXCEPT !.footer = id, !.footerType = type]

\* nbgl_layoutAddExtendedFooter, for the footers without navigation.
PlainFooter(l, type, ctrls) ==
    IF ~Fits(l, Len(ctrls)) THEN Controls([Put(l, Container, 0) EXCEPT !.hasFooter = TRUE],
                                          ctrls, Newest(l) + 1)
    ELSE Footer(Controls([Put(l, Container, 0) EXCEPT !.hasFooter = TRUE], ctrls, Newest(l) + 1),
                type, Newest(l) + 1)

\* The index of the bottom button is 1, the one of the top button 0.
ChoiceButtons(token) == <<Touchable("button", token, 1), Touchable("button", token, 0)>>

\* FOOTER_NAV: the footer is the navigation container.  The swipes are for the
\* navigation too, if there is a place left for them.
Navigation(l, id, nav) ==
    addSwipeInternal(
        [layoutAddCallbackObj(layoutNavigationPopulate(l, id, nav.exit, nav.back), id, nav.token, 0)
            EXCEPT !.page = nav.active, !.nb = nav.nb], "NAVIGATION", nav.token)

NavBar(token) == Ctrl("nav", {}, token, 0, 0)

NavFooter(l, nav) ==
    IF ~Fits(l, 1) THEN [Put(l, NavBar(nav.token), 0) EXCEPT !.hasFooter = TRUE]
    ELSE Footer(Navigation([Put(l, NavBar(nav.token), 0) EXCEPT !.hasFooter = TRUE],
                           Newest(l) + 1, nav), "NAV", Newest(l) + 1)

\* FOOTER_TEXT_AND_NAV: a touchable text, and the navigation container.
TextAndNavFooter(l, token, nav) ==
    IF ~Fits(l, 2) THEN [Control(Put(l, Container, 0), Touchable("label", token, 0), Newest(l) + 1)
                            EXCEPT !.hasFooter = TRUE]
    ELSE Footer(Navigation(Put(Control([Put(l, Container, 0) EXCEPT !.hasFooter = TRUE],
                                       Touchable("label", token, 0), Newest(l) + 1),
                               NavBar(nav.token), Newest(l) + 1),
                           Newest(l) + 3, nav), "TEXT_AND_NAV", Newest(l) + 1)

\* nbgl_layoutAddUpFooter: the container itself is touchable, or the buttons in it.
UpFooterContainer(l, ctrl) ==
    IF ~Fits(l, 1) THEN l ELSE [Control(l, ctrl, 0) EXCEPT !.up = Newest(l) + 1]

UpFooterButtons(l, ctrls) ==
    IF ~Fits(l, Len(ctrls)) THEN Controls(Put(l, Container, 0), ctrls, Newest(l) + 1)
    ELSE [Controls(Put(l, Container, 0), ctrls, Newest(l) + 1) EXCEPT !.up = Newest(l) + 1]

LongPress(token) ==
    Ctrl("longPress", {"TOUCHING", "TOUCH_RELEASED", "OUT_OF_TOUCH"} \cup Swipes, token, 0, 0)

nbgl_layoutAddLongPressButton(l, token) == UpFooterContainer(l, LongPress(token))

\* nbgl_layoutAddHorizontalButtons: the left button has index 1.
nbgl_layoutAddHorizontalButtons(l, leftToken, rightToken) ==
    UpFooterButtons(l, <<Touchable("button", leftToken, 1), Touchable("button", rightToken, 0)>>)

\* nbgl_layoutAddButton: a button at the bottom is a footer, or on top of it.
nbgl_layoutAddButton(l, token, onBottom, fittingContent) ==
    IF onBottom /\ ~fittingContent
    THEN IF ~l.hasFooter THEN PlainFooter(l, "SIMPLE_BUTTON", <<Touchable("button", token, 0)>>)
         ELSE UpFooterButtons(l, <<Touchable("button", token, 0)>>)
    ELSE Control(l, Touchable("button", token, 0), Main)

-----------------------------------------------------------------------------
(* Getting and releasing layouts *)

\* nbgl_layoutGet: the last free modal layout; -1 if there is none.
FreeModals(g) == {l \in Layouts \ {0} : ~g.lay[l].used}
ChosenLayout(g, modal) ==
    IF ~modal THEN 0
    ELSE IF FreeModals(g) = {} THEN NULL
    ELSE CHOOSE l \in FreeModals(g) : \A m \in FreeModals(g) : m <= l

\* A new layout, tappable anywhere if there is a tap text.
Tapped(l, tapText, token) ==
    IF tapText = "none" THEN l
    ELSE [layoutAddCallbackObj(l, Main, token, 0)
             EXCEPT !.objs[Main].touch = {"TOUCHED"}, !.objs[Main].token = token]
TapText(l, tapText, token) ==
    IF tapText = "text" THEN UpFooterContainer(l, Touchable("tap", token, 0)) ELSE l
NewLayout(modal, tapText, token) ==
    TapText(Tapped(Put([NoLayout EXCEPT !.used = TRUE, !.modal = modal], Container, 0), tapText, token),
            tapText, token)

PushedOn(g, l, under) ==
    [g EXCEPT !.lay[under].top = l, !.lay[l].bottom = under, !.top = l, !.screens = Append(@, l)]

\* The links of the layout: a modal one goes on the top one or on the
\* background, the background keeps what is on top of it.
Linked(g, l, new) ==
    IF l # 0 THEN PushedOn([g EXCEPT !.lay[l] = new], l, IF g.top # NULL THEN g.top ELSE 0)
    ELSE [g EXCEPT !.lay[0] = [new EXCEPT !.top = g.lay[0].top],
                   !.top = IF g.top = NULL THEN 0 ELSE @]

nbgl_layoutGet(g, l, new) == Linked(g, l, new)

Unlinked(g, l) ==
    IF l = g.top THEN [g EXCEPT !.top = g.lay[l].bottom, !.lay[g.lay[l].bottom].top = NULL]
    ELSE [g EXCEPT !.lay[g.lay[l].bottom].top = g.lay[l].top,
                   !.lay[g.lay[l].top].bottom = g.lay[l].bottom]

\* The screen of the background stays; what a modal layout keeps is not read
\* before nbgl_layoutGet clears it.
Freed(g, l) ==
    IF g.lay[l].modal THEN [g EXCEPT !.lay[l] = NoLayout] ELSE [g EXCEPT !.lay[l].used = FALSE]

nbgl_layoutRelease(g, l) ==
    IF ~g.lay[l].used THEN g
    ELSE IF g.lay[l].modal
    THEN Freed([Unlinked(g, l) EXCEPT !.screens = SelectSeq(@, LAMBDA s : s # l)], l)
    ELSE Freed(g, l)

-----------------------------------------------------------------------------
(* Touches *)

\* getLayoutAndLayoutObj: the place of the object in the pool of the top layout.
Places(g, obj) == {j \in 1 .. Len(g.lay[g.top].pool) : g.lay[g.top].pool[j].obj = obj}
getLayoutAndLayoutObj(g, obj) ==
    IF g.top = NULL \/ ~g.lay[g.top].used \/ Places(g, obj) = {} THEN 0
    ELSE CHOOSE j \in Places(g, obj) : \A k \in Places(g, obj) : j <= k

\* layoutNavigationCallback: the page the event leads to, or the same one.
layoutNavigationCallback(l, kind, event) ==
    IF event = "TOUCHED" /\ kind = "exit" THEN EXIT_PAGE
    ELSE IF (event = "TOUCHED" /\ kind = "previous") \/ event = "SWIPED_RIGHT"
    THEN IF l.page > 0 THEN l.page - 1 ELSE l.page
    ELSE IF (event = "TOUCHED" /\ kind = "next") \/ event = "SWIPED_LEFT"
    THEN IF l.nb >= 2 /\ l.page < l.nb - 1 THEN l.page + 1 ELSE l.page
    ELSE l.page

Called(g, obj, token, index) ==
    [g EXCEPT !.call = [layout |-> g.top, obj |-> obj, token |-> token, index |-> index]]
Calling(g, obj, token, index) ==
    IF token = NBGL_INVALID_TOKEN THEN g ELSE Called(g, obj, token, index)

\* The callback of place j of the pool, with an index that is set at every touch.
WithIndex(g, obj, j, index) == Calling(g, obj, g.lay[g.top].pool[j].token, index)

Navigated(g, obj, j, page) ==
    IF page = g.lay[g.top].page THEN g
    ELSE WithIndex([g EXCEPT !.lay[g.top].page = page], obj, j, page)

Switched(g, obj, j) ==
    WithIndex([g EXCEPT !.lay[g.top].objs[obj].state = 1 - @], obj, j,
              1 - g.lay[g.top].objs[obj].state)

\* radioTouchCallback: the touched one on and the others off; the index is the
\* number of the radio buttons before it in the pool.
IsRadio(l, j) == l.objs[l.pool[j].obj].kind = "radio"
RadioIndex(l, j) == Cardinality({k \in 1 .. j - 1 : IsRadio(l, k)})
radioTouchCallback(g, obj, j) ==
    Called([g EXCEPT !.lay[g.top].objs =
               [o \in DOMAIN @ |-> IF @[o].kind # "radio" THEN @[o]
                                   ELSE [@[o] EXCEPT !.state = IF o = obj THEN 1 ELSE 0]]],
           obj, g.lay[g.top].pool[j].token, RadioIndex(g.lay[g.top], j))

\* get_hold_to_approve_percent, in steps of HOLD_TO_APPROVE_STEP_DURATION_MS.
get_hold_to_approve_percent(steps) ==
    (((steps + HOLD_TO_APPROVE_FIRST_STEP) % 256) * HOLD_TO_APPROVE_STEP_PERCENT) % 256

Capped(percent) == IF percent >= 100 THEN 100 ELSE percent

\* longTouchCallback: "steps" is how long the button has been touched.
Progressed(g, obj, j, percent) ==
    IF percent >= 100 /\ g.lay[g.top].objs[obj].state < 100
    THEN Called([g EXCEPT !.lay[g.top].objs[obj].state = 100], obj, g.lay[g.top].pool[j].token,
                g.lay[g.top].pool[j].index)
    ELSE [g EXCEPT !.lay[g.top].objs[obj].state = Capped(percent)]

longTouchCallback(g, obj, j, event, steps) ==
    IF event = "TOUCHING" THEN Progressed(g, obj, j, get_hold_to_approve_percent(steps))
    ELSE [g EXCEPT !.lay[g.top].objs[obj].state = 0]

\* touchCallback, once the object or its parent is found at place j.
IsNavButton(l, obj) ==
    \/ l.footerType = "NAV" /\ l.objs[obj].in = l.footer /\ l.footer # 0
    \/ /\ l.footerType = "TEXT_AND_NAV" /\ l.objs[obj].in # 0
       /\ l.objs[l.objs[obj].in].in = l.footer

Touched(g, l, obj, j, event, steps) ==
    IF event \in Swipes /\ obj = Main /\ l.swipe = "CUSTOM"
    THEN WithIndex(g, obj, j, EventCode(event))
    ELSE IF event \in Swipes /\ obj = Main
    THEN IF l.footerType \in {"NAV", "TEXT_AND_NAV"}
         THEN Navigated(g, obj, j, layoutNavigationCallback(l, "swipe", event)) ELSE g
    ELSE IF IsNavButton(l, obj)
    THEN Navigated(g, obj, j, layoutNavigationCallback(l, l.objs[obj].kind, event))
    ELSE IF l.objs[obj].kind = "switch" THEN Switched(g, obj, j)
    ELSE IF l.objs[obj].kind = "radio" THEN radioTouchCallback(g, obj, j)
    ELSE IF l.objs[obj].kind = "longPress" THEN longTouchCallback(g, obj, j, event, steps)
    ELSE Calling(g, obj, l.pool[j].token, l.pool[j].index)

At(g, obj, j, event, steps) == IF j = 0 THEN g ELSE Touched(g, g.lay[g.top], obj, j, event, steps)

touchCallback(g, s, obj, event, steps) ==
    At(g, obj, IF getLayoutAndLayoutObj(g, obj) # 0 THEN getLayoutAndLayoutObj(g, obj)
               ELSE getLayoutAndLayoutObj(g, g.lay[s].objs[obj].in), event, steps)

=============================================================================
