------------------------------ MODULE NbglNano ------------------------------
(***************************************************************************)
(* The use cases of the button devices                                     *)
(* (lib_nbgl/src/nbgl_use_case_nanos.c) and the flows of                   *)
(* lib_nbgl/src/nbgl_flow.c, on the steps of NbglStep.  The application    *)
(* starts a use case, the user presses left, right or both buttons, and    *)
(* the application is called back.                                         *)
(*                                                                         *)
(* A tag/value pair is [n |-> pages of its text, alias |-> "none", "ens"   *)
(* or "list", m |-> pages of the full value or pairs of the list,          *)
(* center |-> shown as a centered info].  The warnings are those the Nano  *)
(* supports: blind signing, information, prelude, or none to display.      *)
(***************************************************************************)
EXTENDS NbglStep, FiniteSets

CONSTANTS
    NanoPairs,      \* lists of tag/value pairs an application reviews
    NanoContents,   \* lists of contents [type, n] of settings and generic pages
    NanoWarnings,   \* warnings [blind, info, prelude, intro, bars]
    MaxSets,        \* sets of pairs of a streaming review
    MaxNanoUses     \* use cases and flows started in one behaviour

VARIABLES
    nanoCtx,      \* context
    warnCtx,      \* reviewWithWarnCtx
    nanoDisplay,  \* the layouts and the steps
    nanoCall,     \* the use case in progress, as the application sees it
    flows,        \* the flow contexts
    nanoUses      \* use cases started

nanoVars == <<nanoCtx, warnCtx, nanoDisplay, nanoCall, flows, nanoUses>>

World == [c |-> nanoCtx, k |-> warnCtx, d |-> nanoDisplay, a |-> nanoCall, f |-> flows]
\* The pages shown are kept as far as the use case has to show them.
Becomes(w) ==
    /\ nanoCtx' = w.c /\ warnCtx' = w.k /\ nanoCall' = w.a /\ flows' = w.f
    /\ nanoDisplay' = [w.d EXCEPT !.shown = @ \cap (w.a.must \cup w.a.pairs)]

NoHome == [action |-> FALSE, settings |-> FALSE, infos |-> 0]
NoContext ==
    [type |-> "NONE", nb |-> 0, cur |-> 0, first |-> 0, cb |-> "none", skippable |-> FALSE,
     pairs |-> <<>>, sub |-> FALSE, addr |-> FALSE, skipDisplay |-> FALSE, dir |-> "fwd",
     sets |-> 0, skipCb |-> FALSE, tvi |-> 0, extPage |-> 0, extNb |-> 0, ext |-> 0,
     step |-> 0, contents |-> <<>>, home |-> NoHome, intro |-> 0, bars |-> 0,
     len |-> 0, min |-> 0, max |-> 0, back |-> FALSE, valid |-> FALSE, dots |-> {},
     words |-> FALSE]
NoWarnCtx ==
    [type |-> "NONE", blind |-> FALSE, info |-> FALSE, prelude |-> FALSE, intro |-> "none",
     bars |-> 0, page |-> 0, nb |-> 0, first |-> 0, pairs |-> <<>>, sub |-> FALSE,
     skippable |-> FALSE]
NoFlow == [step |-> 0, cur |-> 0, nb |-> 0, loop |-> FALSE, modal |-> FALSE]

\* What the application keeps: the pages the user has to see before an
\* approval, and the callback it has been called with.
NewCall(kind, must, pairs) ==
    [kind |-> kind, must |-> must, pairs |-> pairs, skipped |-> FALSE, risk |-> FALSE,
     accepted |-> FALSE, told |-> "none", idle |-> FALSE]

\* The application is called back.
Told(w, what) == [w EXCEPT !.a.told = what]

-----------------------------------------------------------------------------
(* Drawing a step of the use case *)

FlowPage(what, n, kind) == [what |-> what, n |-> n, kind |-> kind]
Info(what) == FlowPage(<<what, 0>>, 1, "info")

Arrows(c) ==
    GET_POS_OF_STEP(c.cur, c.nb)
    \cup (IF c.type = "STREAMING_CONTINUE" /\ c.skipCb /\ c.sets > 1 THEN LAST_STEP ELSE {})

StepDrawn(w, d) == [w EXCEPT !.d = d, !.c.step = IF w.c.type = "CONFIRM" THEN d.drawn ELSE @]

StepOf(d, c, dir, page, on, modal) ==
    IF page.kind = "text"
    THEN nbgl_stepDrawText(d, Arrows(c), dir, FALSE, on, page.what, page.n, modal)
    ELSE IF page.kind = "menu"
    THEN nbgl_stepDrawMenuList(d, "onChoiceSelected", page.what, page.n + 1, 0)
    ELSE nbgl_stepDrawCenteredInfo(d, Arrows(c), on, page.what, modal)

drawStep(w, dir, page, on, modal) ==
    StepDrawn(w, StepOf(IF w.c.type = "CONFIRM" THEN nbgl_stepRelease(w.d, w.c.step) ELSE w.d,
                    w.c, dir, page, on, modal))

\* A page with the callback of its double press, drawn in the background.
Shows(w, dir, page, cb, on) == drawStep([w EXCEPT !.c.cb = cb], dir, page, on, FALSE)

-----------------------------------------------------------------------------
(* Reviews *)

\* getPairData
getPairData(pairs, i) ==
    FlowPage(<<"pair", i>>, pairs[i + 1].n, IF pairs[i + 1].center THEN "info" ELSE "text")

reviewPages(c) == IF c.sub THEN 2 ELSE 1

\* getLastPageInfo
getLastPageInfo(w, dir, approve, on) ==
    Shows(w, dir, Info(IF approve THEN "approve" ELSE "reject"),
          IF approve THEN "onReviewAccept" ELSE "onReviewReject", on)

\* The page that offers to skip the following pairs.
SkipPage(w, first) ==
    [w EXCEPT !.d = nbgl_stepDrawCenteredInfo(
                        w.d, FIRST_STEP \cup (IF w.c.sets = 1 \/ w.c.cur > 0 THEN LAST_STEP ELSE {}),
                        "buttonSkipCallback", <<"skip", w.c.cur>>, FALSE),
              !.c.cb = "none", !.c.skipDisplay = TRUE, !.c.first = first]

PairPage(w, dir, i, on) ==
    Shows([w EXCEPT !.c.skipDisplay = FALSE,
                    !.c.tvi = IF on = "reviewCallback" /\ w.c.pairs[i + 1].alias # "none" THEN i ELSE @],
          dir, getPairData(w.c.pairs, i),
          IF on = "reviewCallback" /\ w.c.pairs[i + 1].alias # "none"
          THEN "displayAliasFullValue" ELSE "none", on)

SkipDue(c) == /\ c.skippable /\ ~c.skipDisplay
              /\ c.cur > reviewPages(c) \/ c.dir = "back"

displayReviewPage(w, dir) ==
    IF w.c.cur >= w.c.nb - 2 THEN getLastPageInfo(w, dir, w.c.cur = w.c.nb - 2, "reviewCallback")
    ELSE IF w.c.cur = 0 THEN Shows(w, dir, Info("title"), "none", "reviewCallback")
    ELSE IF w.c.cur < reviewPages(w.c)
    THEN Shows(w, dir, FlowPage(<<"subtitle", 0>>, 1, "text"), "none", "reviewCallback")
    ELSE IF w.c.addr /\ w.c.cur = reviewPages(w.c)
    THEN Shows(w, dir, FlowPage(<<"address", 0>>, 1, "text"), "none", "reviewCallback")
    ELSE IF SkipDue(w.c) THEN SkipPage(w, reviewPages(w.c))
    ELSE PairPage(w, dir, w.c.cur - reviewPages(w.c) - (IF w.c.addr THEN 1 ELSE 0), "reviewCallback")

StreamSkipDue(c) == /\ c.skipCb /\ ~c.skipDisplay
                    /\ c.sets > 1 \/ c.cur > 0 \/ c.dir = "back"

StreamStartPage(w, dir) ==
    IF w.c.cur >= reviewPages(w.c) THEN Told([w EXCEPT !.c.cb = "none"], "true")
    ELSE IF w.c.cur = 0 THEN Shows(w, dir, Info("title"), "none", "streamingReviewCallback")
    ELSE Shows(w, dir, FlowPage(<<"subtitle", 0>>, 1, "text"), "none", "streamingReviewCallback")

StreamPairPage(w, dir) ==
    IF w.c.cur >= Len(w.c.pairs) THEN Told([w EXCEPT !.c.cb = "none"], "true")
    ELSE IF StreamSkipDue(w.c) THEN SkipPage(w, w.c.first)
    ELSE PairPage(w, dir, w.c.cur, "streamingReviewCallback")

displayStreamingReviewPage(w, dir) ==
    IF w.c.type = "STREAMING_START" THEN StreamStartPage(w, dir)
    ELSE IF w.c.type = "STREAMING_CONTINUE" THEN StreamPairPage(w, dir)
    ELSE getLastPageInfo(w, dir, w.c.cur = 0, "streamingReviewCallback")

\* nano_useCaseReview: the context is cleared.
nano_useCaseReview(w, pairs, sub, skippable) ==
    displayReviewPage([w EXCEPT !.c = [NoContext EXCEPT
        !.type = "REVIEW", !.pairs = pairs, !.sub = sub, !.skippable = skippable,
        !.nb = Len(pairs) + 3 + (IF sub THEN 1 ELSE 0)]], "fwd")

-----------------------------------------------------------------------------
(* The full value of an alias, in modal steps *)

ExtensionPage(w, pos, dir) ==
    IF w.c.extPage < w.c.extNb - 1
    THEN nbgl_stepDrawText(w.d, pos, dir, FALSE, "extensionNavigate", <<"ext", w.c.extPage>>,
                           IF w.c.pairs[w.c.tvi + 1].alias = "ens" THEN w.c.pairs[w.c.tvi + 1].m ELSE 1,
                           TRUE)
    ELSE nbgl_stepDrawCenteredInfo(w.d, LAST_STEP, "extensionNavigate", <<"back", 0>>, TRUE)

ExtensionDrawn(w, d) == [w EXCEPT !.d = d, !.c.ext = d.drawn]

displayExtensionStep(w, dir) ==
    ExtensionDrawn(w, ExtensionPage([w EXCEPT !.d = nbgl_stepRelease(@, w.c.ext)],
                                    IF w.c.extPage = 0 THEN FIRST_STEP
                                    ELSE NEITHER_FIRST_NOR_LAST_STEP, dir))

displayAliasFullValue(w) ==
    displayExtensionStep([w EXCEPT !.c.extPage = 0, !.c.ext = 0,
        !.c.extNb = IF w.c.pairs[w.c.tvi + 1].alias = "ens" THEN 2
                    ELSE w.c.pairs[w.c.tvi + 1].m + 1], "fwd")

extensionNavigate(w, e) ==
    IF e = "left"
    THEN displayExtensionStep([w EXCEPT !.c.extPage = IF @ > 0 THEN @ - 1 ELSE @], "back")
    ELSE IF e = "right"
    THEN displayExtensionStep([w EXCEPT !.c.extPage = IF @ < w.c.extNb - 1 THEN @ + 1 ELSE @], "fwd")
    ELSE IF w.c.extPage = w.c.extNb - 1 THEN [w EXCEPT !.d = nbgl_stepRelease(@, w.c.ext)]
    ELSE w

-----------------------------------------------------------------------------
(* Contents: settings, generic reviews and navigable pages *)

\* getContentNbElement: a confirmation is one more element.
getContentNbElement(content) ==
    IF content.type \in {"CENTERED_INFO", "INFO_BUTTON"} THEN 1
    ELSE IF content.type = "TAG_VALUE_CONFIRM" THEN content.n + 1
    ELSE content.n

ElementsBefore(contents, i) ==
    FoldLeft(LAMBDA sum, content : sum + getContentNbElement(content), 0, SubSeq(contents, 1, i - 1))

NbElements(contents) == ElementsBefore(contents, Len(contents) + 1)

\* getContentElemAtIdx: the content of a page, and the element in it.
ContentAt(contents, elem) ==
    CHOOSE i \in 1 .. Len(contents) :
        /\ ElementsBefore(contents, i) <= elem
        /\ elem < ElementsBefore(contents, i) + getContentNbElement(contents[i])
getContentElemAtIdx(c) ==
    [type |-> c.contents[ContentAt(c.contents, c.cur)].type,
     n |-> c.contents[ContentAt(c.contents, c.cur)].n,
     i |-> c.cur - ElementsBefore(c.contents, ContentAt(c.contents, c.cur))]

\* getContentPage: a vertical list is a menu, a text or an icon otherwise; a
\* switch answers the double press itself.
getContentPage(elem, cur) ==
    FlowPage(<<"elem", cur>>, IF elem.type = "VERTICAL_LIST" THEN elem.n ELSE 1,
         IF elem.type = "VERTICAL_LIST" THEN "menu"
         ELSE IF elem.type \in {"TAG_VALUE_LIST", "INFOS_LIST", "CHOICES_LIST"} THEN "text"
         ELSE IF elem.type = "TAG_VALUE_CONFIRM" /\ elem.i < elem.n THEN "text"
         ELSE "info")
ContentCallback(elem) == IF elem.type = "SWITCHES_LIST" THEN "onSwitchAction" ELSE "none"

ElementPage(w, dir, elem, on) ==
    Shows(w, dir, getContentPage(elem, w.c.cur), ContentCallback(elem), on)

\* displaySettingsPage, displayContent: the last page goes back or rejects.
displaySettingsPage(w, dir) ==
    IF w.c.cur < w.c.nb - 1 THEN ElementPage(w, dir, getContentElemAtIdx(w.c), "settingsCallback")
    ELSE Shows(w, dir, Info("back"),
               IF w.c.type = "GENERIC_SETTINGS" THEN "quitCallback" ELSE "startUseCaseHome",
               "settingsCallback")
displayContent(w, dir) ==
    IF w.c.cur < w.c.nb - 1 THEN ElementPage(w, dir, getContentElemAtIdx(w.c), "contentCallback")
    ELSE Shows(w, dir, Info("back"), "quitCallback", "contentCallback")

\* startUseCaseSettingsAtPage, startUseCaseContent
startUseCaseSettingsAtPage(w, page) ==
    displaySettingsPage([w EXCEPT
        !.c.type = IF @ = "GENERIC_SETTINGS" THEN @ ELSE "SETTINGS",
        !.c.nb = 1 + NbElements(w.c.contents), !.c.cur = page], "fwd")
startUseCaseContent(w) ==
    IF w.c.cur >= 1 + NbElements(w.c.contents)
    THEN [w EXCEPT !.c.nb = 1 + NbElements(w.c.contents)]
    ELSE displayContent([w EXCEPT !.c.nb = 1 + NbElements(w.c.contents)], "fwd")

-----------------------------------------------------------------------------
(* Home, information, choice and confirmation pages *)

Flag(b) == IF b THEN 1 ELSE 0

\* displayHomePage: home, action, settings, information, quit.
HomePage(h, cur) ==
    IF cur = 0 THEN "home"
    ELSE IF h.action /\ cur = 1 THEN "action"
    ELSE IF h.settings /\ cur = 1 + Flag(h.action) THEN "startUseCaseSettings"
    ELSE IF h.infos > 0 /\ cur = 1 + Flag(h.action) + Flag(h.settings) THEN "startUseCaseInfo"
    ELSE "quitCallback"
displayHomePage(w, dir) ==
    Shows(w, dir, Info(HomePage(w.c.home, w.c.cur)),
          IF w.c.cur = 0 THEN "none" ELSE HomePage(w.c.home, w.c.cur), "homeCallback")

\* startUseCaseHome: back to the page the settings or the information were
\* opened from.
startUseCaseHome(w) ==
    displayHomePage([w EXCEPT
        !.c.cur = IF w.c.type = "SETTINGS" THEN 1 + Flag(w.c.home.action)
                  ELSE IF w.c.type = "INFO"
                  THEN 1 + Flag(w.c.home.action) + Flag(w.c.home.settings)
                  ELSE 0,
        !.c.type = "HOME",
        !.c.nb = 2 + Flag(w.c.home.settings) + Flag(w.c.home.infos > 0) + Flag(w.c.home.action)],
        "fwd")

\* displayInfoPage, startUseCaseInfo
displayInfoPage(w, dir) ==
    IF w.c.cur < w.c.nb - 1
    THEN Shows(w, dir, FlowPage(<<"info", w.c.cur>>, 1, "info"), "none", "infoCallback")
    ELSE Shows(w, dir, Info("back"), "startUseCaseHome", "infoCallback")
startUseCaseInfo(w) ==
    displayInfoPage([w EXCEPT !.c.type = "INFO", !.c.nb = w.c.home.infos + 1, !.c.cur = 0], "fwd")

\* displayChoicePage: the introduction, the details, confirm, cancel.
displayChoicePage(w, dir) ==
    IF w.c.cur < w.c.intro + w.c.bars
    THEN Shows(w, dir, FlowPage(<<"message", w.c.cur>>, 1, "text"), "none", "genericChoiceCallback")
    ELSE IF w.c.cur = w.c.intro + w.c.bars
    THEN Shows(w, dir, Info("confirm"), "onChoiceAccept", "genericChoiceCallback")
    ELSE Shows(w, dir, Info("cancel"), "onChoiceReject", "genericChoiceCallback")

\* displayConfirm: in modal steps, the previous one being released first.
displayConfirm(w, dir) ==
    drawStep([w EXCEPT !.c.cb = <<"none", "onConfirmAccept", "onConfirmReject">>[w.c.cur + 1]],
             dir, <<FlowPage(<<"message", 0>>, 1, "text"), Info("confirm"), Info("cancel")>>[w.c.cur + 1],
             "genericConfirmCallback", TRUE)

\* onConfirmAccept, onConfirmReject: the modal goes; the context stays the one
\* of the confirmation.
onConfirmAccept(w) == Told([w EXCEPT !.d = nbgl_stepRelease(@, w.c.step)], "true")
onConfirmReject(w) == [w EXCEPT !.d = nbgl_stepRelease(@, w.c.step)]

-----------------------------------------------------------------------------
(* The warnings in front of a review *)

WarningText(w, what, pos) ==
    [w EXCEPT !.d = nbgl_stepDrawCenteredInfo(@, pos, "warningNavigate", what, FALSE)]

FirstWarningPos(k) == IF k.first = 0 THEN FIRST_STEP ELSE NEITHER_FIRST_NOR_LAST_STEP

displayWarningStep(w) ==
    IF w.k.prelude /\ w.k.page = 0
    THEN [w EXCEPT !.d = nbgl_stepDrawText(@, FIRST_STEP, "fwd", FALSE, "warningNavigate",
                                           <<"prelude", 0>>, 1, FALSE)]
    ELSE IF w.k.page = w.k.first THEN WarningText(w, <<"warning", 0>>, FirstWarningPos(w.k))
    ELSE IF w.k.blind
    THEN WarningText([w EXCEPT !.c.cb = "onReviewReject"], <<"reject", 0>>, LAST_STEP)
    ELSE IF w.k.intro # "none"
    THEN WarningText(w, <<"intro", w.k.page>>, NEITHER_FIRST_NOR_LAST_STEP)
    ELSE w

\* displayInitialWarning, displayPrelude: the number of pages of the warning.
displayInitialWarning(w) ==
    displayWarningStep([w EXCEPT !.k.page = 0, !.k.first = 0,
        !.k.nb = IF w.k.blind \/ w.k.intro = "centered" THEN 2
                 ELSE IF w.k.intro = "bars" THEN w.k.bars + 1 ELSE 1])
displayPrelude(w) ==
    displayWarningStep([w EXCEPT !.k.page = 0, !.k.first = 1,
        !.k.nb = IF w.k.blind \/ w.k.intro = "centered" THEN 3 ELSE 2])

launchReviewAfterWarning(w) ==
    IF w.k.type = "REVIEW" THEN nano_useCaseReview(w, w.k.pairs, w.k.sub, w.k.skippable)
    ELSE displayStreamingReviewPage(w, "fwd")

\* displayBarDetailStep, barDetailNavigate: one page about a bar of the
\* warning, left by the left button.
displayBarDetailStep(w) ==
    [w EXCEPT !.d = nbgl_stepDrawCenteredInfo(@, LAST_STEP, "barDetailNavigate", <<"detail", 0>>, FALSE)]
barDetailNavigate(w, e) == IF e = "left" THEN displayWarningStep(w) ELSE w

warningBoth(w) ==
    IF w.k.blind
    THEN IF w.k.page = w.k.first
         THEN launchReviewAfterWarning([w EXCEPT !.a.accepted = TRUE])
         ELSE IF w.k.page = w.k.nb - 1 THEN Told(w, "false") ELSE w
    ELSE IF w.k.intro = "bars" /\ w.k.page > w.k.first THEN displayBarDetailStep(w)
    ELSE w
warningNavigate(w, e) ==
    IF e = "both" THEN warningBoth(w)
    ELSE IF e = "left" THEN displayWarningStep([w EXCEPT !.k.page = IF @ > 0 THEN @ - 1 ELSE @])
    ELSE IF w.k.page < w.k.nb - 1 THEN displayWarningStep([w EXCEPT !.k.page = @ + 1])
    ELSE IF ~w.k.blind /\ w.k.info THEN launchReviewAfterWarning(w)
    ELSE displayWarningStep(w)

-----------------------------------------------------------------------------
(* The buttons, in the step of a use case *)

\* The page drawn after a move; a review memorises the direction.
Redraw(w, on, dir) ==
    CASE on = "reviewCallback" -> displayReviewPage([w EXCEPT !.c.dir = dir], dir)
      [] on = "streamingReviewCallback" -> displayStreamingReviewPage([w EXCEPT !.c.dir = dir], dir)
      [] on = "settingsCallback" -> displaySettingsPage(w, dir)
      [] on = "infoCallback" -> displayInfoPage(w, dir)
      [] on = "homeCallback" -> displayHomePage(w, dir)
      [] on = "genericChoiceCallback" -> displayChoicePage(w, dir)
      [] on = "genericConfirmCallback" -> displayConfirm(w, dir)
      [] on = "contentCallback" -> displayContent(w, dir)

\* onSwitchAction: the switch is drawn toggled, then the application told.
onSwitchAction(w) ==
    Told(IF w.c.type \in {"CONTENT", "GENERIC_REVIEW"} THEN displayContent(w, "fwd")
         ELSE displaySettingsPage(w, "fwd"), "token")

\* context.stepCallback
stepCallback(w) ==
    CASE w.c.cb \in {"onReviewAccept", "onChoiceAccept"} -> Told(w, "true")
      [] w.c.cb \in {"onReviewReject", "onChoiceReject"} -> Told(w, "false")
      [] w.c.cb = "onConfirmAccept" -> onConfirmAccept(w)
      [] w.c.cb = "onConfirmReject" -> onConfirmReject(w)
      [] w.c.cb = "onSwitchAction" -> onSwitchAction(w)
      [] w.c.cb = "displayAliasFullValue" -> displayAliasFullValue(w)
      [] w.c.cb = "startUseCaseHome" -> startUseCaseHome(w)
      [] w.c.cb = "startUseCaseSettings" -> startUseCaseSettingsAtPage(w, 0)
      [] w.c.cb = "startUseCaseInfo" -> startUseCaseInfo(w)
      [] w.c.cb \in {"quitCallback", "action"} -> Told(w, "quit")

\* A double press on an element that has a token.
ElementPressed(w, on, elem) ==
    IF \/ elem.type \in {"CENTERED_INFO", "TAG_VALUE_LIST", "INFOS_LIST"}
       \/ elem.type = "TAG_VALUE_CONFIRM" /\ elem.i < elem.n
    THEN w
    ELSE IF elem.type \in {"CHOICES_LIST", "BARS_LIST"} THEN Told(Redraw(w, on, "fwd"), "token")
    ELSE Told(w, IF elem.type = "TAG_VALUE_CONFIRM" THEN "true" ELSE "token")

BackInStream(c) == c.type = "STREAMING_CONTINUE" /\ c.skipCb /\ c.sets # 1

buttonGenericCallback(w, on, e) ==
    IF e = "left"
    THEN IF w.c.cur > 0 THEN Redraw([w EXCEPT !.c.cur = @ - 1], on, "back")
         ELSE IF BackInStream(w.c) THEN Redraw(w, on, "back") ELSE w
    ELSE IF e = "right"
    THEN IF w.c.cur < w.c.nb - 1 THEN Redraw([w EXCEPT !.c.cur = @ + 1], on, "fwd") ELSE w
    ELSE IF w.c.cb # "none" THEN stepCallback(w)
    ELSE IF w.c.type \in {"CONTENT", "SETTINGS", "GENERIC_SETTINGS", "GENERIC_REVIEW"}
    THEN ElementPressed(w, on, getContentElemAtIdx(w.c))
    ELSE w

\* buttonSkipCallback: the page only moves when the direction turned.  The
\* first pair is page 0 in a streaming review only.
SkipShows(w, dir) ==
    IF w.c.first = 0 THEN displayStreamingReviewPage(w, dir) ELSE displayReviewPage(w, dir)
SkipRightMoves_Slip(c) == c.cur < c.nb - 1 /\ c.cur > c.first
SkipRightMoves(c) == c.dir = "back" /\ c.cur < c.nb - 1 /\ c.cur > c.first

buttonSkipCallback(w, e) ==
    IF e = "left"
    THEN SkipShows([w EXCEPT !.c.cur = IF w.c.dir = "fwd" /\ @ > w.c.first THEN @ - 1 ELSE @], "back")
    ELSE IF e = "right"
    THEN SkipShows([w EXCEPT !.c.cur = IF SkipRightMoves(w.c) THEN @ + 1 ELSE @], "fwd")
    ELSE IF w.c.first = 0 THEN Told(w, "skip")
    ELSE displayReviewPage([w EXCEPT !.c.cur = w.c.nb - 2, !.a.skipped = TRUE], "fwd")

\* onChoiceSelected: a choice, or the Back entry after the choices.
onChoiceSelected(w, choice, elem) ==
    IF choice < elem.n THEN Told(w, "token")
    ELSE IF w.c.type = "SETTINGS" THEN startUseCaseHome(w)
    ELSE Told(w, "quit")

-----------------------------------------------------------------------------
(* Flows *)

FlowPos(f) ==
    IF f.loop /\ f.nb > 1 THEN NEITHER_FIRST_NOR_LAST_STEP ELSE GET_POS_OF_STEP(f.cur, f.nb)

FlowDrawn(w, i, d) == [w EXCEPT !.d = d, !.f[i].step = d.drawn]
FlowStep(w, i, dir) ==
    FlowDrawn(w, i, nbgl_stepDrawText(w.d, FlowPos(w.f[i]), dir, FALSE, "flow",
                                      <<"flow", w.f[i].cur>>, 1, w.f[i].modal))

\* The flow a step belongs to (getContextFromStepCtx).
FlowOf(w, s) == CHOOSE i \in Layers : w.f[i].step = s

FlowMoves(w, i, to, dir) ==
    FlowStep([w EXCEPT !.f[i].cur = to, !.d = nbgl_stepRelease(@, w.f[i].step)], i, dir)

flowActionCallback(w, i, e) ==
    IF e = "both" THEN Told(w, "step")
    ELSE IF e = "left" /\ w.f[i].cur > 0 THEN FlowMoves(w, i, w.f[i].cur - 1, "back")
    ELSE IF e = "right" /\ w.f[i].cur < w.f[i].nb - 1 THEN FlowMoves(w, i, w.f[i].cur + 1, "fwd")
    ELSE w

\* getFreeContext of the flows
FreeFlows(modal) == IF ~modal THEN {1} ELSE {i \in {2, 3} : flows[i].step = 0}

-----------------------------------------------------------------------------
(* The user *)

\* The callback of the step that is shown.
Callback(w, s, e) ==
    CASE w.d.steps[s].on = "buttonSkipCallback" -> buttonSkipCallback(w, e)
      [] w.d.steps[s].on = "extensionNavigate" -> extensionNavigate(w, e)
      [] w.d.steps[s].on = "warningNavigate" -> warningNavigate(w, e)
      [] w.d.steps[s].on = "barDetailNavigate" -> barDetailNavigate(w, e)
      [] w.d.steps[s].on \in {"statusButtonCallback", "useCaseActionCallback"} ->
            IF w.d.steps[s].any \/ e = "both" THEN Told(w, "quit") ELSE w
      [] w.d.steps[s].on = "flow" -> flowActionCallback(w, FlowOf(w, s), e)
      [] w.d.steps[s].on = "none" -> w
      [] OTHER -> buttonGenericCallback(w, w.d.steps[s].on, e)

\* The contexts a callback of this file understands.
ReviewTypes == {"REVIEW", "ADDRESS_REVIEW"}
StreamTypes == {"STREAMING_START", "STREAMING_CONTINUE", "STREAMING_FINISH"}
Understands(on, type) ==
    CASE on \in {"reviewCallback", "extensionNavigate"} -> type \in ReviewTypes
      [] on = "streamingReviewCallback" -> type \in StreamTypes
      [] on = "buttonSkipCallback" -> type \in {"REVIEW", "STREAMING_CONTINUE"}
      [] on = "settingsCallback" -> type \in {"SETTINGS", "GENERIC_SETTINGS"}
      [] on = "infoCallback" -> type = "INFO"
      [] on = "homeCallback" -> type = "HOME"
      [] on = "genericChoiceCallback" -> type = "CHOICE"
      [] on = "genericConfirmCallback" -> type = "CONFIRM"
      [] on = "contentCallback" -> type \in {"CONTENT", "GENERIC_REVIEW"}
      [] on = "onChoiceSelected" ->
            type \in {"SETTINGS", "GENERIC_SETTINGS", "CONTENT", "GENERIC_REVIEW"}
      [] on = "statusButtonCallback" -> type = "STATUS"
      [] on = "useCaseActionCallback" -> type = "ACTION"
      [] OTHER -> TRUE

Shown == getContextFromLayout(nanoDisplay, Visible(nanoDisplay))

Pressed(w, s, e) ==
    IF MovesInText(w.d.steps[s], e)
    THEN [w EXCEPT !.d = IF @.lay[Visible(@)] = "menu" THEN menuListActionCallback(@, s, e)
                         ELSE actionCallback(@, s, e)]
    ELSE IF ~Handed(w.d.steps[s], e) THEN w
    ELSE IF w.d.lay[Visible(w.d)] = "menu"
    THEN onChoiceSelected(w, w.d.steps[s].page, getContentElemAtIdx(w.c))
    ELSE Callback(w, s, e)

Press(e) ==
    /\ nanoCall.told = "none"
    /\ nanoDisplay.lay[Visible(nanoDisplay)] \in {"action", "menu"}
    /\ Shown # 0
    /\ Understands(nanoDisplay.steps[Shown].on, nanoCtx.type)
    /\ Becomes(Pressed(World, Shown, e))
    /\ UNCHANGED nanoUses

\* statusTickerCallback
StatusTicker ==
    /\ nanoCtx.type = "STATUS" /\ nanoDisplay.stack = <<>> /\ nanoCall.told = "none"
    /\ Becomes(Told(World, "quit"))
    /\ UNCHANGED nanoUses

\* nbgl_layoutUpdateKeypadContent: the discs shown for n digits.
nbgl_layoutUpdateKeypadContent(c, n) ==
    IF n = 0 THEN c.dots \ {1}
    ELSE IF n \notin c.dots THEN c.dots \cup {n}
    ELSE c.dots \ {n + 1}

\* setPinCodeText, and the keys of the keypad that are enabled (keypadCallback).
setPinCodeText(c, n) ==
    [c EXCEPT !.len = n, !.valid = n >= c.min, !.dots = nbgl_layoutUpdateKeypadContent(c, n)]

KeypadShown == /\ nanoCtx.type = "KEYPAD" /\ nanoDisplay.stack = <<>> /\ nanoCall.told = "none"
KeypadBack ==
    /\ KeypadShown
    /\ nanoCtx.len > 0 \/ nanoCtx.back
    /\ Becomes(IF nanoCtx.len = 0 THEN Told(World, "quit")
               ELSE [World EXCEPT !.c = setPinCodeText(@, nanoCtx.len - 1)])
    /\ UNCHANGED nanoUses
KeypadValidate ==
    /\ KeypadShown /\ nanoCtx.valid
    /\ Becomes(Told(World, "pin"))
    /\ UNCHANGED nanoUses
KeypadDigit ==
    /\ KeypadShown
    /\ Becomes([World EXCEPT !.c = setPinCodeText(@, IF nanoCtx.len < nanoCtx.max
                                                     THEN nanoCtx.len + 1 ELSE nanoCtx.len)])
    /\ UNCHANGED nanoUses

\* keyboardCallback: the letters are masked once the entry is full; with
\* suggestions, a key may leave few enough words to choose from.
KeyboardShown == /\ nanoCtx.type = "KEYBOARD" /\ nanoDisplay.stack = <<>> /\ nanoCall.told = "none"

displaySuggestionSelection(w, nb) ==
    startUseCaseContent([w EXCEPT !.d = nbgl_layoutRelease(@, 1),
        !.c = [NoContext EXCEPT !.type = "CONTENT",
                                !.contents = <<[type |-> "CHOICES_LIST", n |-> nb]>>]])

KeyEntered(w, nb) ==
    IF w.c.words /\ nb > 0 THEN displaySuggestionSelection(w, nb) ELSE w

KeyboardKey ==
    /\ KeyboardShown /\ nanoCtx.len < nanoCtx.max
    /\ \E nb \in {0, 2} : Becomes(KeyEntered([World EXCEPT !.c.len = @ + 1], nb))
    /\ UNCHANGED nanoUses
KeyboardBack ==
    /\ KeyboardShown
    /\ Becomes(IF nanoCtx.len = 0 THEN Told(World, "quit")
               ELSE KeyEntered([World EXCEPT !.c.len = @ - 1], 0))
    /\ UNCHANGED nanoUses
KeyboardValidate ==
    /\ KeyboardShown /\ ~nanoCtx.words
    /\ Becomes(Told(World, "text"))
    /\ UNCHANGED nanoUses

-----------------------------------------------------------------------------
(* The application *)

\* It starts a use case when it has been called back, or at its home page.
AppReady == /\ nanoUses < MaxNanoUses /\ nanoDisplay.stack = <<>>
            /\ nanoCall.told # "none" \/ nanoCall.idle \/ nanoCtx.type \in {"NONE", "HOME"}

PairPages(pairs) ==
    UNION {{<<<<"pair", i - 1>>, p>> : p \in 0 .. pairs[i].n - 1} : i \in 1 .. Len(pairs)}
TitlePages(sub) == {<<<<"title", 0>>, 0>>} \cup (IF sub THEN {<<<<"subtitle", 0>>, 0>>} ELSE {})
WarningPages(k) ==
    (IF k.blind \/ k.info THEN {<<<<"warning", 0>>, 0>>} ELSE {})
    \cup (IF k.prelude THEN {<<<<"prelude", 0>>, 0>>} ELSE {})

\* A new use case: what it must show before it is approved.
For(kind, must, pairs) ==
    [World EXCEPT !.a = NewCall(kind, must, pairs), !.d.shown = {}]
Run(w) ==
    /\ AppReady
    /\ nanoUses' = nanoUses + 1
    /\ Becomes(w)

nbgl_useCaseReview(pairs, sub, skippable) ==
    Run(nano_useCaseReview(For("review", TitlePages(sub), PairPages(pairs)), pairs, sub, skippable))

\* With a warning in front.
WithWarning(w, k) ==
    IF k.prelude THEN displayPrelude([w EXCEPT !.k = k])
    ELSE IF k.blind \/ k.info THEN displayInitialWarning([w EXCEPT !.k = k])
    ELSE launchReviewAfterWarning([w EXCEPT !.k = k])

Risky(w, k) == [w EXCEPT !.a.risk = k.blind, !.a.must = @ \cup WarningPages(k)]

nbgl_useCaseAdvancedReview(pairs, sub, skippable, warning) ==
    Run(WithWarning(Risky(For("review", TitlePages(sub), PairPages(pairs)), warning),
            [NoWarnCtx EXCEPT !.type = "REVIEW", !.blind = warning.blind, !.info = warning.info,
                              !.prelude = warning.prelude, !.intro = warning.intro,
                              !.bars = warning.bars, !.pairs = pairs, !.sub = sub,
                              !.skippable = skippable]))

nbgl_useCaseAddressReview(pairs, sub) ==
    Run(displayReviewPage([For("review", TitlePages(sub) \cup {<<<<"address", 0>>, 0>>},
                               PairPages(pairs)) EXCEPT
            !.c = [NoContext EXCEPT !.type = "ADDRESS_REVIEW", !.addr = TRUE, !.pairs = pairs,
                       !.sub = sub, !.nb = Len(pairs) + (IF sub THEN 5 ELSE 4)]], "fwd"))

ConfirmedPages(contents) ==
    {<<<<"elem", i>>, 0>> : i \in 0 .. NbElements(contents) - 1}

nbgl_useCaseGenericReview(contents) ==
    Run(startUseCaseContent([For("generic", ConfirmedPages(contents), {}) EXCEPT
            !.c = [NoContext EXCEPT !.type = "GENERIC_REVIEW", !.contents = contents]]))

nbgl_useCaseNavigableContent(contents, initPage) ==
    Run(startUseCaseContent([For("content", {}, {}) EXCEPT
            !.c = [NoContext EXCEPT !.type = "CONTENT", !.contents = contents, !.cur = initPage]]))

HomeContext(contents, home) == [NoContext EXCEPT !.contents = contents, !.home = home]

nbgl_useCaseHomeAndSettings(contents, home, atSettings) ==
    Run(IF atSettings /\ home.settings
        THEN startUseCaseSettingsAtPage([For("home", {}, {}) EXCEPT !.c = HomeContext(contents, home)], 0)
        ELSE startUseCaseHome([For("home", {}, {}) EXCEPT !.c = HomeContext(contents, home)]))

nbgl_useCaseGenericSettings(contents, initPage) ==
    Run(startUseCaseSettingsAtPage([For("settings", {}, {}) EXCEPT
            !.c = [NoContext EXCEPT !.type = "GENERIC_SETTINGS", !.contents = contents]], initPage))

\* A status text may take several pages, all of which any button leaves.
nbgl_useCaseStatus(n) ==
    Run([For("status", {}, {}) EXCEPT
            !.c = [NoContext EXCEPT !.type = "STATUS", !.cb = "quitCallback", !.nb = 1],
            !.d = nbgl_stepDrawText([@ EXCEPT !.shown = {}], SINGLE_STEP, "fwd", TRUE,
                                    "statusButtonCallback", <<"status", 0>>, n, FALSE)])

nbgl_useCaseSpinner ==
    Run([For("spinner", {}, {}) EXCEPT
            !.c = [NoContext EXCEPT !.type = "SPINNER", !.nb = 1],
            !.d = nbgl_stepDrawCenteredInfo([@ EXCEPT !.shown = {}], SINGLE_STEP, "none",
                                            <<"spinner", 0>>, FALSE),
            !.a.idle = TRUE])

nbgl_useCaseAction ==
    Run([For("action", {}, {}) EXCEPT
            !.c = [NoContext EXCEPT !.type = "ACTION"],
            !.d = nbgl_stepDrawCenteredInfo([@ EXCEPT !.shown = {}], SINGLE_STEP,
                                            "useCaseActionCallback", <<"action", 0>>, FALSE)])

\* Streaming reviews: a start, any number of sets of pairs, a finish.
StreamStart(w, sub) ==
    [w EXCEPT !.c = [NoContext EXCEPT !.type = "STREAMING_START", !.sub = sub,
                                      !.nb = IF sub THEN 3 ELSE 2]]

nbgl_useCaseReviewStreamingStart(sub) ==
    Run(displayStreamingReviewPage(StreamStart(For("stream", TitlePages(sub), {}), sub), "fwd"))

nbgl_useCaseAdvancedReviewStreamingStart(sub, warning) ==
    Run(WithWarning(StreamStart(Risky(For("stream", TitlePages(sub), {}), warning), sub),
            [NoWarnCtx EXCEPT !.type = "STREAMING_START", !.blind = warning.blind,
                              !.info = warning.info, !.prelude = warning.prelude,
                              !.intro = warning.intro, !.bars = warning.bars, !.sub = sub]))

InStream == nanoCall.kind = "stream" /\ nanoCall.told \in {"true", "skip"}

nbgl_useCaseReviewStreamingContinueExt(pairs, skip) ==
    /\ InStream /\ nanoCall.told = "true" /\ nanoCtx.sets < MaxSets
    /\ UNCHANGED nanoUses
    /\ Becomes(displayStreamingReviewPage([For("stream", {}, PairPages(pairs)) EXCEPT
            !.c = [NoContext EXCEPT !.type = "STREAMING_CONTINUE", !.pairs = pairs, !.skipCb = skip,
                       !.nb = Len(pairs) + 1, !.sets = nanoCtx.sets + 1]], "fwd"))

nbgl_useCaseReviewStreamingFinish ==
    /\ InStream
    /\ UNCHANGED nanoUses
    /\ Becomes(displayStreamingReviewPage([For("finish", {}, {}) EXCEPT
            !.c = [NoContext EXCEPT !.type = "STREAMING_FINISH", !.nb = 2]], "fwd"))

MessagePages(n) == {<<<<"message", i>>, 0>> : i \in 0 .. n - 1}

nbgl_useCaseChoiceWithDetails(intro, bars) ==
    Run(displayChoicePage([For("choice", MessagePages(intro + bars), {}) EXCEPT
            !.c = [NoContext EXCEPT !.type = "CHOICE", !.intro = intro, !.bars = bars,
                                    !.nb = intro + bars + 2]], "fwd"))

nbgl_useCaseConfirm ==
    Run(displayConfirm([For("confirm", MessagePages(1), {}) EXCEPT
            !.c = [NoContext EXCEPT !.type = "CONFIRM", !.nb = 3]], "fwd"))

InBackground(d, holds) == [nbgl_layoutGet(d, FALSE, holds) EXCEPT !.shown = {}]

nbgl_useCaseKeypad(minDigits, maxDigits, back) ==
    Run([For("keypad", {}, {}) EXCEPT
            !.c = [NoContext EXCEPT !.type = "KEYPAD", !.nb = 1, !.min = minDigits,
                                    !.max = maxDigits, !.back = back],
            !.d = InBackground(@, "keypad")])

nbgl_useCaseKeyboard(maxLen, words) ==
    Run([For("keyboard", {}, {}) EXCEPT
            !.c = [NoContext EXCEPT !.type = "KEYBOARD", !.nb = 1, !.max = maxLen, !.words = words],
            !.d = InBackground(@, "keyboard")])

\* nbgl_flowDraw over any page, nbgl_flowRelease of a modal flow.
nbgl_flowDraw(nb, loop, modal) ==
    /\ nanoDisplay.stack = <<>>
    /\ nanoUses < MaxNanoUses /\ nanoUses' = nanoUses + 1
    /\ \E i \in FreeFlows(modal) :
        /\ \A j \in FreeFlows(modal) : i <= j
        /\ Becomes(FlowStep([World EXCEPT !.f[i] = [@ EXCEPT !.cur = 0, !.nb = nb, !.loop = loop,
                                                             !.modal = modal]], i, "fwd"))

nbgl_flowRelease(i) ==
    /\ flows[i].modal /\ flows[i].step # 0
    /\ Becomes([World EXCEPT !.d = nbgl_stepRelease(@, flows[i].step), !.f[i].step = 0,
                             !.a.told = IF @ = "step" THEN "none" ELSE @])
    /\ UNCHANGED nanoUses

\* The application does nothing for now.
AppIdle ==
    /\ nanoCall.told \in {"token", "quit", "step", "false", "true", "skip"}
    /\ Becomes([World EXCEPT !.a.told = "none", !.a.idle = TRUE, !.a.kind = "none"])
    /\ UNCHANGED nanoUses

-----------------------------------------------------------------------------
NanoInit ==
    /\ nanoCtx = NoContext /\ warnCtx = NoWarnCtx /\ nanoDisplay = NoDisplay
    /\ nanoCall = NewCall("none", {}, {})
    /\ flows = [i \in Layers |-> NoFlow] /\ nanoUses = 0

Homes == {[action |-> TRUE, settings |-> TRUE, infos |-> 1],
          [action |-> FALSE, settings |-> TRUE, infos |-> 2], NoHome}

NanoNext ==
    \/ \E e \in Buttons : Press(e)
    \/ StatusTicker
    \/ KeypadBack \/ KeypadValidate \/ KeypadDigit
    \/ KeyboardKey \/ KeyboardBack \/ KeyboardValidate
    \/ \E pairs \in NanoPairs, skippable \in BOOLEAN : nbgl_useCaseReview(pairs, ~skippable, skippable)
    \/ \E pairs \in NanoPairs, skippable \in BOOLEAN, warning \in NanoWarnings :
          nbgl_useCaseAdvancedReview(pairs, skippable, skippable, warning)
    \/ \E pairs \in NanoPairs, sub \in BOOLEAN : nbgl_useCaseAddressReview(pairs, sub)
    \/ \E contents \in NanoContents : nbgl_useCaseGenericReview(contents)
    \/ \E contents \in NanoContents, initPage \in {0, 1} :
          nbgl_useCaseNavigableContent(contents, initPage)
    \/ \E contents \in NanoContents, home \in Homes, atSettings \in BOOLEAN :
          nbgl_useCaseHomeAndSettings(contents, home, atSettings)
    \/ \E contents \in NanoContents, initPage \in {0, 1} :
          nbgl_useCaseGenericSettings(contents, initPage)
    \/ \E n \in 1 .. 2 : nbgl_useCaseStatus(n)
    \/ nbgl_useCaseSpinner \/ nbgl_useCaseAction
    \/ \E sub \in BOOLEAN : nbgl_useCaseReviewStreamingStart(sub)
    \/ \E sub \in BOOLEAN, warning \in NanoWarnings :
          nbgl_useCaseAdvancedReviewStreamingStart(sub, warning)
    \/ \E pairs \in NanoPairs, skip \in BOOLEAN : nbgl_useCaseReviewStreamingContinueExt(pairs, skip)
    \/ nbgl_useCaseReviewStreamingFinish
    \/ \E intro \in 0 .. 2, bars \in {0, 2} : nbgl_useCaseChoiceWithDetails(intro, bars)
    \/ nbgl_useCaseConfirm
    \/ \E back \in BOOLEAN : nbgl_useCaseKeypad(2, 3, back)
    \/ \E words \in BOOLEAN : nbgl_useCaseKeyboard(2, words)
    \/ \E loop, modal \in BOOLEAN : nbgl_flowDraw(2, loop, modal)
    \/ \E i \in {2, 3} : nbgl_flowRelease(i)
    \/ AppIdle

NanoSpec == NanoInit /\ [][NanoNext]_nanoVars

-----------------------------------------------------------------------------
(* Properties *)

\* Consent: what the user was shown and did before the application is told.
Consented ==
    /\ nanoCall.told = "true" =>
          /\ nanoCall.must \subseteq nanoDisplay.shown
          /\ nanoCall.skipped \/ nanoCall.pairs \subseteq nanoDisplay.shown
          /\ nanoCall.risk => nanoCall.accepted
    /\ nanoCall.told = "pin" => nanoCtx.len \in nanoCtx.min .. nanoCtx.max

\* Every layout on the screen belongs to a step, so the buttons reach it, and
\* the keypad shows as many discs as digits have been entered.
ScreenOwned ==
    /\ \A l \in {1} \cup {nanoDisplay.stack[i] : i \in DOMAIN nanoDisplay.stack} :
          nanoDisplay.lay[l] \in {"action", "menu"} => Owners(nanoDisplay, l) # {}
    /\ nanoCtx.type = "KEYPAD" => nanoCtx.dots = 1 .. nanoCtx.len


=============================================================================
