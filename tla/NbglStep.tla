------------------------------ MODULE NbglStep ------------------------------
(***************************************************************************)
(* The steps of the button devices (lib_nbgl/src/nbgl_step.c) and the      *)
(* layouts they are drawn in (lib_nbgl/src/nbgl_layout_nanos.c), as        *)
(* operators on a display d:                                               *)
(*   d.lay     gLayout: what each of the three layouts holds               *)
(*   d.stack   the modal screens, the visible one last                     *)
(*   d.steps   contexts[]: the step of each layer, 1 being the background  *)
(*   d.got     the layout just obtained, d.drawn the step just drawn       *)
(*   d.shown   the pages of texts drawn since the use case started         *)
(* A text is its name and its number of pages.                             *)
(***************************************************************************)
EXTENDS Integers, Sequences, SequencesExt

Layers == 1 .. 3     \* NB_MAX_LAYOUTS and NB_MAX_LAYERS

Buttons == {"left", "right", "both"}

\* The position of a step in its flow, as the set of the ways out of it.
SINGLE_STEP == {}
FIRST_STEP == {"right"}
LAST_STEP == {"left"}
NEITHER_FIRST_NOR_LAST_STEP == {"left", "right"}

\* GET_POS_OF_STEP
GET_POS_OF_STEP(step, nbSteps) ==
    IF nbSteps < 2 THEN SINGLE_STEP
    ELSE IF step = 0 THEN FIRST_STEP
    ELSE IF step = nbSteps - 1 THEN LAST_STEP
    ELSE NEITHER_FIRST_NOR_LAST_STEP

NoStep == [layout |-> 0, page |-> 0, nb |-> 0, pos |-> {}, any |-> FALSE, on |-> "none",
           what |-> <<"none", 0>>, modal |-> FALSE]

NoDisplay == [lay |-> [l \in Layers |-> "free"], stack |-> <<>>,
              steps |-> [s \in Layers |-> NoStep], got |-> 0, drawn |-> 0, shown |-> {}]

-----------------------------------------------------------------------------
(* Layouts *)

\* nbgl_layoutGet: the background layout is replaced, a modal one is pushed if
\* one of the two is free.
FreeModal(d) == IF d.lay[2] = "free" THEN 2 ELSE IF d.lay[3] = "free" THEN 3 ELSE 0

nbgl_layoutGet(d, modal, holds) ==
    IF ~modal THEN [d EXCEPT !.lay[1] = holds, !.got = 1]
    ELSE IF FreeModal(d) = 0 THEN [d EXCEPT !.got = 0]
    ELSE [d EXCEPT !.lay[FreeModal(d)] = holds, !.got = FreeModal(d),
                   !.stack = Append(@, FreeModal(d))]

nbgl_layoutRelease(d, l) ==
    IF l = 0 THEN d
    ELSE [d EXCEPT !.lay[l] = "free", !.stack = SelectSeq(@, LAMBDA x : x # l)]

\* The layout whose callback the buttons reach (buttonCallback).
Visible(d) == IF d.stack = <<>> THEN 1 ELSE Last(d.stack)

-----------------------------------------------------------------------------
(* Steps *)

\* getFreeContext
getFreeContext(d, modal) ==
    IF ~modal THEN 1
    ELSE IF d.steps[2].layout = 0 THEN 2 ELSE IF d.steps[3].layout = 0 THEN 3 ELSE 0

\* getContextFromLayout
Owners(d, l) == {s \in Layers : d.steps[s].layout = l}
getContextFromLayout(d, l) ==
    IF Owners(d, l) = {} THEN 0 ELSE CHOOSE s \in Owners(d, l) : \A t \in Owners(d, l) : s <= t

\* A step context set up and drawn in the layout just obtained.
InLayout(d, s, page) ==
    [d EXCEPT !.steps[s].layout = d.got, !.steps[s].page = page, !.drawn = s,
              !.shown = IF d.got = 0 THEN @ ELSE @ \cup {<<d.steps[s].what, page>>}]

\* displayTextPage asks for a layout for every page.
displayTextPage(d, s, page) ==
    InLayout(nbgl_layoutGet(d, d.steps[s].modal, "action"), s, page)

WithContext(d, s, pos, any, on, what, nb, modal) ==
    [d EXCEPT !.steps[s] = [NoStep EXCEPT !.pos = pos, !.any = any, !.on = on, !.what = what,
                                          !.nb = nb, !.modal = modal]]

\* nbgl_stepDrawText: from the last page of the text when coming backward.
TextIn(d, s, pos, dir, any, on, what, nb, modal) ==
    IF s = 0 THEN [d EXCEPT !.drawn = 0]
    ELSE displayTextPage(WithContext(d, s, pos, any, on, what, nb, modal), s,
                         IF dir = "back" THEN nb - 1 ELSE 0)
nbgl_stepDrawText(d, pos, dir, any, on, what, nb, modal) ==
    TextIn(d, getFreeContext(d, modal), pos, dir, any, on, what, nb, modal)

\* nbgl_stepDrawCenteredInfo and nbgl_stepDrawSwitch: always one page.
InfoIn(d, s, pos, on, what, modal) ==
    IF s = 0 THEN [d EXCEPT !.drawn = 0]
    ELSE InLayout(nbgl_layoutGet(WithContext(d, s, pos, FALSE, on, what, 1, modal), modal, "action"),
                  s, 0)
nbgl_stepDrawCenteredInfo(d, pos, on, what, modal) ==
    InfoIn(d, getFreeContext(d, modal), pos, on, what, modal)

\* nbgl_stepDrawMenuList: "page" is the selected choice.
displayMenuList(d, s, selected) ==
    InLayout(nbgl_layoutGet(d, d.steps[s].modal, "menu"), s, selected)
nbgl_stepDrawMenuList(d, on, what, nbChoices, selected) ==
    displayMenuList(WithContext(d, 1, {}, FALSE, on, what, nbChoices, FALSE), 1, selected)

nbgl_stepRelease(d, s) ==
    IF s = 0 THEN d
    ELSE [nbgl_layoutRelease(d, d.steps[s].layout) EXCEPT !.steps[s].layout = 0]

-----------------------------------------------------------------------------
(* The buttons: actionCallback moves inside the text of the step, or hands *)
(* the event to the callback of the step; menuListActionCallback moves in  *)
(* the list, or hands the selection over.                                  *)

MovesInText(step, e) ==
    \/ e = "left" /\ step.page > 0
    \/ e = "right" /\ step.page < step.nb - 1

Handed(step, e) ==
    /\ ~MovesInText(step, e)
    /\ \/ e = "both"
       \/ e \in step.pos \/ step.any

actionCallback(d, s, e) ==
    IF e = "both" \/ ~MovesInText(d.steps[s], e) THEN d
    ELSE displayTextPage(d, s, d.steps[s].page + (IF e = "left" THEN -1 ELSE 1))

menuListActionCallback(d, s, e) ==
    IF e = "both" \/ ~MovesInText(d.steps[s], e) THEN d
    ELSE displayMenuList(d, s, d.steps[s].page + (IF e = "left" THEN -1 ELSE 1))

=============================================================================
