------------------------------- MODULE UxFlow -------------------------------
(***************************************************************************)
(* The flows of screens of the button devices (lib_ux): the stack of       *)
(* screens (ux_stack.c), the flow engine (ux_flow_engine.c), the paged     *)
(* texts (ux_layout_paging.c), the list of choices (ux_menulist.c) and the *)
(* buttons and timeouts that drive them.  A step of a flow is a name, and  *)
(* a text a sequence of characters of one width.  The exit code a screen   *)
(* leaves for the operating system is left out.                            *)
(*                                                                         *)
(* The state ux, G_ux and G_ux_os:                                         *)
(*   slots    stack[] and flow_stack[], the visible one being number count *)
(*   paging   layout_paging, shared by all the slots                       *)
(*   list     menulist_current                                             *)
(*   screen   what was drawn last                                          *)
(*   mask, same  the buttons held, and for how long                        *)
(*   before   whether the word before an array of steps, which is_first    *)
(*            reads on the first step of a looping flow, is FLOW_BARRIER   *)
(***************************************************************************)
EXTENDS Integers, Sequences, FiniteSetsExt

CONSTANTS
    UxFlows,         \* flow name -> sequence of steps, "BARRIER" and "LOOP"
    UxSteps,         \* step name -> [kind, text, valid, error, to, timeout]
    UxMain, UxModal, \* the flows an application starts
    UX_STACK_SLOT_COUNT,
    PIXEL_PER_LINE, UX_LAYOUT_PAGING_LINE_COUNT,
    BUTTON_FAST_THRESHOLD_CS,
    ListLength,      \* entries of the list of choices
    MaxPress          \* bound on how long a button is held

ASSUME UxAssumption ==
    /\ UX_STACK_SLOT_COUNT \in Nat \ {0}
    /\ PIXEL_PER_LINE \in Nat \ {0} /\ UX_LAYOUT_PAGING_LINE_COUNT \in Nat \ {0}

VARIABLE ux

uxVars == <<ux>>

NoUxFlow == [flow |-> "none", index |-> 0, prev |-> 0, buttons |-> "none", ticker |-> 0]

NoUxScreen == [step |-> "none", page |-> 0, left |-> FALSE, right |-> FALSE, lines |-> <<>>]

Top(u) == u.slots[u.count]
Items(f) == IF f.flow = "none" THEN <<>> ELSE UxFlows[f.flow]
Item(f, i) == Items(f)[i + 1]
Length(f) == Len(Items(f))
Loops(f) == Length(f) > 0 /\ Item(f, Length(f) - 1) = "LOOP"
IsStep(s) == s \notin {"BARRIER", "LOOP"}

-----------------------------------------------------------------------------
(* The cut of a text into lines and pages (ux_layout_paging_compute.c)     *)

is_word_delim(c) == c \in {" ", "n"}     \* "n" is the end of a line

\* As many characters as the width allows, up to the end of a line.
FullLength(text, start) ==
    Max({k \in 0 .. PIXEL_PER_LINE :
            /\ start + k <= Len(text)
            /\ \A i \in 1 .. k - 1 : text[start + i] # "n"})

LastDelim(text, start, len) ==
    Max({start} \cup {i \in start .. start + len - 1 : is_word_delim(text[i + 1])})

\* A line that ends inside a word is cut at the last delimiter before.
LineLength(text, start, len, delim) ==
    IF /\ start + len < Len(text) /\ delim # start /\ len > 0
       /\ ~is_word_delim(text[start + len]) /\ ~is_word_delim(text[start + len + 1])
    THEN delim - start ELSE len

LineFrom(text, start, len) == LineLength(text, start, len, LastDelim(text, start, len))

\* ux_layout_paging_compute: the lines of the page asked for, and the number
\* of pages found.
RECURSIVE Compute(_, _, _, _, _, _)
PageBreak(text, start, line) == line >= UX_LAYOUT_PAGING_LINE_COUNT /\ start < Len(text)
NextLine(text, wanted, page, line, start, lines) ==
    IF PageBreak(text, start, line) THEN Compute(text, wanted, page + 1, 0, start, lines)
    ELSE Compute(text, wanted, page, line, start, lines)
Compute(text, wanted, page, line, start, lines) ==
    IF start >= Len(text) THEN [pages |-> page + 1, lines |-> lines]
    ELSE \* the cut of this line
         NextLine(text, wanted, page, line + 1, start + LineFrom(text, start, FullLength(text, start)),
                  IF page = wanted THEN Append(lines, <<start, LineFrom(text, start, FullLength(text, start))>>)
                  ELSE lines)

ux_layout_paging_compute(text, wanted) == Compute(text, wanted, 0, 0, 0, <<>>)

-----------------------------------------------------------------------------
(* Where in its flow the visible screen is *)

ux_flow_is_first(u) ==
    \/ Length(Top(u)) = 0
    \/ Top(u).index = 0 /\ ~Loops(Top(u))
    \/ IF Top(u).index = 0 THEN u.before ELSE Item(Top(u), Top(u).index - 1) = "BARRIER"

ux_flow_is_last_Slip(u) == Length(Top(u)) = 0 \/ Top(u).index >= Length(Top(u)) - 1
ux_flow_is_last(u) ==
    \/ Length(Top(u)) = 0
    \/ Top(u).index >= Length(Top(u)) - 1
    \/ Top(u).index < Length(Top(u)) - 2 /\ Item(Top(u), Top(u).index + 1) = "BARRIER"

ux_flow_direction(u) ==
    IF u.count = 0 \/ Top(u).index = Top(u).prev THEN "start"
    ELSE IF Top(u).index > Top(u).prev THEN "forward" ELSE "backward"

Current(u) ==
    IF Length(Top(u)) = 0 \/ Top(u).index >= Length(Top(u)) THEN "none"
    ELSE IF IsStep(Item(Top(u), Top(u).index)) THEN Item(Top(u), Top(u).index) ELSE "none"

-----------------------------------------------------------------------------
(* Drawing.  ux_stack_init wipes the slot; ux_stack_display draws it only  *)
(* when it is the visible one.                                             *)

ux_stack_init(u, slot) == [u EXCEPT !.slots[slot].buttons = "none", !.slots[slot].ticker = 0]

ux_stack_display(u, slot, screen) == IF slot = u.count THEN [u EXCEPT !.screen = screen] ELSE u

\* ux_layout_bb_init and the like, of fixed lines
LayoutDrawn(u, page, lines) ==
    [step |-> Current(u), page |-> page, left |-> ~ux_flow_is_first(u), right |-> ~ux_flow_is_last(u),
     lines |-> lines]
ux_layout_init(u, slot) ==
    ux_stack_display([ux_stack_init(u, slot) EXCEPT !.slots[slot].buttons = "flow"], slot, LayoutDrawn(u, 0, <<>>))

\* ux_layout_paging_redisplay_common
PageDrawn(u, text) ==
    [step |-> Current(u), page |-> u.paging.current,
     left |-> ~(ux_flow_is_first(u) /\ u.paging.current = 0),
     right |-> ~(ux_flow_is_last(u) /\ u.paging.current = u.paging.count - 1),
     lines |-> ux_layout_paging_compute(text, u.paging.current).lines]
ux_layout_paging_redisplay(u, slot) ==
    ux_stack_display([u EXCEPT !.slots[slot].buttons = "paging"], slot, PageDrawn(u, UxSteps[Current(u)].text))

\* ux_layout_paging_init_common: the page to open depends on the direction; -1,
\* the last page, is any page past the last.
PageOpened(u) ==
    IF ux_flow_direction(u) = "backward" THEN 1000
    ELSE IF ux_flow_direction(u) = "forward" THEN 0
    ELSE u.paging.current
PageIn(current, count) == [current |-> IF current > count - 1 THEN count - 1 ELSE current, count |-> count]
ux_layout_paging_init(u, slot) ==
    ux_layout_paging_redisplay(
        [ux_stack_init(u, slot) EXCEPT
            !.paging = PageIn(PageOpened(u), ux_layout_paging_compute(UxSteps[Current(u)].text, -1).pages)],
        slot)

\* ux_menulist_refresh: the entry selected, the ones around it deciding the ticks
ux_menulist_refresh(u, slot) ==
    [ux_stack_display(ux_stack_init(u, slot), slot,
                      [step |-> Current(u), page |-> u.list, left |-> u.list > 0,
                       right |-> u.list < ListLength - 1, lines |-> <<>>])
        EXCEPT !.slots[slot].buttons = "list"]

\* ux_layout_set_timeout
ux_layout_set_timeout(u, slot, ms) == IF ms = 0 THEN u ELSE [u EXCEPT !.slots[slot].ticker = ms]

-----------------------------------------------------------------------------
(* The stack *)

ux_stack_push(u) ==
    IF u.count < UX_STACK_SLOT_COUNT
    THEN [u EXCEPT !.slots[u.count + 1] = NoUxFlow, !.count = @ + 1] ELSE u

ux_stack_pop(u) == IF u.count = 0 THEN u ELSE [u EXCEPT !.slots[u.count] = NoUxFlow, !.count = @ - 1]

ux_stack_insert(u, slot) ==
    IF u.count = UX_STACK_SLOT_COUNT THEN u
    ELSE [u EXCEPT !.count = @ + 1,
                   !.slots = [s \in DOMAIN @ |-> IF s < slot THEN @[s] ELSE IF s = slot THEN NoUxFlow ELSE @[s - 1]]]

ux_stack_remove(u, slot) ==
    ux_stack_pop([u EXCEPT !.slots = [s \in DOMAIN @ |-> IF s < slot \/ s = UX_STACK_SLOT_COUNT THEN @[s]
                                                         ELSE @[s + 1]]])

-----------------------------------------------------------------------------
(* The engine *)

RECURSIVE ux_flow_init(_, _, _, _), ux_flow_engine_init_step(_, _)

Moved(u, slot, index, prev) == [u EXCEPT !.slots[slot].index = index, !.slots[slot].prev = prev]

\* The last step, or the one before a barrier, needs a validation.
NoNext(f) == Length(f) <= 1 \/ f.index >= Length(f) - 1 \/ Item(f, f.index + 1) = "BARRIER"

\* ux_flow_next_internal
Advanced(u) == Moved(u, u.count, Top(u).index + 1, Top(u).index)
ToFirst(u) == ux_flow_engine_init_step(Moved(u, u.count, 0, 0), u.count)
ux_flow_next_internal(u, display) ==
    IF NoNext(Top(u)) THEN u
    ELSE IF Item(Top(u), Top(u).index + 1) = "LOOP" THEN ToFirst(u)
    ELSE IF display THEN ux_flow_engine_init_step(Advanced(u), u.count) ELSE Advanced(u)
ux_flow_next(u) == ux_flow_next_internal(u, TRUE)

\* A modal screen, in the visible slot when there is no other.
OpenModal(u) == ux_flow_init(ux_stack_push(u), ux_stack_push(u).count, UxModal, "none")

\* What the init function of a step does: draw a layout, run a function that
\* starts another flow or opens a modal screen, or jump.
StepInit(u, slot, s) ==
    IF s.kind = "layout" THEN ux_layout_set_timeout(ux_layout_init(u, slot), slot, s.timeout)
    ELSE IF s.kind = "paging" THEN ux_layout_set_timeout(ux_layout_paging_init(u, slot), slot, s.timeout)
    ELSE IF s.kind = "list" THEN ux_menulist_refresh(u, slot)
    ELSE IF s.kind = "pin"
    THEN OpenModal(ux_flow_next_internal(u, FALSE))
    ELSE ux_flow_init(u, slot, s.to[1], s.to[2])

ux_flow_engine_init_step(u, slot) ==
    IF IsStep(Item(u.slots[slot], u.slots[slot].index))
    THEN StepInit(u, slot, UxSteps[Item(u.slots[slot], u.slots[slot].index)]) ELSE u

\* ux_flow_init: at the first step, or at the one given
Positions(flow, step) == {i \in 0 .. Len(UxFlows[flow]) - 1 : UxFlows[flow][i + 1] = step}
StartIndex(flow, step) == IF step = "none" THEN 0 ELSE Min(Positions(flow, step))
Started(f, flow, index) == [f EXCEPT !.flow = flow, !.index = index, !.prev = IF index = 0 THEN 0 ELSE index - 1]
ux_flow_init(u, slot, flow, step) ==
    ux_flow_engine_init_step(
        [u EXCEPT !.slots[slot] = Started(@, flow, StartIndex(flow, step)),
                  !.paging = [current |-> 0, count |-> 0]], slot)

\* ux_flow_prev
NoPrev(f) ==
    \/ Length(f) <= 1
    \/ f.index = 0 /\ ~Loops(f)
    \/ f.index > 0 /\ Item(f, f.index - 1) = "BARRIER"
ux_flow_prev(u) ==
    IF NoPrev(Top(u)) THEN u
    ELSE IF Top(u).index = 0
    THEN ux_flow_engine_init_step(
             Moved(u, u.count, Length(Top(u)) - 2, Length(Top(u)) - 1), u.count)
    ELSE ux_flow_engine_init_step(
             Moved(u, u.count, Top(u).index - 1, Top(u).index), u.count)

\* ux_flow_validate: the flow of the step, or the step after the barriers
AfterBarriers(f) == Min({i \in f.index + 1 .. Length(f) - 1 : Item(f, i) # "BARRIER"})
PastBarriers(u, i) == ux_flow_engine_init_step(Moved(u, u.count, i, i - 1), u.count)
Validated(u, f) ==
    IF f.index > Length(f) - 2 THEN u
    ELSE IF Item(f, f.index + 1) = "BARRIER" THEN PastBarriers(u, AfterBarriers(f))
    ELSE IF Item(f, f.index + 1) = "LOOP" THEN ToFirst(u)
    ELSE u
ux_flow_validate(u) ==
    IF Length(Top(u)) = 0 \/ Top(u).index >= Length(Top(u)) THEN u
    ELSE IF UxSteps[Item(Top(u), Top(u).index)].valid # "none"
    THEN ux_flow_init(u, u.count, UxSteps[Item(Top(u), Top(u).index)].valid, "none")
    ELSE Validated(u, Top(u))

\* ux_flow_error
ux_flow_error(u) ==
    IF Current(u) = "none" THEN u
    ELSE IF UxSteps[Current(u)].error = "none" THEN u
    ELSE ux_flow_init(u, u.count, UxSteps[Current(u)].error, "none")

\* ux_stack_redisplay and ux_flow_relayout
ux_stack_redisplay(u) ==
    IF u.count = 0 \/ Current(u) = "none" THEN u
    ELSE ux_flow_engine_init_step(u, u.count)

-----------------------------------------------------------------------------
(* Buttons: ux_flow_button_callback, ux_layout_paging_button_callback_...  *)
(* and ux_menulist_button, on the release of 1, 2 or both (3).             *)

ux_layout_paging_next(u) ==
    IF u.paging.current = u.paging.count - 1 THEN ux_flow_next(u)
    ELSE ux_layout_paging_redisplay([u EXCEPT !.paging.current = @ + 1], u.count)
ux_layout_paging_prev(u) ==
    IF u.paging.current = 0 THEN ux_flow_prev(u)
    ELSE ux_layout_paging_redisplay([u EXCEPT !.paging.current = @ - 1], u.count)

PagingButton(u, b) ==
    IF b = 1 THEN ux_layout_paging_prev(u)
    ELSE IF b = 2 THEN ux_layout_paging_next(u)
    ELSE IF u.paging.count = 0 \/ u.paging.current = u.paging.count - 1 THEN ux_flow_validate(u) ELSE u

FlowButton(u, b) ==
    IF b = 1 THEN ux_flow_prev(u) ELSE IF b = 2 THEN ux_flow_next(u) ELSE ux_flow_validate(u)

ListButton(u, b) ==
    IF b = 1 /\ u.list > 0 THEN ux_menulist_refresh([u EXCEPT !.list = @ - 1], u.count)
    ELSE IF b = 2 /\ u.list < ListLength - 1 THEN ux_menulist_refresh([u EXCEPT !.list = @ + 1], u.count)
    ELSE IF b = 3 THEN ux_flow_init(u, u.count, UxMain, "none") ELSE u

Released(u, b) ==
    IF Top(u).buttons = "paging" THEN PagingButton(u, b)
    ELSE IF Top(u).buttons = "list" THEN ListButton(u, b) ELSE FlowButton(u, b)

\* io_seproxyhal_button_push: the buttons held add up; the release of all of
\* them reaches the screen, unless they were held for long.
Joined(a, b) == IF a = b \/ b = 0 THEN a ELSE IF a = 0 THEN b ELSE 3
Counted(new) == IF new = ux.mask THEN ux.same + 1 ELSE ux.same
AllReleased == [ux EXCEPT !.mask = 0, !.same = 0]

UxButton(new) ==
    /\ ux.count > 0 /\ Top(ux).buttons # "none"
    /\ Counted(new) <= MaxPress
    /\ ux' = IF new # 0
             THEN [ux EXCEPT !.mask = Joined(@, new),
                             !.same = IF new # Joined(ux.mask, new) THEN 0 ELSE Counted(new)]
             ELSE IF ux.mask = 0 \/ Counted(new) >= BUTTON_FAST_THRESHOLD_CS THEN AllReleased
             ELSE Released(AllReleased, ux.mask)

\* UX_TICKER_EVENT and ux_layout_ticker_callback: a step with a timeout validates
\* itself.
UxTick ==
    /\ ux.count > 0 /\ Top(ux).ticker > 0
    /\ ux' = IF Top(ux).ticker > 1 THEN [ux EXCEPT !.slots[ux.count].ticker = @ - 1]
             ELSE ux_flow_validate([ux EXCEPT !.slots[ux.count].ticker = 0])

-----------------------------------------------------------------------------
(* What an application does *)

UxInit ==
    \E b \in BOOLEAN :
        ux = [count |-> 0, slots |-> [s \in 1 .. UX_STACK_SLOT_COUNT |-> NoUxFlow],
              paging |-> [current |-> 0, count |-> 0], list |-> 0, screen |-> NoUxScreen,
              mask |-> 0, same |-> 0, before |-> b]

\* Its main flow, when no modal screen is over it
UxStart ==
    /\ ux.count <= 1
    /\ ux' = ux_flow_init(IF ux.count = 0 THEN ux_stack_push(ux) ELSE ux, 1, UxMain, "none")

UxOpen == ux.count > 0 /\ ux' = OpenModal(ux)

UxClose == ux.count > 0 /\ ux' = ux_stack_redisplay(ux_stack_pop(ux))

\* A screen without a flow slipped below the visible one, and one taken out
UxInsert == \E slot \in 1 .. ux.count : ux' = ux_stack_insert(ux, slot)
UxRemove == \E slot \in 1 .. ux.count - 1 : ux' = ux_stack_redisplay(ux_stack_remove(ux, slot))

UxRedisplay == ux.count > 0 /\ ux' = ux_stack_redisplay(ux)
UxError == ux.count > 0 /\ ux' = ux_flow_error(ux)

UxNext ==
    \/ UxStart \/ UxOpen \/ UxClose \/ UxInsert \/ UxRemove \/ UxRedisplay \/ UxError
    \/ UxTick \/ \E new \in 0 .. 3 : UxButton(new)

UxSpec == UxInit /\ [][UxNext]_uxVars

-----------------------------------------------------------------------------
\* The lines of the page on the screen go on where the page before ended, none
\* of them is empty or too wide, and the last page ends the text.
LastEnd(lines) == IF lines = <<>> THEN 0 ELSE lines[Len(lines)][1] + lines[Len(lines)][2]
PageRight(text, page, lines) ==
    /\ \A i \in 1 .. Len(lines) :
          /\ lines[i][2] \in 1 .. PIXEL_PER_LINE
          /\ lines[i][1] = LastEnd(IF i > 1 THEN SubSeq(lines, 1, i - 1)
                                   ELSE IF page = 0 THEN <<>>
                                   ELSE ux_layout_paging_compute(text, page - 1).lines)
    /\ page = ux.paging.count - 1 <=> LastEnd(lines) = Len(text)

PagesAfter == Top(ux).buttons = "paging" /\ ux.screen.page < ux.paging.count - 1

\* The screen always shows the step its flow is at (ux_flow_engine.c), over any
\* sequence of buttons, timeouts, modal screens and redisplays; its arrows show
\* exactly the moves that the buttons would make (ux_flow_is_first, is_last
\* against ux_flow_prev, ux_flow_next); and the page of a long text follows the
\* one before it (ux_layout_paging_compute).
ScreenIsCurrent ==
    ux.count > 0 /\ Current(ux) # "none" =>
        /\ ux.screen.step = Current(ux)
        /\ Top(ux).buttons \in {"flow", "paging"} =>
              /\ ux.screen.right <=> (~NoNext(Top(ux)) \/ PagesAfter)
              /\ (Top(ux).index > 0 \/ ~ux.before) =>
                    (ux.screen.left <=> (~NoPrev(Top(ux)) \/ ux.screen.page > 0))
        /\ Top(ux).buttons = "paging" =>
              /\ ux.screen.page = ux.paging.current
              /\ PageRight(UxSteps[Current(ux)].text, ux.screen.page, ux.screen.lines)

=============================================================================
