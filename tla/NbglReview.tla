----------------------------- MODULE NbglReview -----------------------------
(***************************************************************************)
(* The review use cases of the touch devices                               *)
(* (lib_nbgl/src/nbgl_use_case.c): reviews, streamed reviews, address      *)
(* reviews and settings drawn page by page from one generic context, the   *)
(* modals in front of them, and the warnings that come before them.  The   *)
(* application starts a use case and is called back with the answer; the   *)
(* user touches what the screen shows.                                     *)
(***************************************************************************)
EXTENDS NbglPaging, FiniteSets

CONSTANTS
    TagLists,       \* the lists of tag/value pairs an application reviews
    ExtraLists,     \* the additional pairs of an address review
    SettingContents,\* the settings of an application
    Operations,     \* the flags an application passes with an operation
    Warnings,       \* the warnings of the advanced reviews
    DetailsLengths, \* lengths of the values shown with "More"
    MaxUseCases     \* use cases started in one behaviour

VARIABLES
    ui,         \* genericContext, navInfo, bundleNavContext and the callbacks
    shownPage,  \* what the background page shows
    modalPage,  \* the modal page in front of it
    call,       \* the use case in progress, as its caller sees it
    uses        \* use cases started

reviewVars == <<ui, shownPage, modalPage, call, uses>>

-----------------------------------------------------------------------------
(* Contents *)

Single(type) == [type |-> type, elts |-> <<Element(1)>>, button |-> TRUE]
Pairs(type, list, button) == [type |-> type, elts |-> list, button |-> button]

NoWarning == [set |-> {}, prelude |-> FALSE]

\* HAS_INITIAL_WARNING
HAS_INITIAL_WARNING(w) == w.set \cap {"THREAT", "RISK", "BLIND"} # {}

NoModal == [kind |-> "none", page |-> 0, first |-> 0, nb |-> 0, nbPages |-> 0]
NoPage == [type |-> "none", content |-> 0, first |-> 0, nb |-> 0, topRight |-> "none",
             confirm |-> FALSE]

\* reset_callbacks_and_context: genericContext is cleared, with the warning
\* context in it; bundleNavContext, navInfo and onModalConfirm stay.
reset_callbacks_and_context(u) ==
    [u EXCEPT !.contents = <<>>, !.idx = 0, !.nb = 0, !.elt = 0, !.pairs = 0,
              !.warning = NoWarning, !.intro = FALSE, !.level = 0, !.onChoice = "none"]

\* prepareNavInfo clears navInfo.
prepareNavInfo(u, nbPages) == [u EXCEPT !.active = 0, !.nbPages = nbPages, !.skip = FALSE]

\* What the application keeps of a call: the pairs the user has to see.
NewUseCase(kind, skippable, warned) ==
    [kind |-> kind, skippable |-> skippable, warned |-> warned, acked |-> FALSE,
     skipped |-> FALSE, chunk |-> 0, must |-> {}, seen |-> {}, pending |-> "none",
     answer |-> "none"]
NoUseCase == [NewUseCase("none", FALSE, FALSE) EXCEPT !.answer = "done"]

\* The identities of the pairs of the contents.
Ids(chunk, contents) ==
    UNION {{<<chunk, c, e>> : e \in 0 .. Len(contents[c + 1].elts) - 1} :
              c \in {d \in 0 .. Len(contents) - 1 :
                        contents[d + 1].type \in {"TAG_VALUE_LIST", "TAG_VALUE_CONFIRM"}}}

-----------------------------------------------------------------------------
(* Drawing a page of the generic context *)


ElementsInNextPage(u, pageIdx) == u.pages[pageIdx + 1].nb

\* The element within content c of nb elements, if it exists.
AtElement(u, pageIdx, c, nb, e) ==
    IF e \notin 0 .. nb - 1
    THEN [u EXCEPT !.idx = c, !.nb = nb, !.found = FALSE]
    ELSE [u EXCEPT !.idx = c, !.nb = nb, !.elt = e, !.active = pageIdx, !.found = TRUE]

\* The content, whose number of elements is read again when it changes; a
\* negative element counts from the end of the new content.
AtContent(u, pageIdx, c, e) ==
    IF c \notin 0 .. Len(u.contents) - 1 THEN [u EXCEPT !.found = FALSE]
    ELSE IF c # u.idx \/ u.nb = 0
    THEN AtElement(u, pageIdx, c, Len(u.contents[c + 1].elts),
                   IF e < 0 THEN Len(u.contents[c + 1].elts) + e ELSE e)
    ELSE AtElement(u, pageIdx, c, u.nb, e)

\* genericContextComputeNextPageParams: the element the page starts with,
\* from the element of the page being left.
NextElement(u, pageIdx) ==
    IF pageIdx > u.active THEN u.elt + u.pages[u.active + 1].nb
    ELSE IF pageIdx < u.active THEN u.elt - ElementsInNextPage(u, pageIdx)
    ELSE u.elt

genericContextComputeNextPageParams(u, pageIdx) ==
    IF pageIdx > u.active /\ u.nb > 0 /\ NextElement(u, pageIdx) >= u.nb
    THEN AtContent(u, pageIdx, u.idx + 1, 0)
    ELSE IF pageIdx < u.active /\ NextElement(u, pageIdx) < 0
    THEN AtContent(u, pageIdx, u.idx - 1, 0 - ElementsInNextPage(u, pageIdx))
    ELSE AtContent(u, pageIdx, u.idx, NextElement(u, pageIdx))

WarningFlags == {"BLIND", "RISKY", "NO_THREAT"}

\* genericContextPreparePageContent: what the page shows.
PageType(content, elt, page) ==
    IF content.type = "TAG_VALUE_LIST" /\ page.flag
    THEN IF content.elts[elt + 1].center THEN "EXTENDED_CENTER" ELSE "TAG_VALUE_DETAILS"
    ELSE IF content.type = "TAG_VALUE_CONFIRM" /\ elt + page.nb # Len(content.elts)
    THEN "TAG_VALUE_LIST"
    ELSE content.type

FirstOrLast(content) == content.type \in {"CENTERED_INFO", "EXTENDED_CENTER", "INFO_LONG_PRESS"}

TopRight(u, content) ==
    IF ~FirstOrLast(content) \/ u.op \cap WarningFlags = {} THEN "none"
    ELSE IF "BLIND" \in u.op THEN "BLIND_WARNING" ELSE "WARNING_BUTTON"

PageContent(u, content, page, type) ==
    [type |-> type, content |-> u.idx, first |-> u.elt, nb |-> page.nb,
     topRight |-> TopRight(u, content),
     confirm |-> /\ type \in {"INFO_LONG_PRESS", "INFO_BUTTON", "TAG_VALUE_CONFIRM"}
                 /\ content.button]

genericContextPreparePageContent(u) ==
    PageContent(u, u.contents[u.idx + 1], u.pages[u.active + 1],
                PageType(u.contents[u.idx + 1], u.elt, u.pages[u.active + 1]))

\* What the page is drawn from besides the contents: the pairs the aliases
\* are looked up in.
Memorize(u, content) ==
    [u EXCEPT !.pairs = IF content.type = "TAG_VALUE_LIST" THEN 0
                        ELSE IF content.type = "TAG_VALUE_CONFIRM" THEN u.elt
                        ELSE @,
              !.lay = u.active]

\* The loop of displayGenericContextPage over the pages it goes through.
Walk(u, pageIdx) ==
    IF u.active < pageIdx
    THEN FoldLeft(genericContextComputeNextPageParams, u,
                  [i \in 1 .. pageIdx - u.active |-> u.active + i])
    ELSE genericContextComputeNextPageParams(u, pageIdx)

\* "Skip" is offered on the pages between the first and the last one.
SkipShown(u, pageIdx) ==
    IF u.navType # "STREAMING_NAV" /\ "SKIPPABLE" \in u.op
    THEN pageIdx > 0 /\ pageIdx < u.nbPages - 1
    ELSE u.skip

\* The pairs a page shows.
PairsOnScreen(chunk, s) ==
    IF s.type \in {"TAG_VALUE_LIST", "TAG_VALUE_DETAILS", "TAG_VALUE_CONFIRM", "EXTENDED_CENTER"}
    THEN {<<chunk, s.content, e>> : e \in s.first .. s.first + s.nb - 1}
    ELSE {}

LAST_PAGE_FOR_REVIEW == 255

\* The end of displayGenericContextPage: the page drawn, if there is one.
ContentDrawn(u, c, s) ==
    [ui |-> Memorize(u, u.contents[u.idx + 1]), screen |-> s,
     call |-> [c EXCEPT !.seen = @ \union (c.must \cap PairsOnScreen(c.chunk, s))]]

DrawnWith(u, c) == ContentDrawn(u, c, genericContextPreparePageContent(u))

DrawIfFound(u, c, pageIdx) ==
    IF u.found THEN DrawnWith([u EXCEPT !.skip = SkipShown(u, pageIdx)], c)
    ELSE [ui |-> u, screen |-> shownPage, call |-> c]

Draw(u, c, pageIdx) == DrawIfFound(Walk(u, pageIdx), c, pageIdx)

\* In a streamed review, a page beyond the chunk asks for the next one.
AsksMore(u, pageIdx) == pageIdx >= u.stepPageNb

\* displayGenericContextPage
displayGenericContextPage(u, c, pageIdx) ==
    IF u.navType = "STREAMING_NAV" /\ pageIdx = LAST_PAGE_FOR_REVIEW
    THEN [ui |-> u, screen |-> shownPage, call |-> [c EXCEPT !.pending = "finish"]]
    ELSE IF u.navType = "STREAMING_NAV" /\ AsksMore(u, pageIdx)
    THEN [ui |-> u, screen |-> shownPage, call |-> [c EXCEPT !.pending = "more"]]
    ELSE Draw(u, c, IF pageIdx = LAST_PAGE_FOR_REVIEW THEN u.nbPages - 1 ELSE pageIdx)

-----------------------------------------------------------------------------
(* Use cases *)

\* A use case drawn from "contents": its page table, its navigation, page.
StartPages(u, c, contents, pages, page) ==
    displayGenericContextPage(
        prepareNavInfo([u EXCEPT !.contents = contents, !.pages = pages], Len(pages)),
        [c EXCEPT !.must = Ids(c.chunk, contents)], page)

Start(u, c, contents, isSkippable, page) ==
    StartPages(u, c, contents, getNbPagesForGenericContents(contents, isSkippable), page)

\* useCaseReview: a first page, the pairs, and a page to sign.
useCaseReview(u, c, op, list, isLight) ==
    Start([u EXCEPT !.op = op, !.onChoice = "review", !.navType = "GENERIC_NAV"], c,
          <<Single("EXTENDED_CENTER"), Pairs("TAG_VALUE_LIST", list, FALSE),
            Single(IF isLight THEN "INFO_BUTTON" ELSE "INFO_LONG_PRESS")>>,
          "SKIPPABLE" \in op, 0)

\* A step of a streamed review: one content, a number of pages not told.
StreamPages(u, c, content, nbPages, pages) ==
    displayGenericContextPage(
        [prepareNavInfo(u, nbPages)
            EXCEPT !.contents = <<content>>, !.pages = pages, !.stepPageNb = Len(pages),
                   !.idx = 0, !.nb = 0, !.elt = 0, !.onChoice = "streaming",
                   !.navType = "STREAMING_NAV",
                   !.skip = content.type = "TAG_VALUE_LIST" /\ "SKIPPABLE" \in u.op],
        [c EXCEPT !.must = @ \union Ids(c.chunk, <<content>>)], 0)

StreamStep(u, c, content, nbPages) ==
    StreamPages(u, c, content, nbPages,
                getNbPagesForGenericContents(<<content>>, "SKIPPABLE" \in u.op))

\* useCaseReviewStreamingStart
useCaseReviewStreamingStart(u, c, op) ==
    StreamStep([u EXCEPT !.op = op], c, Single("EXTENDED_CENTER"), 255)

\* The review behind the warnings (layoutTouchCallback).
BeginReview(u, c) ==
    IF c.kind = "streaming" THEN useCaseReviewStreamingStart(u, c, u.asked)
    ELSE useCaseReview(u, c, u.asked, u.list, FALSE)

Apply(r) == ui' = r.ui /\ shownPage' = r.screen /\ call' = r.call

Free == call.answer # "none" /\ uses < MaxUseCases
Begin == Free /\ uses' = uses + 1 /\ modalPage' = NoModal

\* nbgl_useCaseReview, nbgl_useCaseReviewLight
Review ==
    /\ Begin
    /\ \E list \in TagLists, op \in Operations, isLight \in BOOLEAN :
          Apply(useCaseReview(reset_callbacks_and_context(ui),
                              NewUseCase("review", "SKIPPABLE" \in op, FALSE), op, list, isLight))

\* nbgl_useCaseStaticReview, nbgl_useCaseStaticReviewLight: only the first
\* one sets the type of the operation.
StaticReview ==
    /\ Begin
    /\ \E list \in TagLists, isLight \in BOOLEAN :
          LET u == reset_callbacks_and_context(ui)
          IN Apply(Start([u EXCEPT !.onChoice = "app", !.navType = "GENERIC_NAV",
                                   !.op = IF isLight THEN @ ELSE {}],
                         NewUseCase("static", FALSE, FALSE),
                         <<Pairs("TAG_VALUE_LIST", list, FALSE),
                           Single(IF isLight THEN "INFO_BUTTON" ELSE "INFO_LONG_PRESS")>>,
                         FALSE, 0))

\* nbgl_useCaseAdvancedReview, nbgl_useCaseAdvancedReviewStreamingStart and
\* the blind signing ones: what comes before the review.
AdvancedReview ==
    /\ Begin
    /\ \E list \in TagLists, op \in Operations \ {{"BLIND"}}, w \in Warnings, kind \in {"review", "streaming"} :
          LET flags == IF w.set = {"NO_THREAT"} THEN op \union {"NO_THREAT"}
                       ELSE IF w.set # {} THEN op \union {"RISKY"} ELSE op
              u == [reset_callbacks_and_context(ui)
                       EXCEPT !.warning = w, !.asked = flags, !.list = list]
              c == NewUseCase(kind, "SKIPPABLE" \in op, HAS_INITIAL_WARNING(w))
          IN IF w.prelude \/ HAS_INITIAL_WARNING(w)
             THEN /\ ui' = [u EXCEPT !.intro = TRUE]
                  /\ shownPage' = [NoPage EXCEPT !.type = IF w.prelude THEN "PRELUDE"
                                                         ELSE "INITIAL_WARNING"]
                  /\ call' = c
             ELSE Apply(BeginReview(u, c))

\* nbgl_useCaseReviewStreamingStart
ReviewStreamingStart ==
    /\ Begin
    /\ \E op \in Operations :
          Apply(useCaseReviewStreamingStart(reset_callbacks_and_context(ui),
                   NewUseCase("streaming", "SKIPPABLE" \in op, FALSE), op))

\* nbgl_useCaseReviewStreamingContinueExt: genericContext is cleared, with
\* the warning in it.
ReviewStreamingContinue ==
    /\ call.pending = "more"
    /\ call.chunk < 1
    /\ \E list \in TagLists :
          Apply(StreamStep([ui EXCEPT !.warning = NoWarning, !.intro = FALSE, !.level = 0,
                                      !.pairs = 0],
                           [call EXCEPT !.chunk = @ + 1, !.pending = "none"],
                           Pairs("TAG_VALUE_LIST", list, FALSE), 255))
    /\ UNCHANGED <<modalPage, uses>>

\* nbgl_useCaseReviewStreamingFinish
ReviewStreamingFinish ==
    /\ call.pending \in {"more", "finish"}
    /\ call.chunk > 0
    /\ Apply(StreamStep([ui EXCEPT !.warning = NoWarning, !.intro = FALSE, !.level = 0,
                                   !.pairs = 0],
                        [call EXCEPT !.chunk = @ + 1, !.pending = "none"],
                        Single("INFO_LONG_PRESS"), 1))
    /\ UNCHANGED <<modalPage, uses>>

\* prepareAddressConfirmationPages: the pages of the address, one chunk per
\* page, with the extra pairs that fit, and those of the other ones.
AddressPairs(nb) ==
    [i \in 1 .. nb |-> [Element(IF nb = 1 THEN 1 ELSE 3) EXCEPT !.force = i > 1]]

FitTogether(pairs) ==
    getNbTagValuesInPage(Len(pairs), pairs, 0, FALSE, TRUE, TRUE).nb = Len(pairs)

AddressContents(address, extras) ==
    IF \/ extras = <<>>
       \/ /\ Len(address) = 1
          /\ Len(extras) < ADDR_VERIF_NB_PAIRS
          /\ FitTogether(address \o extras)
    THEN <<Pairs("TAG_VALUE_CONFIRM", address \o extras, TRUE)>>
    ELSE <<Pairs("TAG_VALUE_CONFIRM", address, FALSE), Pairs("TAG_VALUE_CONFIRM", extras, TRUE)>>

prepareAddressConfirmationPages(chunks, extras) ==
    AddressContents(AddressPairs(Smaller(chunks, ADDR_VERIF_NB_PAIRS)), extras)

\* nbgl_useCaseAddressReview, nbgl_useCaseAddressConfirmationExt: the second
\* one shows its second content even when everything is in the first one, and
\* keeps the type of the last operation.
AddressReview ==
    /\ Begin
    /\ \E chunks \in 1 .. ADDR_VERIF_NB_PAIRS + 1, extras \in ExtraLists, isExt \in BOOLEAN :
          LET pages == prepareAddressConfirmationPages(chunks, extras)
              u == reset_callbacks_and_context(ui)
          IN Apply(Start([u EXCEPT !.onChoice = "app", !.navType = "GENERIC_NAV",
                                   !.op = IF isExt THEN @ ELSE {}],
                         NewUseCase("address", FALSE, FALSE),
                         IF ~isExt THEN <<Single("EXTENDED_CENTER")>> \o pages
                         ELSE IF extras # <<>> /\ Len(pages) = 1
                         THEN pages \o <<Single("CENTERED_INFO")>>
                         ELSE pages,
                         FALSE, 0))

\* nbgl_useCaseHomeAndSettings starting at a page of the settings
\* (nbgl_useCaseGenericSettings): bundleNavContext now holds the name of the
\* application where the type of the operation is read.
GenericSettings ==
    /\ Begin
    /\ \E contents \in SettingContents, op \in Operations, page \in 0 .. 2 :
          /\ page < Len(getNbPagesForGenericContents(contents, FALSE))
          /\ Apply(Start([reset_callbacks_and_context(ui)
                             EXCEPT !.navType = "GENERIC_NAV", !.op = op],
                         NewUseCase("settings", FALSE, FALSE), contents, FALSE, page))

-----------------------------------------------------------------------------
(* The user *)

\* A touch on the page or, when there is one, on the modal.
Touch == call.answer = "none" /\ modalPage.kind = "none"
InModal(kind) == call.answer = "none" /\ modalPage.kind = kind
Pages == shownPage.type \notin {"none", "PRELUDE", "INITIAL_WARNING"}

Answer(a) == call' = [call EXCEPT !.answer = a]

\* layoutNavigationCallback and the NAV_TOKEN of pageCallback.
Navigate ==
    /\ Touch /\ Pages
    /\ \E page \in {ui.lay - 1, ui.lay + 1} :
          /\ page >= 0
          /\ page > ui.lay => (ui.nbPages >= 2 /\ ui.lay < ui.nbPages - 1)
          /\ page <= Len(ui.pages)
          /\ Apply(displayGenericContextPage([ui EXCEPT !.lay = page], call, page))
    /\ UNCHANGED <<modalPage, uses>>

\* SKIP_TOKEN: displaySkipWarning, then the answer in pageModalCallback.
TouchSkip ==
    /\ Touch /\ Pages /\ ui.skip
    /\ modalPage' = [NoModal EXCEPT !.kind = "skip"]
    /\ UNCHANGED <<ui, shownPage, call, uses>>

SkipChoice ==
    /\ InModal("skip")
    /\ modalPage' = NoModal
    /\ \/ Apply(displayGenericContextPage(ui, [call EXCEPT !.skipped = TRUE], LAST_PAGE_FOR_REVIEW))
       \/ UNCHANGED <<ui, shownPage, call>>
    /\ UNCHANGED uses

\* CONFIRM_TOKEN: onChoice(true)
TouchConfirm ==
    /\ Touch /\ shownPage.confirm /\ ui.onChoice # "none"
    /\ Answer("true")
    /\ UNCHANGED <<ui, shownPage, modalPage, uses>>

\* REJECT_TOKEN: onChoice(false); bundleNavReviewChoice and
\* bundleNavReviewStreamingChoice ask for a confirmation.
TouchReject ==
    /\ Touch /\ Pages /\ ui.onChoice # "none"
    /\ IF ui.onChoice = "app"
       THEN Answer("false") /\ UNCHANGED <<ui, modalPage>>
       ELSE /\ ui' = [ui EXCEPT !.onModalConfirm = ui.onChoice]
            /\ modalPage' = [NoModal EXCEPT !.kind = "reject"]
            /\ UNCHANGED call
    /\ UNCHANGED <<shownPage, uses>>

\* The CHOICE_TOKEN of pageModalCallback.
RejectChoice ==
    /\ InModal("reject")
    /\ modalPage' = NoModal
    /\ \/ /\ ui.onModalConfirm # "none"
          /\ ui' = [ui EXCEPT !.onModalConfirm = "none"]
          /\ Answer("false")
       \/ UNCHANGED <<ui, call>>
    /\ UNCHANGED <<shownPage, uses>>

\* DETAILS_BUTTON_TOKEN: displayDetails, displayDetailsPage.
NoText == -1

DetailsFrom(n, page, at) ==
    [kind |-> "details", page |-> page, first |-> at, nb |-> n, nbPages |-> DetailsPages(n),
     next |-> IF at = NoText THEN NoText
              ELSE IF DetailsOverflow(n, at) THEN at + DetailsStep ELSE NoText]

DetailsPage(n, page, current, next) ==
    DetailsFrom(n, page, IF page <= current THEN getDetailsPageAt(n, page) ELSE next)

TouchDetails ==
    /\ Touch /\ shownPage.type = "TAG_VALUE_DETAILS"
    /\ \E n \in DetailsLengths : modalPage' = DetailsPage(n, 0, 0, NoText)
    /\ UNCHANGED <<ui, shownPage, call, uses>>

DetailsNavigate ==
    /\ InModal("details")
    /\ \E page \in {modalPage.page - 1, modalPage.page + 1} :
          /\ page \in 0 .. modalPage.nbPages - 1
          /\ modalPage' = DetailsPage(modalPage.nb, page, modalPage.page, modalPage.next)
    /\ UNCHANGED <<ui, shownPage, call, uses>>

\* VALUE_ALIAS_TOKEN: displayFullValuePage for the pair next to the icon,
\* and displayTagValueListModal for an alias that is a list.
AliasPairs == <<Element(2), Element(1), Element(3), Element(1)>>
NoPair == -1

ModalPage(page, first) ==
    [kind |-> "list", page |-> page, first |-> first,
     nb |-> ModalPages(AliasPairs)[page + 1], nbPages |-> Len(ModalPages(AliasPairs))]

TouchAlias ==
    /\ Touch /\ shownPage.type \in {"TAG_VALUE_LIST", "TAG_VALUE_CONFIRM", "TAG_VALUE_DETAILS"}
    /\ \E i \in 0 .. shownPage.nb - 1 :
          LET elts == ui.contents[shownPage.content + 1].elts
              at == ui.pairs + ui.elt + i
          IN /\ elts[shownPage.first + i + 1].alias # "none"
             /\ IF elts[shownPage.first + i + 1].alias = "list"
                THEN modalPage' = ModalPage(0, 0)
                ELSE modalPage' = [NoModal EXCEPT !.kind = "alias", !.page = shownPage.first + i,
                                              !.first = IF at < Len(elts) THEN at ELSE NoPair]
    /\ UNCHANGED <<ui, shownPage, call, uses>>

\* displayTagValueListModalPage: going back takes off the pairs of two pages.
ListNavigate ==
    /\ InModal("list")
    /\ \/ /\ modalPage.page + 1 < modalPage.nbPages
          /\ modalPage' = ModalPage(modalPage.page + 1, modalPage.first + modalPage.nb)
       \/ /\ modalPage.page > 0
          /\ LET pages == ModalPages(AliasPairs)
                 currentPairIdx == modalPage.first + modalPage.nb
             IN modalPage' = ModalPage(modalPage.page - 1,
                                   currentPairIdx - pages[modalPage.page + 1] - pages[modalPage.page])
    /\ UNCHANGED <<ui, shownPage, call, uses>>

\* The choice at the prelude, as it would be if it went straight to the review.
PreludeChoice_Slip ==
    /\ Touch /\ shownPage.type = "PRELUDE"
    /\ Apply(BeginReview([ui EXCEPT !.intro = FALSE], call))
    /\ UNCHANGED <<modalPage, uses>>

\* PRELUDE_CHOICE_TOKEN, WARNING_CHOICE_TOKEN (layoutTouchCallback)
PreludeChoice ==
    /\ Touch /\ shownPage.type = "PRELUDE"
    /\ IF HAS_INITIAL_WARNING(ui.warning)
       THEN /\ ui' = [ui EXCEPT !.intro = TRUE]
            /\ shownPage' = [NoPage EXCEPT !.type = "INITIAL_WARNING"]
            /\ UNCHANGED call
       ELSE Apply(BeginReview([ui EXCEPT !.intro = FALSE], call))
    /\ UNCHANGED <<modalPage, uses>>

WarningChoice ==
    /\ Touch /\ shownPage.type = "INITIAL_WARNING"
    /\ \/ Answer("false") /\ UNCHANGED <<ui, shownPage>>
       \/ Apply(BeginReview([ui EXCEPT !.intro = FALSE], [call EXCEPT !.acked = TRUE]))
    /\ UNCHANGED <<modalPage, uses>>

\* WARNING_BUTTON_TOKEN and BLIND_WARNING_TOKEN: displaySecurityReport.
TouchWarning ==
    /\ Touch
    /\ \/ shownPage.type = "INITIAL_WARNING" /\ ui.warning.set # {}
       \/ Pages /\ shownPage.topRight # "none"
    /\ IF shownPage.topRight = "BLIND_WARNING"
       THEN ui' = [ui EXCEPT !.intro = FALSE, !.warning = NoWarning]
       ELSE ui' = [ui EXCEPT !.level = 1]
    /\ modalPage' = [NoModal EXCEPT !.kind = "report"]
    /\ UNCHANGED <<shownPage, call, uses>>

\* A bar of the report (FIRST_WARN_BAR_TOKEN ..) and the way back
\* (DISMISS_WARNING_TOKEN) of modalLayoutTouchCallback.
ReportBar ==
    /\ InModal("report")
    /\ ui.level = 1 /\ ~ui.intro /\ Cardinality(ui.warning.set) > 1
    /\ ui' = [ui EXCEPT !.level = 2]
    /\ UNCHANGED <<shownPage, modalPage, call, uses>>

DismissReport ==
    /\ InModal("report")
    /\ IF ui.level <= 1
       THEN modalPage' = NoModal /\ UNCHANGED ui
       ELSE ui' = [ui EXCEPT !.level = 1] /\ UNCHANGED modalPage
    /\ UNCHANGED <<shownPage, call, uses>>

\* The EXIT_PAGE or the back key of the other modals.
CloseModal ==
    /\ call.answer = "none"
    /\ modalPage.kind \in {"details", "alias", "list"}
    /\ modalPage' = NoModal
    /\ UNCHANGED <<ui, shownPage, call, uses>>

\* QUIT_TOKEN of the settings: onQuit.
Quit ==
    /\ Touch /\ Pages /\ call.kind = "settings"
    /\ Answer("quit")
    /\ UNCHANGED <<ui, shownPage, modalPage, uses>>

-----------------------------------------------------------------------------

ReviewInit ==
    /\ ui = [navType |-> "GENERIC_NAV", contents |-> <<>>, pages |-> <<>>, idx |-> 0, nb |-> 0,
             elt |-> 0, pairs |-> 0, active |-> 0, lay |-> 0, nbPages |-> 0, skip |-> FALSE,
             op |-> {}, asked |-> {}, list |-> <<>>, stepPageNb |-> 0, warning |-> NoWarning,
             intro |-> FALSE, level |-> 0, onChoice |-> "none", onModalConfirm |-> "none",
             found |-> FALSE]
    /\ shownPage = NoPage
    /\ modalPage = NoModal
    /\ call = NoUseCase
    /\ uses = 0

ReviewNext ==
    \/ Review \/ StaticReview \/ AdvancedReview \/ ReviewStreamingStart
    \/ ReviewStreamingContinue \/ ReviewStreamingFinish \/ AddressReview \/ GenericSettings
    \/ Navigate \/ TouchSkip \/ SkipChoice \/ TouchConfirm \/ TouchReject \/ RejectChoice
    \/ TouchDetails \/ DetailsNavigate \/ TouchAlias \/ ListNavigate
    \/ PreludeChoice \/ WarningChoice \/ TouchWarning \/ ReportBar \/ DismissReport
    \/ CloseModal \/ Quit

ReviewSpec == ReviewInit /\ [][ReviewNext]_reviewVars

-----------------------------------------------------------------------------
(* Properties *)

\* The elements of the pages before page p.
Before(pages, p) == FoldLeft(LAMBDA sum, page : sum + page.nb, 0, SubSeq(pages, 1, p))

\* The elements of the contents before content c.
ElementsAhead(contents, c) ==
    FoldLeft(LAMBDA sum, content : sum + Len(content.elts), 0, SubSeq(contents, 1, c))


\* The application is answered "true" only when every tag/value pair it asked
\* the user to review was on the screen, of every chunk of a streamed review
\* too, or the user agreed to skip them; and, when the review has a warning
\* of a risk, only after the user chose to continue past it.
SignedWasShown ==
    call.answer = "true" =>
        /\ call.must \subseteq call.seen \/ call.skipped
        /\ call.warned => call.acked

=============================================================================
