----------------------------- MODULE NbglPaging -----------------------------
(***************************************************************************)
(* How the touch devices cut contents into pages: the pure part of         *)
(* lib_nbgl/src/nbgl_use_case.c.  Heights are in units of a text block;    *)
(* the margins between blocks belong to the blocks.                        *)
(***************************************************************************)
EXTENDS Integers, Sequences, SequencesExt

\* The heights of the page areas, and what the bars and buttons take of them.
TAG_VALUE_AREA_HEIGHT == 4
TOUCHABLE_HEADER == 1
UP_FOOTER_BUTTON_HEIGHT == 2
SMALL_BUTTON == 1
INFOS_AREA_HEIGHT == 4
SIMPLE_FOOTER_HEIGHT == 1
ADDR_VERIF_NB_PAIRS == 3

\* An element of a content: its height, and for a tag/value pair whether its
\* value has too many lines, must start a page, is shown centered, or is an
\* alias, for a text or for a list of pairs.
Element(h) == [h |-> h, long |-> FALSE, force |-> FALSE, center |-> FALSE, alias |-> "none"]

Heights(list, from, to) ==
    FoldLeft(LAMBDA sum, e : sum + e.h, 0, SubSeq(list, from + 1, to))

Smaller(a, b) == IF a < b THEN a ELSE b

Largest(S) == CHOOSE x \in S : \A y \in S : y <= x

\* The space for the pairs, under the bar to skip them.
TagValueArea(isSkippable) ==
    TAG_VALUE_AREA_HEIGHT - (IF isSkippable THEN TOUCHABLE_HEADER ELSE 0)

\* A pair that needs a page and a display of its own.
Special(pair, area) == pair.center \/ pair.h >= area \/ pair.long

\* The pairs from "start" on that fit: a pair that must start a page, or is
\* shown centered, is not looked at.
StartsPage(pair) == pair.force \/ pair.center

NbFitting(nbPairs, list, start, area) ==
    IF Special(list[start + 1], area) THEN 1
    ELSE Largest({k \in 1 .. nbPairs :
                     \A i \in 1 .. k - 1 :
                        /\ ~StartsPage(list[start + i + 1])
                        /\ ~list[start + i + 1].long
                        /\ Heights(list, start, start + i + 1) < area})

\* The height counted for nb pairs, with the pair that did not fit.
CountedHeight(nb, nbPairs, list, start, area) ==
    IF list[start + 1].center THEN 0
    ELSE IF /\ nb < nbPairs
            /\ ~Special(list[start + 1], area)
            /\ ~StartsPage(list[start + nb + 1])
         THEN Heights(list, start, start + nb + 1)
         ELSE Heights(list, start, start + nb)

\* A button takes the last of several pairs off the page, never the only one.
WithButton(nb, height, available) == IF height > available /\ nb > 1 THEN nb - 1 ELSE nb

WithButtons(nb, nbPairs, height, area, hasConfirmationButton, hasDetailsButton) ==
    IF hasConfirmationButton /\ nb = nbPairs
    THEN WithButton(nb, height, area - UP_FOOTER_BUTTON_HEIGHT)
    ELSE IF hasDetailsButton THEN WithButton(nb, height, area - SMALL_BUTTON)
    ELSE nb

NbWithButtons(nb, nbPairs, list, start, area, hasConfirmationButton, hasDetailsButton) ==
    WithButtons(nb, nbPairs, CountedHeight(nb, nbPairs, list, start, area), area,
                hasConfirmationButton, hasDetailsButton)

\* getNbTagValuesInPage: the pairs of the page starting at pair "start", and
\* whether its only pair needs a specific display.
getNbTagValuesInPage(nbPairs, list, start, isSkippable, hasConfirmationButton, hasDetailsButton) ==
    [nb |-> NbWithButtons(NbFitting(nbPairs, list, start, TagValueArea(isSkippable)),
                          nbPairs, list, start, TagValueArea(isSkippable),
                          hasConfirmationButton, hasDetailsButton),
     flag |-> Special(list[start + 1], TagValueArea(isSkippable))]

\* nbgl_useCaseGetNbInfosInPage, ...SwitchesInPage, ...BarsInPage and
\* ...ChoicesInPage: without a navigation bar the last item may have to leave
\* room for it; for infos and choices only when another page follows.
NbItems(nbItems, list, start, area) ==
    Largest({k \in 0 .. nbItems : \A i \in 1 .. k : Heights(list, start, start + i) < area})

WithoutNav(nb, type, nbItems, list, start) ==
    IF /\ Heights(list, start, start + nb) >= INFOS_AREA_HEIGHT - SIMPLE_FOOTER_HEIGHT
       /\ nb < nbItems \/ type \in {"SWITCHES_LIST", "BARS_LIST"}
    THEN nb - 1 ELSE nb

getNbItemsInPage(type, nbItems, list, start, withNav) ==
    IF withNav THEN NbItems(nbItems, list, start, INFOS_AREA_HEIGHT - SIMPLE_FOOTER_HEIGHT)
    ELSE WithoutNav(NbItems(nbItems, list, start, INFOS_AREA_HEIGHT), type, nbItems, list, start)

\* getNbPagesForContent: the page [nb, flag] of a content that starts at
\* element "from", "page" being the index of the first page of the content,
\* and the pages of all its elements (each page has at least one).
PageAt(content, from, page, isLast, isSkippable, nbElements) ==
    IF content.type = "TAG_VALUE_LIST"
    THEN getNbTagValuesInPage(nbElements, content.elts, from, isSkippable, FALSE, FALSE)
    ELSE IF content.type = "TAG_VALUE_CONFIRM"
    THEN getNbTagValuesInPage(nbElements, content.elts, from, isSkippable, isLast, ~isLast)
    ELSE IF content.type \in {"INFOS_LIST", "SWITCHES_LIST", "BARS_LIST", "CHOICES_LIST"}
    THEN [nb |-> getNbItemsInPage(content.type, nbElements, content.elts, from,
                                  ~isLast \/ page > 0 \/ from > 0),
          flag |-> FALSE]
    ELSE [nb |-> 1, flag |-> FALSE]

\* The pages so far and the element they end at, with one page more.
OnePageMore(r, content, page, isLast, isSkippable) ==
    IF r.at = Len(content.elts) THEN r
    ELSE [at |-> r.at + PageAt(content, r.at, page, isLast, isSkippable,
                               Len(content.elts) - r.at).nb,
          pages |-> Append(r.pages, PageAt(content, r.at, page, isLast, isSkippable,
                                           Len(content.elts) - r.at))]

getNbPagesForContent(content, pageIdxStart, isLast, isSkippable) ==
    FoldLeft(LAMBDA r, i : OnePageMore(r, content, pageIdxStart, isLast, isSkippable),
             [at |-> 0, pages |-> <<>>], content.elts).pages

\* getNbPagesForGenericContents: the page table of all the contents.
getNbPagesForGenericContents(contents, isSkippable) ==
    FoldLeft(LAMBDA pages, i :
                pages \o getNbPagesForContent(contents[i], Len(pages), i = Len(contents), isSkippable),
             <<>>, [i \in 1 .. Len(contents) |-> i])

\* getNbTagValuesInDetailsPage: the pairs of a page of the modal list.
getNbTagValuesInDetailsPage(nbPairs, list, start) ==
    Largest({k \in 0 .. nbPairs :
                \A i \in 1 .. k : Heights(list, start, start + i) < TAG_VALUE_AREA_HEIGHT})

OneModalPageMore(r, list) ==
    IF r.at = Len(list) THEN r
    ELSE [at |-> r.at + getNbTagValuesInDetailsPage(Len(list) - r.at, list, r.at),
          pages |-> Append(r.pages, getNbTagValuesInDetailsPage(Len(list) - r.at, list, r.at))]

\* displayTagValueListModal: the pages of the list.
ModalPages(list) ==
    FoldLeft(LAMBDA r, e : OneModalPageMore(r, list), [at |-> 0, pages |-> <<>>], list).pages

-----------------------------------------------------------------------------
(* The details of a long value: a text of n characters, CharsPerLine of    *)
(* them per line and NB_MAX_LINES_IN_DETAILS lines per page, of which the  *)
(* last 3 characters become "..." when another page follows.               *)

NB_MAX_LINES_IN_DETAILS == 2
CharsPerLine == 4
LostPerPage == 3

CeilDiv(a, b) == (a + b - 1) \div b

NbLines(n) == CeilDiv(n, CharsPerLine)

\* displayDetails: the number of pages it announces.
WithSpare(pages, lost, last) ==
    pages + lost \div NB_MAX_LINES_IN_DETAILS
          + (IF last + (lost % NB_MAX_LINES_IN_DETAILS) > NB_MAX_LINES_IN_DETAILS THEN 1 ELSE 0)

AnnouncedPages(pages, lines) ==
    IF pages <= 1 THEN pages
    ELSE WithSpare(pages, CeilDiv((pages - 1) * LostPerPage, CharsPerLine),
                   lines - (pages - 1) * NB_MAX_LINES_IN_DETAILS)

DetailsPages(n) == AnnouncedPages(CeilDiv(NbLines(n), NB_MAX_LINES_IN_DETAILS), NbLines(n))

\* The characters a page that is not the last one moves the start by.
DetailsStep == NB_MAX_LINES_IN_DETAILS * CharsPerLine - LostPerPage

\* Does the text from position "at" need another page?
DetailsOverflow(n, at) == NbLines(n - at) > NB_MAX_LINES_IN_DETAILS

\* getDetailsPageAt: the start of a page, found from the beginning of the text.
getDetailsPageAt(n, page) ==
    FoldLeft(LAMBDA at, i : IF DetailsOverflow(n, at) THEN at + DetailsStep ELSE at,
             0, [i \in 1 .. page |-> i])

=============================================================================
