----------------------------- MODULE Dashboard -----------------------------
(***************************************************************************)
(* The dashboard of app/dashboard/DashboardClient.tsx: filters kept in the *)
(* URL (useEventFilters, useUrlSync) and set by the controls of            *)
(* components/dashboard/FilterBuilder.tsx, the page fetched for them from  *)
(* api/v1/events, and live events put before it.  An event has a contract  *)
(* and a type, which the server filters by.  The start ledger stands for   *)
(* the numeric filters; it is applied in the browser, to that page.        *)
(***************************************************************************)
EXTENDS Naturals, Sequences, FiniteSets, SequencesExt

CONSTANTS
    DashboardContracts,       \* contracts events belong to
    EventTypes,      \* types events have
    PageLimit,       \* events of a page
    LedgerTexts,     \* what may be typed as the start ledger; 0 is the empty text
    InitialFeed,     \* events stored when the page opens
    MOCK_RAW_EVENTS, \* events shown when they cannot be had
    SideButtons,     \* page buttons on either side of the current one
    Arriving,        \* bound: events that may arrive
    MaxFeedEvents,   \* bound: events stored
    MaxNavigations,  \* bound: changes of the URL
    MaxPageFaults    \* bound: requests that fail

Events == [contract : DashboardContracts, type : EventTypes]

ASSUME DashboardAssumption ==
    /\ {PageLimit, SideButtons, MaxFeedEvents, MaxNavigations, MaxPageFaults} \subseteq Nat /\ PageLimit > 0
    /\ "all" \notin DashboardContracts \cup EventTypes /\ 0 \in LedgerTexts
    /\ Arriving \subseteq Events /\ InitialFeed \in Seq(Events) /\ MOCK_RAW_EVENTS \in Seq(Events)

VARIABLES
    feed,        \* the stored events, the newest first
    location,    \* the URL: [contract, type, ledger, page], "all" and ledger 0 without a filter
    replacing,   \* URLs router.replace() was given and has not shown yet
    fetches,     \* requests: [filters, aborted], in the order of their start
    shownPage,       \* what is rendered: [filters, events, total, mock], the table of one answer
    liveEvents,  \* the live events shown before it
    isLoading,
    ledgerInput,     \* text of the input of the start ledger
    inputFocused,    \* it has the focus
    chosen,      \* history: the contract asked for last
    favourite,   \* history: it was the sidebar that asked for the last change
    overlapped,  \* history: one change of the URL began before another had ended
    navigations, pageFaults

inputvars == <<ledgerInput, inputFocused>>
dashvars == <<feed, location, replacing, fetches, shownPage, liveEvents, isLoading, inputvars, chosen,
              favourite, overlapped, navigations, pageFaults>>

\* The filters of a URL that the server applies.
Asked(l) == [contract |-> l.contract, type |-> l.type, page |-> l.page]

DashInit ==
    LET start == [contract |-> "all", type |-> "all", ledger |-> 0, page |-> 1]
    IN  /\ feed = InitialFeed /\ location = start /\ replacing = <<>>
        /\ ledgerInput = 0 /\ inputFocused = FALSE
        /\ fetches = <<[filters |-> Asked(start), aborted |-> FALSE]>>
        /\ shownPage = [filters |-> [contract |-> "none", type |-> "all", page |-> 1], events |-> <<>>,
                        total |-> 0, mock |-> FALSE]
        /\ liveEvents = <<>> /\ isLoading = TRUE
        /\ chosen = "all" /\ favourite = FALSE /\ overlapped = FALSE /\ navigations = 0 /\ pageFaults = 0

Pages(total) == IF total = 0 THEN 1 ELSE (total + PageLimit - 1) \div PageLimit

Matches(e, f) == f.contract \in {"all", e.contract} /\ f.type \in {"all", e.type}
Matching(list, f) == SelectSeq(list, LAMBDA e : Matches(e, f))
Counted(list, f) == Cardinality({n \in DOMAIN list : Matches(list[n], f)})

\* GET /api/v1/events: the page of the events that match, which are the stored ones or,
\* when the database fails, the mock events.
EventsPage(list, f) ==
    LET skip == (f.page - 1) * PageLimit
        total == Counted(list, f)
        last == IF skip + PageLimit < total THEN skip + PageLimit ELSE total
    IN  [filters |-> f, events |-> SubSeq(Matching(list, f), skip + 1, last), total |-> total, mock |-> FALSE]

-----------------------------------------------------------------------------
(* setParams() starts from the URL shown, not from one on its way.       *)

RouterReplace(next, wanted, pinned) ==
    /\ navigations < MaxNavigations /\ navigations' = navigations + 1
    /\ replacing' = Append(replacing, next) /\ chosen' = wanted /\ favourite' = pinned
    /\ overlapped' = (overlapped \/ replacing # <<>>)
    /\ UNCHANGED <<feed, location, fetches, shownPage, liveEvents, isLoading, pageFaults>>

\* handleFavoriteSelect(), setFilters(): the page stays as it is.
SetFilters(c) == RouterReplace([location EXCEPT !.contract = c], c, TRUE) /\ UNCHANGED inputvars

\* Regression: a filter that changes keeps the page.
setParamOnPage(f) == RouterReplace(f, f.contract, FALSE)

\* setParam() of FilterBuilder: a filter that changes starts from the first page.
setParam(f) == RouterReplace([f EXCEPT !.page = 1], f.contract, FALSE)

\* The lists of contracts and of event types; a control takes the focus from the input.
SelectContract(c) ==
    ~inputFocused /\ setParam([location EXCEPT !.contract = c]) /\ UNCHANGED inputvars

SelectType(t) ==
    ~inputFocused /\ setParam([location EXCEPT !.type = t]) /\ UNCHANGED inputvars

\* hasAnyFilter: the button that clears them is there.
Filtered == location.contract # "all" \/ location.type # "all" \/ location.ledger # 0

\* The badge of the start ledger.
RemoveLedger ==
    /\ ~inputFocused /\ location.ledger # 0
    /\ setParam([location EXCEPT !.ledger = 0]) /\ UNCHANGED inputvars

clearAll ==
    /\ ~inputFocused /\ Filtered
    /\ setParam([contract |-> "all", type |-> "all", ledger |-> 0, page |-> 1]) /\ UNCHANGED inputvars

TypeLedger(t) ==
    /\ t # ledgerInput /\ ledgerInput' = t /\ inputFocused' = TRUE
    /\ UNCHANGED <<feed, location, replacing, fetches, shownPage, liveEvents, isLoading, chosen, favourite,
                   overlapped, navigations, pageFaults>>

\* handleNumericSubmit(), when the input loses the focus: also when nothing was typed.
BlurLedger ==
    /\ inputFocused /\ inputFocused' = FALSE /\ UNCHANGED ledgerInput
    /\ setParam([location EXCEPT !.ledger = ledgerInput])

\* Regression: a page change is a fresh URL.
GoToPageFresh(p) ==
    LET last == Pages(shownPage.total)
    IN  p \in 1 .. last /\ RouterReplace([contract |-> "all", type |-> "all", ledger |-> 0, page |-> p], chosen, FALSE)
          /\ UNCHANGED inputvars

\* goToPage(), within the pages of the answer shown.
GoToPage(p) ==
    LET last == Pages(shownPage.total)
    IN  p \in 1 .. last /\ RouterReplace([location EXCEPT !.page = p], chosen, FALSE) /\ UNCHANGED inputvars

Start(l) == [filters |-> Asked(l), aborted |-> FALSE]

\* Regression: the input keeps its text when the filter goes.
SyncInputNever == UNCHANGED inputvars

\* The effect of FilterBuilder: a parameter that changes is the text of its input.
SyncInput ==
    /\ ledgerInput' = IF location'.ledger # location.ledger THEN location'.ledger ELSE ledgerInput
    /\ UNCHANGED inputFocused

\* Regression: the request for the old filters is left running.
NavigateUnaborted ==
    /\ replacing # <<>>
    /\ location' = Head(replacing) /\ replacing' = Tail(replacing)
    /\ SyncInput
    /\ IF Asked(location') = Asked(location) THEN UNCHANGED <<fetches, isLoading>>
       ELSE fetches' = Append(fetches, Start(location')) /\ isLoading' = TRUE
    /\ UNCHANGED <<feed, shownPage, liveEvents, chosen, favourite, overlapped, navigations, pageFaults>>

\* The URL changes; the effect aborts the request before it and sends another.
Navigate ==
    /\ replacing # <<>>
    /\ location' = Head(replacing) /\ replacing' = Tail(replacing)
    /\ SyncInput
    /\ IF Asked(location') = Asked(location) THEN UNCHANGED <<fetches, isLoading>>
       ELSE /\ fetches' = Append([n \in DOMAIN fetches |-> [fetches[n] EXCEPT !.aborted = TRUE]], Start(location'))
            /\ isLoading' = TRUE
    /\ UNCHANGED <<feed, shownPage, liveEvents, chosen, favourite, overlapped, navigations, pageFaults>>

-----------------------------------------------------------------------------
(* fetchEvents().  Every way out of it ends the loading state.           *)

Finally(n) == fetches' = RemoveAt(fetches, n) /\ isLoading' = FALSE

Receive(n) ==
    /\ ~fetches[n].aborted /\ Finally(n)
    /\ shownPage' = EventsPage(feed, fetches[n].filters)
    /\ UNCHANGED <<feed, location, replacing, liveEvents, inputvars, chosen, favourite, overlapped, navigations, pageFaults>>

\* The database of the route fails.
ReceiveMock(n) ==
    /\ ~fetches[n].aborted /\ pageFaults < MaxPageFaults /\ pageFaults' = pageFaults + 1
    /\ Finally(n)
    /\ shownPage' = EventsPage(MOCK_RAW_EVENTS, fetches[n].filters)
    /\ UNCHANGED <<feed, location, replacing, liveEvents, inputvars, chosen, favourite, overlapped, navigations>>

\* Regression: the failure returns before the state is set.
FallBackKeep(n) ==
    /\ ~fetches[n].aborted /\ pageFaults < MaxPageFaults /\ pageFaults' = pageFaults + 1
    /\ Finally(n)
    /\ UNCHANGED <<feed, location, replacing, shownPage, liveEvents, inputvars, chosen, favourite, overlapped, navigations>>

\* The first page, of any type.
FirstOfContract(f) == [contract |-> f.contract, type |-> "all", page |-> 1]

\* A request that fails is answered with the mock events of its contract, as the first
\* page, whichever page and type it was for.
FallBack(n) ==
    LET f == FirstOfContract(fetches[n].filters)
    IN  /\ ~fetches[n].aborted /\ pageFaults < MaxPageFaults /\ pageFaults' = pageFaults + 1
        /\ Finally(n)
        /\ shownPage' = [filters |-> f, events |-> Matching(MOCK_RAW_EVENTS, f),
                          total |-> Counted(MOCK_RAW_EVENTS, f), mock |-> TRUE]
        /\ UNCHANGED <<feed, location, replacing, liveEvents, inputvars, chosen, favourite, overlapped, navigations>>

\* An aborted request ends the loading state of the one after it.
Aborted(n) ==
    /\ fetches[n].aborted /\ Finally(n)
    /\ UNCHANGED <<feed, location, replacing, shownPage, liveEvents, inputvars, chosen, favourite, overlapped, navigations, pageFaults>>

\* An event is stored and arrives live; handleNewEvent() drops those of other contracts,
\* and no change of the filter clears what is there.
NewEvent(e) ==
    /\ Len(feed) < MaxFeedEvents /\ feed' = <<e>> \o feed
    /\ liveEvents' = IF location.contract \in {"all", e.contract} THEN <<e>> \o liveEvents ELSE liveEvents
    /\ UNCHANGED <<location, replacing, fetches, shownPage, isLoading, inputvars, chosen, favourite, overlapped,
                   navigations, pageFaults>>

DashNext ==
    \/ \E c \in DashboardContracts : SetFilters(c)
    \/ \E e \in Arriving : NewEvent(e)
    \/ \E c \in DashboardContracts \cup {"all"} : SelectContract(c)
    \/ \E t \in EventTypes \cup {"all"} : SelectType(t)
    \/ \E t \in LedgerTexts : TypeLedger(t)
    \/ RemoveLedger \/ clearAll \/ BlurLedger
    \/ \E p \in 1 .. MaxFeedEvents : GoToPage(p)
    \/ Navigate
    \/ \E n \in DOMAIN fetches : Receive(n) \/ ReceiveMock(n) \/ FallBack(n) \/ Aborted(n)

\* Every request is answered or fails, and every replace() is shown.
DashSpec == DashInit /\ [][DashNext]_dashvars
              /\ WF_dashvars(Navigate) /\ WF_dashvars(\E n \in DOMAIN fetches : Receive(n) \/ Aborted(n))

\* Regression: the buttons run past the last page.
pageButtonsPast(current, total) ==
    LET first == CASE total <= 2 * SideButtons + 1 \/ current <= SideButtons + 1 -> 1
                   [] OTHER -> current - SideButtons
        count == IF total < 2 * SideButtons + 1 THEN total ELSE 2 * SideButtons + 1
    IN  first .. first + count - 1

\* The numbers of the page buttons.
pageButtons(current, total) ==
    LET wide == 2 * SideButtons + 1
        first == IF total <= wide \/ current <= SideButtons + 1 THEN 1
                 ELSE IF current >= total - SideButtons THEN total - 2 * SideButtons
                 ELSE current - SideButtons
    IN  first .. first + (IF total < wide THEN total ELSE wide) - 1

-----------------------------------------------------------------------------
(* Properties.                                                           *)

\* What is shown answers the URL: its page of its filters or, when its request failed,
\* the mock events of its contract, as the first page, whatever page the URL names.
ShowsUrl == shownPage.filters = IF shownPage.mock THEN FirstOfContract(Asked(location)) ELSE Asked(location)

\* When no request is under way, what is shown answers the URL, however requests,
\* failures and changes of the filters overlapped.
SettledShowsUrl == fetches = <<>> => ShowsUrl

\* The contract chosen last is the one of the URL once nothing is on its way, unless two
\* changes overlapped: then the second starts from a URL without the first.
FilterKept == replacing = <<>> /\ ~overlapped => location.contract = chosen

\* An input that was left shows the filter that is applied, whichever control changed it
\* last, unless two changes overlapped: the second then starts from a URL without the
\* first, which is dropped while its text stays in the input.
InputShowsUrl == replacing = <<>> /\ ~inputFocused /\ ~overlapped => ledgerInput = location.ledger

SameFilters(l, m) == l.contract = m.contract /\ l.type = m.type /\ l.ledger = m.ledger

\* A control of FilterBuilder that changes a filter, of the server or of the browser, leaves
\* no page of the old filters: the page is the first again, whatever page the user went to
\* before.  The sidebar keeps the page.
FilterRestartsPages ==
    [][~overlapped' /\ ~favourite /\ location'.page # 1 => SameFilters(location', location)]_dashvars

\* The page buttons are pages there are, the current one among them if it exists.
ButtonsArePages ==
    LET total == Pages(shownPage.total)
    IN  /\ pageButtons(shownPage.filters.page, total) \subseteq 1 .. total
        /\ shownPage.filters.page <= total => shownPage.filters.page \in pageButtons(shownPage.filters.page, total)

\* The URL the user asked for last is answered in the end, and the loading state with it ends.
PageArrives == (fetches # <<>> /\ navigations = MaxNavigations) ~> (ShowsUrl /\ ~isLoading)
=============================================================================
