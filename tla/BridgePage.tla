----------------------------- MODULE BridgePage -----------------------------
(***************************************************************************)
(* The list of cross-chain matches: useBridgeMatches() of                  *)
(* lib/hooks/useBridgeMatches.ts against the pages of                      *)
(* api/v1/bridge/matches.  Rows are numbered as they are created; several  *)
(* may carry one createdAt.                                                *)
(***************************************************************************)
EXTENDS Naturals, Sequences, FiniteSets, SequencesExt

CONSTANTS
    Statuses,       \* values of the status filter, "any" for none
    MatchLimit,     \* rows of a page
    createdAt,      \* of each row, in the order of their creation
    statusOf,       \* of each row
    RowsAtStart,    \* rows there when the page opens
    MaxListLoads,   \* bound: requests
    MaxListFaults   \* bound: requests that fail

ASSUME BridgeFeedAssumption ==
    /\ {MatchLimit, RowsAtStart, MaxListLoads, MaxListFaults} \subseteq Nat /\ MatchLimit > 0
    /\ createdAt \in Seq(Nat) /\ DOMAIN createdAt = DOMAIN statusOf /\ RowsAtStart <= Len(createdAt)
    /\ \A r, s \in DOMAIN createdAt : r <= s => createdAt[r] <= createdAt[s]

VARIABLES
    created,     \* rows there are
    status,      \* the filter
    matches,     \* rows listed
    cursor, hasMore, loadingList,
    asked,       \* requests under way: [status, append, cursor]
    loads, listFaults,
    crossed      \* history: two requests were under way at once

listvars == <<created, status, matches, cursor, hasMore, loadingList, asked, loads, listFaults, crossed>>

FeedRequest(s, append, c) == [status |-> s, append |-> append, cursor |-> c]

ListInit ==
    /\ created = RowsAtStart /\ status = "any" /\ matches = <<>> /\ cursor = 0 /\ hasMore = FALSE
    /\ loadingList = TRUE /\ asked = {FeedRequest("any", FALSE, 0)}
    /\ loads = 1 /\ listFaults = 0 /\ crossed = FALSE

\* The rows of a page, newest first: as many as fit, each behind those that are newer.
PageRows(rows) ==
    LET size == IF Cardinality(rows) < MatchLimit THEN Cardinality(rows) ELSE MatchLimit
    IN  [n \in 1 .. size |-> CHOOSE r \in rows : Cardinality({s \in rows : s > r}) = n - 1]

PageOf(rows) ==
    [data |-> PageRows(rows), next |-> IF Len(PageRows(rows)) = MatchLimit THEN createdAt[Last(PageRows(rows))] ELSE 0]

\* Regression: the rows before the cursor's predecessor.
MatchesPageBefore(q) ==
    PageOf({r \in 1 .. created : q.status \in {"any", statusOf[r]} /\
                                (q.cursor = 0 \/ createdAt[r] + 1 < q.cursor)})

\* GET /api/v1/bridge/matches: newest first, before the cursor, and a cursor for more
\* when the page is full.  Rows of one createdAt come in any fixed order: here by row.
MatchesPage(q) ==
    PageOf({r \in 1 .. created : q.status \in {"any", statusOf[r]} /\
                                (q.cursor = 0 \/ createdAt[r] < q.cursor)})

fetchMatches(q) ==
    /\ loads < MaxListLoads /\ loads' = loads + 1
    /\ loadingList' = TRUE /\ asked' = asked \cup {q}
    /\ crossed' = (crossed \/ asked # {})

\* The effect of a new filter; the timer and the button; the button for more.
ChangeStatus(s) ==
    /\ s # status /\ status' = s
    /\ matches' = <<>> /\ cursor' = 0
    /\ fetchMatches(FeedRequest(s, FALSE, 0))
    /\ UNCHANGED <<created, hasMore, listFaults>>

refresh == fetchMatches(FeedRequest(status, FALSE, 0))
           /\ UNCHANGED <<created, status, matches, cursor, hasMore, listFaults>>

\* Regression: more of the list starts from the top again.
loadMoreTop == hasMore /\ fetchMatches(FeedRequest(status, TRUE, 0))
               /\ UNCHANGED <<created, status, matches, cursor, hasMore, listFaults>>

loadMore == hasMore /\ fetchMatches(FeedRequest(status, TRUE, cursor))
            /\ UNCHANGED <<created, status, matches, cursor, hasMore, listFaults>>

\* Regression: a refresh keeps the pages below it.
ReceivePageKeep(q) ==
    /\ q \in asked /\ asked' = asked \ {q}
    /\ LET answer == MatchesPage(q)
       IN  /\ matches' = IF q.append THEN matches \o answer.data
                         ELSE answer.data \o SelectSeq(matches, LAMBDA r : r \notin Range(answer.data))
           /\ cursor' = answer.next /\ hasMore' = (answer.next # 0)
    /\ loadingList' = FALSE
    /\ UNCHANGED <<created, status, loads, listFaults, crossed>>

\* An answer is taken as it comes, whatever was asked since.
ReceivePage(q) ==
    /\ q \in asked /\ asked' = asked \ {q}
    /\ LET answer == MatchesPage(q)
       IN  /\ matches' = IF q.append THEN matches \o answer.data ELSE answer.data
           /\ cursor' = answer.next /\ hasMore' = (answer.next # 0)
    /\ loadingList' = FALSE
    /\ UNCHANGED <<created, status, loads, listFaults, crossed>>

PageFails(q) ==
    /\ q \in asked /\ asked' = asked \ {q}
    /\ listFaults < MaxListFaults /\ listFaults' = listFaults + 1
    /\ loadingList' = FALSE
    /\ UNCHANGED <<created, status, matches, cursor, hasMore, loads, crossed>>

RowCreated ==
    /\ created < Len(createdAt) /\ created' = created + 1
    /\ UNCHANGED <<status, matches, cursor, hasMore, loadingList, asked, loads, listFaults, crossed>>

ListNext ==
    \/ refresh \/ loadMore \/ RowCreated \/ \E s \in Statuses : ChangeStatus(s)
    \/ \E q \in asked : ReceivePage(q) \/ PageFails(q)

ListSpec == ListInit /\ [][ListNext]_listvars

-----------------------------------------------------------------------------
(* Properties, as long as requests do not cross: one that does can list  *)
(* rows of another filter, twice, or in the wrong place.                 *)

\* Rows are listed once, newest first, and match the filter, while new ones arrive.
ListedOnce ==
    ~crossed =>
        /\ \A n \in 1 .. Len(matches) - 1 : matches[n] > matches[n + 1]
        /\ \A r \in Range(matches) : status \in {"any", statusOf[r]}

\* A row is missing between the first and the last one listed only if it has the
\* createdAt of a row that is listed: the cursor passes over the rest of its instant.
MissingAreTies ==
    ~crossed /\ matches # <<>> =>
        \A r \in Last(matches) .. matches[1] :
            status \in {"any", statusOf[r]} /\ r \notin Range(matches) =>
                \E k \in Range(matches) : createdAt[k] = createdAt[r]

-----------------------------------------------------------------------------
(***************************************************************************)
(* useGraphData() of lib/hooks/useGraphData.ts: the graph of contracts and *)
(* addresses that events build up, with its caps on nodes, links and the   *)
(* events kept at a node, and the filter the view applies.                 *)
(***************************************************************************)

CONSTANTS
    GraphEvents,       \* events: [contract, addresses, type]
    ShortTopics,       \* topics that are too short for an address
    MAX_NODES, NodeEvents, MaxLinks,
    MaxBatch,          \* bound: events handed over together
    MaxGraphEvents     \* bound: events handed over between resets

ASSUME InteractionGraphAssumption ==
    /\ {MAX_NODES, NodeEvents, MaxLinks, MaxBatch, MaxGraphEvents} \subseteq Nat
    /\ \A e \in GraphEvents : Len(e.addresses) <= 2

VARIABLES
    nodesMap,     \* ref: nodes in the order they were added, [id, val, events]
    linksArr,     \* ref: [source, target, type]
    graphData,    \* the state the view renders: [nodes, links]
    handed        \* history: events since the reset

graphvars == <<nodesMap, linksArr, graphData, handed>>

GraphInit == nodesMap = <<>> /\ linksArr = <<>> /\ handed = <<>>
             /\ graphData = [nodes |-> <<>>, links |-> <<>>]

Ids(nodes) == {nodes[n].id : n \in DOMAIN nodes}

NewestOf(s, k) == SubSeq(s, IF Len(s) > k THEN Len(s) - k + 1 ELSE 1, Len(s))

\* A node is added while there is room, and counts the event when it is there.
mention(nodes, id, e) ==
    IF id \in Ids(nodes)
    THEN [n \in DOMAIN nodes |->
             IF nodes[n].id = id
             THEN [nodes[n] EXCEPT !.val = @ + 1, !.events = SubSeq(<<e>> \o @, 1, IF Len(@) < NodeEvents THEN Len(@) + 1 ELSE NodeEvents)]
             ELSE nodes[n]]
    ELSE IF Len(nodes) >= MAX_NODES THEN nodes
    ELSE Append(nodes, [id |-> id, val |-> 1, events |-> <<e>>])

\* Regression: an end that found no room is linked all the same.
linkUnchecked(nodes, links, e) ==
    LET src == IF e.addresses # <<>> THEN e.addresses[1] ELSE e.contract
        tgt == IF Len(e.addresses) > 1 THEN e.addresses[2] ELSE e.contract
    IN  IF src # tgt THEN Append(links, [source |-> src, target |-> tgt, type |-> e.type])
        ELSE links

\* From the first address to the second one, the contract standing in for either.
mergeLink(nodes, links, e) ==
    LET src == IF e.addresses # <<>> THEN e.addresses[1] ELSE e.contract
        tgt == IF Len(e.addresses) > 1 THEN e.addresses[2] ELSE e.contract
    IN  IF src # tgt /\ {src, tgt} \subseteq Ids(nodes)
        THEN Append(links, [source |-> src, target |-> tgt, type |-> e.type])
        ELSE links

\* Regression: an event whose contract finds no room still counts at its addresses.
addEventAll(g, e) ==
    LET withContract == mention(g.nodes, e.contract, e)
        nodes == FoldLeft(LAMBDA acc, a : IF a \in ShortTopics THEN acc ELSE mention(acc, a, e),
                          withContract, e.addresses)
    IN  [nodes |-> nodes, links |-> mergeLink(nodes, g.links, e), dirty |-> TRUE]

\* One event: left out whole when its contract finds no room.
addEvent(g, e) ==
    LET withContract == mention(g.nodes, e.contract, e)
        nodes == FoldLeft(LAMBDA acc, a : IF a \in ShortTopics THEN acc ELSE mention(acc, a, e),
                          withContract, e.addresses)
    IN  IF e.contract \notin Ids(withContract) THEN g
        ELSE [nodes |-> nodes, links |-> mergeLink(nodes, g.links, e), dirty |-> TRUE]

addEvents(batch) ==
    /\ Len(handed) + Len(batch) <= MaxGraphEvents /\ handed' = handed \o batch
    /\ LET g == FoldLeft(addEvent, [nodes |-> nodesMap, links |-> linksArr, dirty |-> FALSE], batch)
       IN  /\ nodesMap' = g.nodes /\ linksArr' = g.links
           /\ graphData' = IF g.dirty THEN [nodes |-> g.nodes, links |-> NewestOf(g.links, MaxLinks)]
                           ELSE graphData

\* Regression: a reset leaves the links that are kept aside.
resetNodes ==
    /\ nodesMap' = <<>> /\ handed' = <<>> /\ graphData' = [nodes |-> <<>>, links |-> <<>>]
    /\ UNCHANGED linksArr

reset ==
    /\ nodesMap' = <<>> /\ linksArr' = <<>> /\ handed' = <<>>
    /\ graphData' = [nodes |-> <<>>, links |-> <<>>]

\* What is drawn: nodes with enough events, links of the type between them.
filtered(minInteractions, type) ==
    LET nodes == SelectSeq(graphData.nodes, LAMBDA n : n.val >= minInteractions)
    IN  [nodes |-> nodes,
         links |-> SelectSeq(graphData.links, LAMBDA l : /\ {l.source, l.target} \subseteq Ids(nodes)
                                                         /\ type \in {"", l.type})]

GraphNext ==
    \/ \E batch \in BoundedSeq(GraphEvents, MaxBatch) : addEvents(batch)
    \/ reset

GraphSpec == GraphInit /\ [][GraphNext]_graphvars

-----------------------------------------------------------------------------
(* Properties                                                            *)

\* Both ends of a link the state holds are nodes of it, before any filter: the renderer
\* fails on a mergeLink without its nodes.  Node ids are unique.
LinksHaveEnds ==
    /\ \A n \in DOMAIN graphData.links :
          {graphData.links[n].source, graphData.links[n].target} \subseteq Ids(graphData.nodes)
    /\ Cardinality(Ids(graphData.nodes)) = Len(graphData.nodes)
    /\ Len(graphData.nodes) <= MAX_NODES

\* A node counts every event since the reset that names it, as often as it is named,
\* whose contract is in the graph: the cap loses whole events and nothing else.
ValIsMentions ==
    \A n \in DOMAIN nodesMap :
        LET id == nodesMap[n].id
            Times(e) == IF e.contract \notin Ids(nodesMap) THEN 0
                        ELSE Cardinality({k \in DOMAIN e.addresses : e.addresses[k] = id})
                             + (IF e.contract = id THEN 1 ELSE 0)
        IN  nodesMap[n].val = FoldLeft(LAMBDA acc, e : acc + Times(e), 0, handed)

\* A filter draws the newest links of its type between nodes it draws, and a stricter
\* one never draws what a looser one does not.
FilterNarrows ==
    \A type \in {e.type : e \in GraphEvents}, min \in 1 .. MaxGraphEvents :
        /\ Range(filtered(min, type).links) \subseteq Range(filtered(min, "").links)
        /\ Range(filtered(min + 1, type).links) \subseteq Range(filtered(min, type).links)
        /\ \A l \in Range(filtered(min, type).links) :
              \E e \in Range(handed) : e.type = l.type /\ {l.source, l.target} \subseteq Range(e.addresses) \cup {e.contract}
=============================================================================
