----------------------------- MODULE DagBuilder -----------------------------
(***************************************************************************)
(* The execution tree of lib/dag/engine.ts, built from the diagnostic      *)
(* events of one transaction, beside the calls of the host that emits the  *)
(* events.  Nodes are numbered as they are created.                        *)
(***************************************************************************)
EXTENDS Naturals, Sequences, FiniteSets, SequencesExt

CONSTANTS
    MAX_DEPTH,
    MaxHostDepth,  \* bound: how deep the host nests calls
    MaxHostCalls,  \* bound: calls of the transaction
    MaxInsns       \* bound: instructions the transaction spends

ASSUME DagAssumption ==
    {MAX_DEPTH, MaxHostDepth, MaxHostCalls, MaxInsns} \subseteq Nat

VARIABLES
    dagNodes,      \* [status, selfCpuInsns, totalCpuInsns, parentId, childIds, depth, logs]
    dagStack,   \* ids of open nodes
    host,       \* the host's open calls: [node, own, sub, lost], node 0 when it was ignored
    spent,      \* instructions spent so far
    ended,      \* history, by node: what its call really spent itself and in all
    tooDeep,    \* history: a call was ignored
    unmeasured  \* history: a fn_return came without its counters

dagvars == <<dagNodes, dagStack, host, spent, ended, tooDeep, unmeasured>>

DagInit ==
    /\ dagNodes = <<>> /\ dagStack = <<>> /\ host = <<>> /\ spent = 0 /\ ended = <<>>
    /\ tooDeep = FALSE /\ unmeasured = FALSE

Top == Last(dagStack)
Under == Last(host)

-----------------------------------------------------------------------------
(* The builder.                                                          *)

\* Regression: a call at the limit goes onto the stack.
handleFnCallDeeper ==
    LET parentId == IF dagStack = <<>> THEN 0 ELSE Top
        id == Len(dagNodes) + 1
        node == [status |-> "pending", selfCpuInsns |-> 0, totalCpuInsns |-> 0, parentId |-> parentId,
                 childIds |-> {}, depth |-> Len(dagStack), logs |-> 0]
    IN  IF Len(dagStack) > MAX_DEPTH THEN UNCHANGED <<dagNodes, dagStack>>
        ELSE /\ dagNodes' = Append([i \in DOMAIN dagNodes |-> IF i = parentId
                                  THEN [dagNodes[i] EXCEPT !.childIds = @ \cup {id}] ELSE dagNodes[i]], node)
             /\ dagStack' = Append(dagStack, id)

\* Regression: the parent is the node created last, open or not.
handleFnCallSibling ==
    LET parentId == Len(dagNodes)
        id == Len(dagNodes) + 1
        node == [status |-> "pending", selfCpuInsns |-> 0, totalCpuInsns |-> 0, parentId |-> parentId,
                 childIds |-> {}, depth |-> Len(dagStack), logs |-> 0]
    IN  IF Len(dagStack) >= MAX_DEPTH THEN UNCHANGED <<dagNodes, dagStack>>
        ELSE /\ dagNodes' = Append([i \in DOMAIN dagNodes |-> IF i = parentId
                                  THEN [dagNodes[i] EXCEPT !.childIds = @ \cup {id}] ELSE dagNodes[i]], node)
             /\ dagStack' = Append(dagStack, id)

\* handleFnCall(): a pending child of the node on top; past MAX_DEPTH it is ignored.
handleFnCall ==
    LET parentId == IF dagStack = <<>> THEN 0 ELSE Top
        id == Len(dagNodes) + 1
        node == [status |-> "pending", selfCpuInsns |-> 0, totalCpuInsns |-> 0, parentId |-> parentId,
                 childIds |-> {}, depth |-> Len(dagStack), logs |-> 0]
    IN  IF Len(dagStack) >= MAX_DEPTH THEN UNCHANGED <<dagNodes, dagStack>>
        ELSE /\ dagNodes' = Append([i \in DOMAIN dagNodes |-> IF i = parentId
                                  THEN [dagNodes[i] EXCEPT !.childIds = @ \cup {id}] ELSE dagNodes[i]], node)
             /\ dagStack' = Append(dagStack, id)

Totals(ids) == FoldSet(LAMBDA i, n : n + dagNodes[i].totalCpuInsns, 0, ids)

\* Regression: what the children spent stays with their parent.
handleFnReturnWhole(cpuInsns) ==
    IF dagStack = <<>> THEN UNCHANGED <<dagNodes, dagStack>>
    ELSE /\ dagNodes' = [dagNodes EXCEPT ![Top] = [@ EXCEPT
                !.status = "success", !.totalCpuInsns = cpuInsns, !.selfCpuInsns = cpuInsns]]
         /\ dagStack' = Front(dagStack)

\* handleFnReturn(): the node on top ends; what its children spent is not its own.
handleFnReturn(cpuInsns) ==
    IF dagStack = <<>> THEN UNCHANGED <<dagNodes, dagStack>>
    ELSE LET sum == Totals(dagNodes[Top].childIds)
         IN  /\ dagNodes' = [dagNodes EXCEPT ![Top] = [@ EXCEPT
                    !.status = "success", !.totalCpuInsns = cpuInsns,
                    !.selfCpuInsns = IF cpuInsns >= sum THEN cpuInsns - sum ELSE 0]]
             /\ dagStack' = Front(dagStack)

\* Regression: a failed call stays on the stack.
handleFnErrorStay ==
    /\ dagNodes' = IF dagStack = <<>> THEN dagNodes ELSE [dagNodes EXCEPT ![Top].status = "error"]
    /\ UNCHANGED dagStack

handleFnError ==
    IF dagStack = <<>> THEN UNCHANGED <<dagNodes, dagStack>>
    ELSE /\ dagNodes' = [dagNodes EXCEPT ![Top].status = "error"]
         /\ dagStack' = Front(dagStack)

handleLog ==
    /\ dagNodes' = IF dagStack = <<>> THEN dagNodes ELSE [dagNodes EXCEPT ![Top].logs = @ + 1]
    /\ UNCHANGED dagStack

-----------------------------------------------------------------------------
(* The host: calls nest, and a call's counters include those it made.    *)

HostCalls == Len(ended) + Len(host)

HostCall ==
    /\ Len(host) < MaxHostDepth /\ HostCalls < MaxHostCalls /\ (HostCalls > 0 => host # <<>>)
    /\ handleFnCall
    /\ host' = Append(host, [node |-> IF dagNodes' = dagNodes THEN 0 ELSE Len(dagNodes'), own |-> 0, sub |-> 0, lost |-> 0])
    /\ tooDeep' = (tooDeep \/ Len(host) >= MAX_DEPTH)
    /\ UNCHANGED <<spent, ended, unmeasured>>

HostSpend ==
    /\ host # <<>> /\ spent < MaxInsns
    /\ spent' = spent + 1
    /\ host' = [host EXCEPT ![Len(host)].own = @ + 1]
    /\ UNCHANGED <<dagNodes, dagStack, ended, tooDeep, unmeasured>>

\* The call on top ends; its caller has spent what it spent.
HostEnds(counted) ==
    LET total == Under.own + Under.sub
        rest == Front(host)
    IN  /\ host' = IF rest = <<>> THEN rest
                   ELSE [rest EXCEPT ![Len(rest)].sub = @ + total,
                                     ![Len(rest)].lost = @ + (IF counted THEN 0 ELSE total)]
        /\ ended' = Append(ended, [node |-> Under.node, own |-> Under.own + Under.lost, total |-> total])

\* decodeDiagnosticEvent() reads 0 when the return value carries no counters.
HostReturn(measured) ==
    /\ host # <<>>
    /\ HostEnds(TRUE)
    /\ handleFnReturn(IF measured THEN Under.own + Under.sub ELSE 0)
    /\ unmeasured' = (unmeasured \/ ~measured)
    /\ UNCHANGED <<spent, tooDeep>>

HostError ==
    /\ host # <<>>
    /\ HostEnds(FALSE)
    /\ handleFnError
    /\ UNCHANGED <<spent, tooDeep, unmeasured>>

HostLog ==
    /\ host # <<>> /\ dagNodes # <<>> /\ (dagStack # <<>> => dagNodes[Top].logs = 0)
    /\ handleLog
    /\ UNCHANGED <<host, spent, ended, tooDeep, unmeasured>>

DagNext ==
    HostCall \/ HostSpend \/ HostError \/ HostLog \/ \E measured \in BOOLEAN : HostReturn(measured)

DagSpec == DagInit /\ [][DagNext]_dagvars

\* build()
Roots == {i \in DOMAIN dagNodes : dagNodes[i].parentId = 0}
isComplete == dagStack = <<>>

-----------------------------------------------------------------------------
(* Properties.                                                           *)

DagTypeOK ==
    /\ \A i \in DOMAIN dagNodes :
         /\ dagNodes[i].status \in {"pending", "success", "error"}
         /\ dagNodes[i].selfCpuInsns <= dagNodes[i].totalCpuInsns
         /\ dagNodes[i].parentId \in 0 .. i - 1 /\ dagNodes[i].childIds \subseteq i + 1 .. Len(dagNodes)
    /\ spent \in 0 .. MaxInsns

\* The nodes form a tree whichever calls were ignored: parents and children name each
\* other, a node is one deeper than its parent, and the open nodes are one path of at most
\* MAX_DEPTH from a root.
NodesFormTree ==
    /\ \A i, k \in DOMAIN dagNodes : k \in dagNodes[i].childIds <=> dagNodes[k].parentId = i
    /\ \A i \in DOMAIN dagNodes \ Roots : dagNodes[i].depth = dagNodes[dagNodes[i].parentId].depth + 1
    /\ \A n \in 1 .. Len(dagStack) :
         dagNodes[dagStack[n]].parentId = IF n = 1 THEN 0 ELSE dagStack[n - 1]
    /\ Len(dagStack) <= MAX_DEPTH

\* Unless a call was ignored, the stack holds the host's open calls one by one, and
\* the tree has one root, which is complete when the transaction has ended.
StackFollowsHost ==
    ~tooDeep =>
        /\ dagStack = [n \in DOMAIN host |-> host[n].node]
        /\ Cardinality(Roots) <= 1 /\ (isComplete <=> host = <<>>)

\* A call that returned is charged what it spent itself, and what calls of its own
\* that failed had spent, which report no counters.
SelfCostIsOwn ==
    ~tooDeep /\ ~unmeasured =>
        \A c \in Range(ended) : dagNodes[c.node].status = "success" =>
            dagNodes[c.node].selfCpuInsns = c.own /\ dagNodes[c.node].totalCpuInsns = c.total
=============================================================================
