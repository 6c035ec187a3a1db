------------------------------ MODULE Application ------------------------------
(* What the pages of the browser, the stores behind the API and the web hooks *)
(* promise together.  The components share no state: each keeps its part of a *)
(* property by its own steps alone.                                           *)
EXTENDS Webhooks, Dashboard, BridgePage, BrowserWorkers, IpfsOffload, Panels,
        DagBuilder, GraphQL, ColumnStore, Blueprints

\* Work a page hands to its workers comes back whole, in order and for what was asked.
BrowserWorkSafety ==
    /\ ShownInSequence /\ DoneIsWhole /\ StuckOnlyInSilence
    /\ AnsweredFromOwnIndex /\ PendingIsOnItsWay

\* A page shows what its URL, its filters and its user's last choice ask for, whatever
\* requests cross.
PagesSafety ==
    /\ SettledShowsUrl /\ FilterKept /\ InputShowsUrl /\ ButtonsArePages
    /\ ListedOnce /\ MissingAreTies
    /\ ShownIsLookedAt /\ ShownIsActive /\ ClosedWillGo

\* The tree of a transaction's calls follows the host that makes them.
DagSafety == NodesFormTree /\ StackFollowsHost

\* What the API's stores and the browser's hold is what was written, once, and what is
\* answered from them is theirs.
StoresSafety ==
    /\ SchemaIsCurrent /\ FreshRowsAreOwn /\ AnswerWithinComplexity
    /\ ColumnStoreSafety /\ BlueprintsSafety /\ FieldsRecoverable

\* Nothing leaves the screen before its time without being closed, and a filter's pages
\* start anew with it.
StepsHaveCause == GoesForCause /\ FilterRestartsPages
=============================================================================
