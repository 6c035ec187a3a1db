------------------------------- MODULE Panels -------------------------------
(***************************************************************************)
(* The execution graph of a transaction on the page: the form of           *)
(* components/dag/DagExplorer.tsx, useExecutionDag() of                    *)
(* lib/hooks/useExecutionDag.ts and the route api/v1/dag/[txHash].         *)
(***************************************************************************)
EXTENDS Naturals, FiniteSets, Sequences, SequencesExt

CONSTANTS
    TxHashes, BadHashes,   \* inputs that are 64 hex characters, and that are not
    DagOf,                 \* what the chain has for each of TxHashes
    MaxDagRequests, MaxDagFaults

\* What the node may have: no transaction yet, no meta, no diagnostic events, or a graph.
ASSUME DagPanelAssumption ==
    /\ {MaxDagRequests, MaxDagFaults} \subseteq Nat /\ "none" \notin TxHashes
    /\ DagOf \in [TxHashes -> {"no_meta", "no_events", "graph"}]

VARIABLES
    activeTx,       \* the transaction of the effect, "none" for none
    inputError,
    dagState,       \* [dag, loading, error]: dag is the transaction it is of
    dagCalls,       \* requests under way: [tx, no, live]
    dagRequests, dagFaults,
    closedTxs       \* transactions the chain has

dagpanelvars == <<activeTx, inputError, dagState, dagCalls, dagRequests, dagFaults, closedTxs>>

DagPanelInit ==
    /\ activeTx = "none" /\ inputError = FALSE
    /\ dagState = [dag |-> "none", loading |-> FALSE, error |-> "none"]
    /\ dagCalls = {} /\ dagRequests = 0 /\ dagFaults = 0 /\ closedTxs = {}

Cancelled == {[c EXCEPT !.live = FALSE] : c \in dagCalls}

\* Regression: the effect does not cancel the request of the one before.
FetchDagBeside(tx) ==
    /\ dagRequests < MaxDagRequests /\ dagRequests' = dagRequests + 1
    /\ dagState' = [dag |-> "none", loading |-> TRUE, error |-> "none"]
    /\ dagCalls' = dagCalls \cup {[tx |-> tx, no |-> dagRequests + 1, live |-> TRUE]}
    /\ UNCHANGED <<dagFaults, closedTxs>>

\* The effect of a new hash or a new epoch.
FetchDag(tx) ==
    /\ dagRequests < MaxDagRequests /\ dagRequests' = dagRequests + 1
    /\ dagState' = [dag |-> "none", loading |-> TRUE, error |-> "none"]
    /\ dagCalls' = Cancelled \cup {[tx |-> tx, no |-> dagRequests + 1, live |-> TRUE]}
    /\ UNCHANGED <<dagFaults, closedTxs>>

\* handleSubmit: the button is disabled while loading.  The same hash is fetched again.
SubmitTx(tx) ==
    /\ ~dagState.loading
    /\ inputError' = FALSE /\ activeTx' = tx
    /\ FetchDag(tx)

SubmitBad ==
    /\ ~dagState.loading /\ inputError' = TRUE
    /\ UNCHANGED <<activeTx, dagState, dagCalls, dagRequests, dagFaults, closedTxs>>

\* loadExample: not disabled; the hash that is active already changes nothing.
LoadExample(tx) ==
    /\ inputError' = FALSE /\ activeTx' = tx
    /\ IF tx # activeTx THEN FetchDag(tx)
       ELSE UNCHANGED <<dagState, dagCalls, dagRequests, dagFaults, closedTxs>>

\* GET: 404 for what the node does not have, has no meta of or no events of.
DagRoute(tx) ==
    IF tx \notin closedTxs THEN "not found"
    ELSE IF DagOf[tx] = "no_meta" THEN "no result meta"
    ELSE IF DagOf[tx] = "no_events" THEN "no diagnostic events"
    ELSE "ok"

Dispatch(c, answer) ==
    /\ dagCalls' = dagCalls \ {c}
    /\ dagState' = IF ~c.live THEN dagState
                   ELSE IF answer = "ok" THEN [dag |-> c.tx, loading |-> FALSE, error |-> "none"]
                   ELSE [dag |-> "none", loading |-> FALSE, error |-> answer]
    /\ UNCHANGED <<activeTx, inputError, dagRequests, closedTxs>>

DagAnswer(c) == c \in dagCalls /\ Dispatch(c, DagRoute(c.tx)) /\ UNCHANGED dagFaults

DagFails(c) ==
    /\ c \in dagCalls /\ dagFaults < MaxDagFaults /\ dagFaults' = dagFaults + 1
    /\ Dispatch(c, "failed")

CloseTx(tx) ==
    /\ tx \notin closedTxs /\ closedTxs' = closedTxs \cup {tx}
    /\ UNCHANGED <<activeTx, inputError, dagState, dagCalls, dagRequests, dagFaults>>

DagPanelNext ==
    \/ \E tx \in TxHashes : SubmitTx(tx) \/ LoadExample(tx) \/ CloseTx(tx)
    \/ (BadHashes # {} /\ SubmitBad)
    \/ \E c \in dagCalls : DagAnswer(c) \/ DagFails(c)

DagPanelSpec == DagPanelInit /\ [][DagPanelNext]_dagpanelvars

-----------------------------------------------------------------------------
(* Property                                                              *)

\* Graph, spinner and error are about the active transaction, however requests for
\* others cross: exactly one of them is shown once a transaction is active, and the
\* spinner has its request under way.
ShownIsActive ==
    /\ dagState.dag # "none" => dagState.dag = activeTx /\ dagState.error = "none"
    /\ activeTx # "none" => Cardinality({x \in {"dag", "loading", "error"} :
            \/ x = "dag" /\ dagState.dag # "none"
            \/ x = "loading" /\ dagState.loading
            \/ x = "error" /\ dagState.error # "none"}) = 1
    /\ dagState.loading <=> \E c \in dagCalls : c.live
    /\ \A c \in dagCalls : c.live => c.tx = activeTx

-----------------------------------------------------------------------------
(***************************************************************************)
(* The toasts of lib/hooks/use-toast.ts: one list outside React, a timer   *)
(* for each toast that was dismissed, and the components that listen.      *)
(***************************************************************************)

CONSTANTS
    TOAST_LIMIT,
    Listeners,      \* components that use the hook
    MaxToasts       \* bound: toasts

ASSUME ToastQueueAssumption == TOAST_LIMIT \in Nat /\ MaxToasts \in Nat

VARIABLES
    toastCount,     \* of genId()
    memoryState,    \* toasts, newest first: [id, open]
    toastTimeouts,  \* toasts with a timer
    rendering,      \* components that have read the list and listen from their effect on
    mounted,        \* components that listen
    rendered,       \* what each of them shows
    stale,          \* history: components a list passed by while they were rendering
    dismissals      \* history: toasts that were dismissed while they were listed

toasters == <<rendering, mounted>>
toastvars == <<toastCount, memoryState, toastTimeouts, toasters, rendered, stale, dismissals>>

ToastInit ==
    /\ toastCount = 0 /\ memoryState = <<>> /\ toastTimeouts = {}
    /\ rendering = {} /\ mounted = {} /\ stale = {}
    /\ rendered = [l \in Listeners |-> <<>>] /\ dismissals = {}

\* dispatch: the new list goes to every component that listens.
dispatch(list) ==
    /\ memoryState' = list
    /\ rendered' = [l \in Listeners |-> IF l \in mounted THEN list ELSE rendered[l]]
    /\ stale' = (stale \ mounted) \cup rendering

Listed(id) == \E n \in DOMAIN memoryState : memoryState[n].id = id

toast ==
    /\ toastCount < MaxToasts /\ toastCount' = toastCount + 1
    /\ LET all == <<[id |-> toastCount + 1, open |-> TRUE]>> \o memoryState
       IN  dispatch(SubSeq(all, 1, IF Len(all) < TOAST_LIMIT THEN Len(all) ELSE TOAST_LIMIT))
    /\ UNCHANGED <<toastTimeouts, toasters, dismissals>>

\* dismiss() of one toast, by its handle or by its close button; the handle outlives it.
DismissToast(id) ==
    /\ id \in 1 .. toastCount
    /\ toastTimeouts' = toastTimeouts \cup {id}
    /\ dispatch([n \in DOMAIN memoryState |->
                    IF memoryState[n].id = id THEN [memoryState[n] EXCEPT !.open = FALSE] ELSE memoryState[n]])
    /\ dismissals' = IF Listed(id) THEN dismissals \cup {id} ELSE dismissals
    /\ UNCHANGED <<toastCount, toasters>>

\* Regression: dismissing them all closes them without a timer.
DismissAllNoTimer ==
    /\ dispatch([n \in DOMAIN memoryState |-> [memoryState[n] EXCEPT !.open = FALSE]])
    /\ dismissals' = dismissals \cup {memoryState[n].id : n \in DOMAIN memoryState}
    /\ UNCHANGED <<toastCount, toasters, toastTimeouts>>

DismissAll ==
    /\ toastTimeouts' = toastTimeouts \cup {memoryState[n].id : n \in DOMAIN memoryState}
    /\ dispatch([n \in DOMAIN memoryState |-> [memoryState[n] EXCEPT !.open = FALSE]])
    /\ dismissals' = dismissals \cup {memoryState[n].id : n \in DOMAIN memoryState}
    /\ UNCHANGED <<toastCount, toasters>>

\* Regression: a timer removes whatever is listed.
RemoveToastAny(id) ==
    /\ id \in toastTimeouts /\ toastTimeouts' = toastTimeouts \ {id}
    /\ dispatch(<<>>)
    /\ UNCHANGED <<toastCount, toasters, dismissals>>

\* The timer of a dismissed toast: it is taken from the list if it is still there, where
\* no other toast has its id.
Place(id) == CHOOSE n \in DOMAIN memoryState : memoryState[n].id = id

RemoveToast(id) ==
    /\ id \in toastTimeouts /\ toastTimeouts' = toastTimeouts \ {id}
    /\ dispatch(IF Listed(id) THEN RemoveAt(memoryState, Place(id)) ELSE memoryState)
    /\ UNCHANGED <<toastCount, toasters, dismissals>>

\* The hook starts from the list there is as its component renders.
MountToaster(l) ==
    /\ l \notin mounted \cup rendering /\ rendering' = rendering \cup {l}
    /\ rendered' = [rendered EXCEPT ![l] = memoryState] /\ stale' = stale \ {l}
    /\ UNCHANGED <<toastCount, memoryState, toastTimeouts, mounted, dismissals>>

\* Its effect: the component listens from now on.  What was dispatched since it rendered
\* has passed it by.
Listen(l) ==
    /\ l \in rendering /\ rendering' = rendering \ {l} /\ mounted' = mounted \cup {l}
    /\ UNCHANGED <<toastCount, memoryState, toastTimeouts, rendered, stale, dismissals>>

UnmountToaster(l) ==
    /\ l \in mounted /\ mounted' = mounted \ {l}
    /\ UNCHANGED <<toastCount, memoryState, toastTimeouts, rendering, rendered, stale, dismissals>>

ToastNext ==
    \/ toast \/ DismissAll
    \/ \E id \in 1 .. toastCount : DismissToast(id) \/ RemoveToast(id)
    \/ \E l \in Listeners : MountToaster(l) \/ Listen(l) \/ UnmountToaster(l)

ToastSpec == ToastInit /\ [][ToastNext]_toastvars

-----------------------------------------------------------------------------
(* Properties                                                            *)

\* A toast that is closed will go: it is listed with a timer running.  What is listed is
\* open or was dismissed.  A component shows the list there is, unless one was dispatched
\* between its render and its effect, and then until the next is.
ClosedWillGo ==
    /\ \A n \in DOMAIN memoryState :
          ~memoryState[n].open => memoryState[n].id \in toastTimeouts \cap dismissals
    /\ \A l \in (mounted \cup rendering) \ stale : rendered[l] = memoryState

\* A toast leaves the list for a newer one or because it was dismissed: the timer of an
\* older toast never takes a newer one away.
GoesForCause ==
    [][\A n \in DOMAIN memoryState :
          (\A k \in DOMAIN memoryState' : memoryState'[k].id # memoryState[n].id) =>
              ~memoryState[n].open \/ toastCount' = toastCount + 1]_toastvars
=============================================================================
