---------------------------- MODULE IpfsOffload ----------------------------
(***************************************************************************)
(* Large fields of events kept on an IPFS node: processEventForIpfs() of   *)
(* lib/ipfs/offloader.ts as events are stored, and the way back:           *)
(* useIpfsResolver() of lib/hooks/useIpfsResolver.ts, the route            *)
(* api/ipfs/resolve and resolveFromIpfs().                                 *)
(*                                                                         *)
(* A field is <<"inline", text>> or the pointer <<"ipfs", cid>>; the cid   *)
(* of a text is the text here.  The node, lib/ipfs/client.ts behind it,    *)
(* refuses a request now and then.                                         *)
(***************************************************************************)
EXTENDS Naturals, Sequences, FiniteSets, SequencesExt

CONSTANTS
    RawFields,        \* of each event: its data and topics, a sequence of texts
    Bloated,          \* texts above the threshold
    MaxIpfsFaults,    \* bound: requests the node refuses
    MaxStores,        \* bound: times an event is stored
    MaxLooks          \* bound: fields looked at

ASSUME IpfsOffloadAssumption ==
    /\ {MaxIpfsFaults, MaxStores, MaxLooks} \subseteq Nat
    /\ 0 \notin DOMAIN RawFields /\ \A e \in DOMAIN RawFields : RawFields[e] \in Seq(Range(RawFields[e]))

VARIABLES
    onNode,           \* texts pinned on the node
    storing,          \* the event being stored: [event, fields, cids]; 0 for none
    stored,           \* rows: event |-> [fields, cids]
    looking,          \* the field under display, <<>> for none
    resolved,         \* the hook's result: [content, loading, error]
    resolveCache,     \* texts by cid, for the life of the page
    resolving,        \* requests under way: [cid, live]
    ipfsFaults, stores, looks

ipfsvars == <<onNode, storing, stored, looking, resolved, resolveCache, resolving, ipfsFaults, stores, looks>>

NoEvent == [event |-> 0, fields |-> <<>>, cids |-> {}]
NoResult == [content |-> "none", loading |-> FALSE, error |-> FALSE]

IpfsInit ==
    /\ onNode = {} /\ storing = NoEvent
    /\ stored = [e \in DOMAIN RawFields |-> [fields |-> <<>>, cids |-> {}]]
    /\ looking = <<>> /\ resolved = NoResult /\ resolveCache = {} /\ resolving = {}
    /\ ipfsFaults = 0 /\ stores = 0 /\ looks = 0

-----------------------------------------------------------------------------
(* Storing                                                               *)

NodeFails == ipfsFaults < MaxIpfsFaults /\ ipfsFaults' = ipfsFaults + 1

StoreBegins(e) ==
    /\ storing = NoEvent /\ stores < MaxStores /\ stores' = stores + 1
    /\ storing' = [event |-> e, fields |-> <<>>, cids |-> {}]
    /\ UNCHANGED <<onNode, stored, looking, resolved, resolveCache, resolving, ipfsFaults, looks>>

NextText == RawFields[storing.event][Len(storing.fields) + 1]
TextsLeft == storing # NoEvent /\ Len(storing.fields) < Len(RawFields[storing.event])

KeepInline ==
    /\ TextsLeft /\ NextText \notin Bloated
    /\ storing' = [storing EXCEPT !.fields = Append(@, <<"inline", NextText>>)]
    /\ UNCHANGED <<onNode, stored, looking, resolved, resolveCache, resolving, ipfsFaults, stores, looks>>

\* add() pins what it adds; the pin() that follows may fail and is not looked at.
OffloadToIpfs ==
    /\ TextsLeft /\ NextText \in Bloated
    /\ onNode' = onNode \cup {NextText}
    /\ storing' = [storing EXCEPT !.fields = Append(@, <<"ipfs", NextText>>), !.cids = @ \cup {NextText}]
    /\ UNCHANGED <<stored, looking, resolved, resolveCache, resolving, ipfsFaults, stores, looks>>

\* Regression: the pointer is kept though the node refused the text.
OffloadFailsPointer ==
    /\ TextsLeft /\ NextText \in Bloated /\ NodeFails
    /\ storing' = [storing EXCEPT !.fields = Append(@, <<"ipfs", NextText>>), !.cids = @ \cup {NextText}]
    /\ UNCHANGED <<onNode, stored, looking, resolved, resolveCache, resolving, stores, looks>>

\* add() gives null: the text stays in the row.
OffloadFails ==
    /\ TextsLeft /\ NextText \in Bloated /\ NodeFails
    /\ storing' = [storing EXCEPT !.fields = Append(@, <<"inline", NextText>>)]
    /\ UNCHANGED <<onNode, stored, looking, resolved, resolveCache, resolving, stores, looks>>

\* The upsert: no cids leave those of an earlier time in the row.
StoreEnds ==
    /\ storing # NoEvent /\ ~TextsLeft
    /\ stored' = [stored EXCEPT ![storing.event] =
                     [fields |-> storing.fields,
                      cids |-> IF storing.cids = {} THEN @.cids ELSE storing.cids]]
    /\ storing' = NoEvent
    /\ UNCHANGED <<onNode, looking, resolved, resolveCache, resolving, ipfsFaults, stores, looks>>

-----------------------------------------------------------------------------
(* Showing                                                               *)

extractCid(pointer) == IF pointer[1] = "ipfs" THEN pointer[2] ELSE "null"

\* resolveFromIpfs() extracts the cid of a pointer; the route has taken the prefix off
\* already, so there is no cid to extract.
resolveFromIpfs(pointer) ==
    LET cid == extractCid(pointer)
    IN  IF cid # "null" /\ cid \in onNode THEN cid ELSE "null"

ResolveRoute(input) == resolveFromIpfs(IF input[1] = "ipfs" THEN <<"cid", extractCid(input)>> ELSE input)

Uncancel(all) == {[r EXCEPT !.live = FALSE] : r \in all}

\* Regression: a request for the field shown before may still write the result.
LookLive(field) ==
    /\ looks < MaxLooks /\ looks' = looks + 1 /\ looking' = field
    /\ IF field[1] = "inline" \/ field[2] \in resolveCache
       THEN resolved' = [NoResult EXCEPT !.content = field[2]] /\ resolving' = resolving
       ELSE /\ resolved' = [NoResult EXCEPT !.loading = TRUE]
            /\ resolving' = resolving \cup {[cid |-> field[2], live |-> TRUE]}
    /\ UNCHANGED <<onNode, storing, stored, resolveCache, ipfsFaults, stores>>

\* The effect of a new value; the one before is cancelled.
Look(field) ==
    /\ looks < MaxLooks /\ looks' = looks + 1 /\ looking' = field
    /\ IF field[1] = "inline" \/ field[2] \in resolveCache
       THEN resolved' = [NoResult EXCEPT !.content = field[2]] /\ resolving' = Uncancel(resolving)
       ELSE /\ resolved' = [NoResult EXCEPT !.loading = TRUE]
            /\ resolving' = Uncancel(resolving) \cup {[cid |-> field[2], live |-> TRUE]}
    /\ UNCHANGED <<onNode, storing, stored, resolveCache, ipfsFaults, stores>>

LookAway ==
    /\ looking' = <<>> /\ resolved' = NoResult /\ resolving' = Uncancel(resolving)
    /\ UNCHANGED <<onNode, storing, stored, resolveCache, ipfsFaults, stores, looks>>

Answered(r, content) ==
    /\ resolving' = resolving \ {r}
    /\ resolved' = IF ~r.live THEN resolved
                   ELSE IF content # "null" THEN [NoResult EXCEPT !.content = content]
                   ELSE [NoResult EXCEPT !.error = TRUE]
    /\ UNCHANGED <<onNode, storing, stored, looking, stores, looks>>

\* fetchFromApi() sends the bare cid.
Resolve(r) ==
    LET content == ResolveRoute(<<"cid", r.cid>>)
    IN  /\ r \in resolving
        /\ resolveCache' = IF content # "null" THEN resolveCache \cup {r.cid} ELSE resolveCache
        /\ Answered(r, content) /\ UNCHANGED ipfsFaults

ResolveFails(r) ==
    /\ r \in resolving /\ NodeFails /\ Answered(r, "null") /\ UNCHANGED resolveCache

IpfsNext ==
    \/ \E e \in DOMAIN RawFields : StoreBegins(e)
    \/ KeepInline \/ OffloadToIpfs \/ OffloadFails \/ StoreEnds
    \/ \E e \in DOMAIN RawFields : \E n \in DOMAIN stored[e].fields : Look(stored[e].fields[n])
    \/ LookAway \/ \E r \in resolving : Resolve(r) \/ ResolveFails(r)

IpfsSpec == IpfsInit /\ [][IpfsNext]_ipfsvars

-----------------------------------------------------------------------------
(* Properties                                                            *)

\* Nothing is lost on the way in: every field of a stored event holds its text, or a
\* pointer whose text the node has and whose cid the row lists.
FieldsRecoverable ==
    \A e \in DOMAIN RawFields : \A n \in DOMAIN stored[e].fields :
        LET f == stored[e].fields[n]
        IN  /\ f[2] = RawFields[e][n]
            /\ f[1] = "ipfs" => f[2] \in onNode /\ f[2] \in stored[e].cids

\* What is displayed is about the field looked at: no answer for an earlier field is
\* shown, and the spinner turns exactly while a request for this field is under way.
ShownIsLookedAt ==
    /\ resolved.content # "none" => looking # <<>> /\ resolved.content = looking[2]
    /\ resolved.loading <=> \E r \in resolving : r.live
    /\ \A r \in resolving : r.live => looking # <<>> /\ r.cid = looking[2]

\* "Resolves an IPFS CID (with or without "ipfs:" prefix) and returns the stored
\* content", api/ipfs/resolve/route.ts:5: an error is shown only when the node failed.
StoredContentResolves == resolved.error => ipfsFaults > 0
=============================================================================
