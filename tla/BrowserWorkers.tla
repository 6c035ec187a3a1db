--------------------------- MODULE BrowserWorkers ---------------------------
(***************************************************************************)
(* useEventTranslator() of lib/hooks/useEventTranslator.ts with            *)
(* loadInChunks() of lib/utils/chunkLoader.ts and the worker of            *)
(* lib/workers/eventTranslator.worker.ts.  A batch of raw events is        *)
(* translated at once when it is small, by the worker when it is large,    *)
(* and brought into the list a chunk per animation frame.                  *)
(***************************************************************************)
EXTENDS Naturals, Sequences, SequencesExt, FiniteSets

CONSTANTS
    CHUNK_THRESHOLD, CHUNK_SIZE,
    BatchSizes,        \* numbers of events of a batch
    MaxBatches         \* bound: batches handed to the hook

ASSUME EventTranslatorAssumption ==
    /\ {CHUNK_THRESHOLD, CHUNK_SIZE, MaxBatches} \subseteq Nat /\ CHUNK_SIZE > 0
    /\ BatchSizes \subseteq Nat

VARIABLES
    rawBatch,        \* the batch of the last effect: [id, size]
    translated,           \* events: items <<batch, index>>
    isTranslating,
    listening,       \* the batch whose handlers listen to the worker, 0 for none
    loaders,         \* chunk loads that are not cancelled: [id, size, next]
    toWorker,        \* batches posted to the worker
    fromWorker,      \* answers: [id, size, ok]
    workerHealth,    \* "absent", "loading", "ready", "broken"
    silenced         \* history: batches the worker will not answer with a result

xlatvars == <<rawBatch, translated, isTranslating, listening, loaders, toWorker, fromWorker,
              workerHealth, silenced>>

Items(b, from, to) == [n \in 1 .. to - from + 1 |-> <<b.id, from + n - 1>>]

XlatInit ==
    /\ rawBatch = [id |-> 0, size |-> 0] /\ translated = <<>> /\ isTranslating = FALSE
    /\ listening = 0 /\ loaders = {} /\ toWorker = <<>> /\ fromWorker = <<>>
    /\ workerHealth = "absent" /\ silenced = {}

\* A small batch: translated and appended at once, behind what is there.
TranslateHere(b) ==
    /\ translated' = translated \o Items(b, 1, b.size)
    /\ isTranslating' = FALSE /\ listening' = 0
    /\ UNCHANGED <<toWorker, workerHealth, silenced>>

\* A large batch: the list is cleared and the batch posted.
TranslateInWorker(b) ==
    /\ translated' = <<>> /\ isTranslating' = TRUE /\ listening' = b.id
    /\ toWorker' = Append(toWorker, b)
    /\ workerHealth' = IF workerHealth = "absent" THEN "loading" ELSE workerHealth
    /\ silenced' = IF workerHealth = "broken" THEN silenced \cup {b.id} ELSE silenced

\* Regression: the loads of the batch before go on.
NewBatchUncancelled(n) ==
    /\ rawBatch.id < MaxBatches
    /\ rawBatch' = [id |-> rawBatch.id + 1, size |-> n]
    /\ IF n = 0 THEN /\ translated' = <<>> /\ isTranslating' = FALSE /\ listening' = 0
                     /\ UNCHANGED <<toWorker, workerHealth, silenced>>
       ELSE IF n <= CHUNK_THRESHOLD THEN TranslateHere(rawBatch')
       ELSE TranslateInWorker(rawBatch')
    /\ UNCHANGED <<loaders, fromWorker>>

\* The effect of a new batch; the one before cancels its load and stops listening.
NewBatch(n) ==
    /\ rawBatch.id < MaxBatches
    /\ rawBatch' = [id |-> rawBatch.id + 1, size |-> n]
    /\ loaders' = {}
    /\ IF n = 0 THEN /\ translated' = <<>> /\ isTranslating' = FALSE /\ listening' = 0
                     /\ UNCHANGED <<toWorker, workerHealth, silenced>>
       ELSE IF n <= CHUNK_THRESHOLD THEN TranslateHere(rawBatch')
       ELSE TranslateInWorker(rawBatch')
    /\ UNCHANGED fromWorker

\* The worker takes the next batch, and answers with the result or the error of it.
WorkerAnswers(ok) ==
    /\ workerHealth \in {"loading", "ready"} /\ toWorker # <<>>
    /\ workerHealth' = "ready" /\ toWorker' = Tail(toWorker)
    /\ fromWorker' = Append(fromWorker, [id |-> Head(toWorker).id, size |-> Head(toWorker).size, ok |-> ok])
    /\ silenced' = IF ok THEN silenced ELSE silenced \cup {Head(toWorker).id}
    /\ UNCHANGED <<rawBatch, translated, isTranslating, listening, loaders>>

\* Regression: the handlers are removed at any message.
HandleMessageOnce ==
    /\ fromWorker # <<>> /\ fromWorker' = Tail(fromWorker)
    /\ LET m == Head(fromWorker)
       IN  IF m.ok /\ m.id = listening
           THEN loaders' = loaders \cup {[id |-> m.id, size |-> m.size, next |-> 1]}
           ELSE UNCHANGED loaders
    /\ listening' = 0
    /\ UNCHANGED <<rawBatch, translated, isTranslating, toWorker, workerHealth, silenced>>

\* handleMessage: the result of the batch that listens is loaded in chunks.
\* Any other message is ignored, the error of that batch too.
HandleMessage ==
    /\ fromWorker # <<>> /\ fromWorker' = Tail(fromWorker)
    /\ LET m == Head(fromWorker)
       IN  IF m.ok /\ m.id = listening
           THEN listening' = 0 /\ loaders' = loaders \cup {[id |-> m.id, size |-> m.size, next |-> 1]}
           ELSE UNCHANGED <<listening, loaders>>
    /\ UNCHANGED <<rawBatch, translated, isTranslating, toWorker, workerHealth, silenced>>

\* handleError: the script cannot be loaded; the batch that listens is translated here.
\* The worker stays, and is posted the next large batch.
WorkerBreaks ==
    /\ workerHealth = "loading" /\ workerHealth' = "broken"
    /\ IF listening # 0
       THEN translated' = Items(rawBatch, 1, rawBatch.size) /\ isTranslating' = FALSE
       ELSE UNCHANGED <<translated, isTranslating>>
    /\ listening' = 0
    /\ UNCHANGED <<rawBatch, loaders, toWorker, fromWorker, silenced>>

\* Regression: the last chunk is dropped when it is not a whole one.
AnimationFrameWhole(l) ==
    LET end == l.next + CHUNK_SIZE - 1
    IN  /\ l \in loaders
        /\ translated' = IF end <= l.size THEN translated \o Items(l, l.next, end) ELSE translated
        /\ loaders' = (loaders \ {l}) \cup IF end < l.size THEN {[l EXCEPT !.next = end + 1]} ELSE {}
        /\ isTranslating' = (end < l.size)
        /\ UNCHANGED <<rawBatch, listening, toWorker, fromWorker, workerHealth, silenced>>

\* loadInChunks: one chunk a frame, and the end after the last one.
AnimationFrame(l) ==
    LET end == IF l.next + CHUNK_SIZE - 1 < l.size THEN l.next + CHUNK_SIZE - 1 ELSE l.size
    IN  /\ l \in loaders
        /\ translated' = translated \o Items(l, l.next, end)
        /\ loaders' = (loaders \ {l}) \cup IF end < l.size THEN {[l EXCEPT !.next = end + 1]} ELSE {}
        /\ isTranslating' = IF end < l.size THEN isTranslating ELSE FALSE
        /\ UNCHANGED <<rawBatch, listening, toWorker, fromWorker, workerHealth, silenced>>

XlatNext ==
    \/ \E n \in BatchSizes : NewBatch(n)
    \/ \E ok \in BOOLEAN : WorkerAnswers(ok)
    \/ HandleMessage \/ WorkerBreaks \/ \E l \in loaders : AnimationFrame(l)

XlatSpec == XlatInit /\ [][XlatNext]_xlatvars

-----------------------------------------------------------------------------
(* Properties                                                            *)

\* No chunk of a batch comes behind a later batch, none is missing and none is there
\* twice, however batches, answers and frames interleave.
ShownInSequence ==
    \A n \in 1 .. Len(translated) :
        \/ translated[n][2] = 1 /\ (n > 1 => translated[n - 1][1] < translated[n][1])
        \/ n > 1 /\ translated[n] = <<translated[n - 1][1], translated[n - 1][2] + 1>>

\* When the hook says it is done, the end of the list is the last batch, whole; after
\* a batch for the worker the list is nothing but that batch.
DoneIsWhole ==
    /\ ~isTranslating /\ rawBatch.size > 0 =>
          /\ Len(translated) >= rawBatch.size
          /\ SubSeq(translated, Len(translated) - rawBatch.size + 1, Len(translated)) = Items(rawBatch, 1, rawBatch.size)
    /\ rawBatch.size > CHUNK_THRESHOLD => \A n \in DOMAIN translated : translated[n][1] = rawBatch.id

\* The hook is translating with nothing left to come only after the worker answered
\* this batch with an error, which the hook ignores, or was broken when it was asked.
StuckOnlyInSilence ==
    isTranslating /\ loaders = {} /\ fromWorker = <<>> /\ (toWorker = <<>> \/ workerHealth = "broken")
        => rawBatch.id \in silenced

-----------------------------------------------------------------------------
(***************************************************************************)
(* The search of the browser: EventSearchClient of                         *)
(* lib/workers/eventSearchClient.ts, its promises and its worker, and the  *)
(* inverted index of lib/workers/eventSearch.worker.ts.                    *)
(*                                                                         *)
(* A text is a sequence of words, and a query one of typed words: each in  *)
(* lower case or all capitals ("OR"), maybe marked as excluded.            *)
(***************************************************************************)

CONSTANTS
    EventSets,       \* by hash: a sequence of documents [contract, words]
    Queries,         \* sequences of typed words, [word, mark]
    SearchContracts,       \* contract filters, "any" for none
    StopWords,       \* words that are not indexed, those of one letter among them
    Capitalised,     \* words a text spells with a capital
    SearchLimit,
    MaxSearchCalls   \* bound: calls of buildIndex(), search() and destroy()

ASSUME EventSearchAssumption == {SearchLimit, MaxSearchCalls} \subseteq Nat

VARIABLES
    builtForEventsHash,
    pendingCalls,     \* call |-> [kind, hash]
    toSearch,         \* messages to the worker: [call, kind, hash, query, contract]
    fromSearch,       \* answers: [call, ok, hash, query, contract, hits]
    indexed,          \* hash of the events in the worker's index, "none" before any
    lastAnswer,       \* history: the last answer handed out, with what was asked
    searchCalls,
    crossedBuilds,    \* history: a build was asked for while another was under way
    everDestroyed,    \* history
    wantedHash        \* history: the events the caller asked to be searched last

searchvars == <<builtForEventsHash, pendingCalls, toSearch, fromSearch, indexed, lastAnswer,
                searchCalls, crossedBuilds, everDestroyed, wantedHash>>

-----------------------------------------------------------------------------
(* The index                                                             *)

\* buildIndex: the documents of each word, in order, each once.
posting(docs, w) == SelectSeq([d \in 1 .. Len(docs) |-> d],
                              LAMBDA d : w \in Range(docs[d].words) \ StopWords)

postingsFor(docs, w, c) == SelectSeq(posting(docs, w), LAMBDA d : c = "any" \/ docs[d].contract = c)

\* Regression: the merge moves both ways past unequal documents.
intersectBoth(a, b) ==
    LET merge[n \in 0 .. Len(a) + Len(b)] ==
            IF n = 0 THEN [i |-> 1, j |-> 1, out |-> <<>>]
            ELSE LET m == merge[n - 1]
                 IN  IF m.i > Len(a) \/ m.j > Len(b) THEN m
                     ELSE IF a[m.i] = b[m.j] THEN [i |-> m.i + 1, j |-> m.j + 1, out |-> Append(m.out, a[m.i])]
                     ELSE [m EXCEPT !.i = @ + 1, !.j = @ + 1]
    IN  merge[Len(a) + Len(b)].out

\* The merge of two sorted lists of documents.
intersect(a, b) ==
    LET merge[n \in 0 .. Len(a) + Len(b)] ==
            IF n = 0 THEN [i |-> 1, j |-> 1, out |-> <<>>]
            ELSE LET m == merge[n - 1]
                 IN  IF m.i > Len(a) \/ m.j > Len(b) THEN m
                     ELSE IF a[m.i] = b[m.j] THEN [i |-> m.i + 1, j |-> m.j + 1, out |-> Append(m.out, a[m.i])]
                     ELSE IF a[m.i] < b[m.j] THEN [m EXCEPT !.i = @ + 1]
                     ELSE [m EXCEPT !.j = @ + 1]
    IN  merge[Len(a) + Len(b)].out

\* A word without a mark; marks are "!", "not:" and "capitals".
Plain(w) == [word |-> w, mark |-> "none"]

\* Lower case, and every mark of punctuation a space.
normalize(q) ==
    FlattenSeq([n \in DOMAIN q |-> IF q[n].mark = "not:" THEN <<Plain("not"), Plain(q[n].word)>>
                                   ELSE <<Plain(q[n].word)>>])

Words(q) == [n \in DOMAIN q |-> q[n].word]

\* Groups of alternatives, between the keywords OR; words with a mark are excluded.
groupsOf(q) ==
    LET isOr(t) == t = [word |-> "or", mark |-> "capitals"]
        cuts == {0, Len(q) + 1} \cup {n \in DOMAIN q : isOr(q[n])}
        groups == {SubSeq(q, a + 1, (CHOOSE b \in cuts : b > a /\ \A x \in cuts : x > a => b <= x) - 1)
                     : a \in cuts \ {Len(q) + 1}}
        plain(t) == t.mark = "none" excluded(t) == t.mark \in {"!", "not:"}
    IN  {[must |-> Words(SelectSeq(g, plain)), not |-> Words(SelectSeq(g, excluded))] : g \in groups}

\* Regression: the query is taken apart before it is normalised.
parseQueryTyped(q) == groupsOf(q)

parseQuery(q) == groupsOf(normalize(q))

\* text.includes() on the text as it is spelt: capitals do not match.
includes(doc, q) == \E n \in 1 .. Len(doc.words) :
    /\ n + Len(q) - 1 <= Len(doc.words) /\ SubSeq(doc.words, n, n + Len(q) - 1) = q
    /\ Range(q) \cap Capitalised = {}

\* Best first, documents of one score in their order.
ranked(found, score(_)) ==
    LET all == SetToSortSeq(found, LAMBDA x, y : score(x) > score(y) \/ (score(x) = score(y) /\ x < y))
    IN  SubSeq(all, 1, IF Len(all) < SearchLimit THEN Len(all) ELSE SearchLimit)

\* The documents with all the words of a group that must be there and none of the others.
candidates(docs, g, c) ==
    LET found[n \in 0 .. Len(g.must)] ==
            IF n <= 1 THEN (IF n = 0 THEN <<>> ELSE postingsFor(docs, g.must[1], c))
            ELSE intersect(found[n - 1], postingsFor(docs, g.must[n], c))
    IN  Range(found[Len(g.must)]) \ UNION {Range(postingsFor(docs, w, c)) : w \in Range(g.not)}

\* Without candidates, the documents whose text contains the whole query.
scoreDocuments(docs, query, c) ==
    LET score(d) ==
            MapThenSumSet(LAMBDA g : IF d \in candidates(docs, g, c)
                                     THEN Cardinality({n \in DOMAIN g.must : includes(docs[d], <<g.must[n]>>)}) * 2
                                     ELSE 0, parseQuery(query))
        found == UNION {candidates(docs, g, c) : g \in parseQuery(query)}
        phrase == Words(normalize(query))
    IN  IF found # {} THEN ranked(found, score)
        ELSE ranked({d \in 1 .. Len(docs) : /\ phrase # <<>> /\ c \in {"any", docs[d].contract}
                                            /\ includes(docs[d], phrase)}, LAMBDA d : 1)

-----------------------------------------------------------------------------
(* The client and its worker                                             *)

NoAnswer == [call |-> 0, kind |-> "none", asked |-> "none", hash |-> "none", query |-> <<>>, contract |-> "any", hits |-> <<>>]

SearchInit ==
    /\ builtForEventsHash = "none" /\ pendingCalls = <<>> /\ toSearch = <<>> /\ fromSearch = <<>>
    /\ indexed = "none" /\ lastAnswer = NoAnswer
    /\ searchCalls = 0 /\ crossedBuilds = FALSE /\ everDestroyed = FALSE /\ wantedHash = "none"

\* request(): a pending promise and a message; the worker is made when there is none.
request(kind, h, q, c) ==
    /\ searchCalls < MaxSearchCalls /\ searchCalls' = searchCalls + 1
    /\ pendingCalls' = Append(pendingCalls, [kind |-> kind, hash |-> h])
    /\ toSearch' = Append(toSearch, [call |-> searchCalls + 1, kind |-> kind, hash |-> h, query |-> q, contract |-> c])
    /\ UNCHANGED <<fromSearch, indexed, lastAnswer, everDestroyed>>

OpenSearch(call) == call \in DOMAIN pendingCalls /\ pendingCalls[call].kind # "settled"

buildIndex(h) ==
    /\ h # builtForEventsHash
    /\ request("build", h, <<>>, "any") /\ wantedHash' = h
    /\ crossedBuilds' = (crossedBuilds \/ \E n \in DOMAIN pendingCalls : pendingCalls[n].kind = "build")
    /\ UNCHANGED builtForEventsHash

\* Regression: buildIndex() returns at once as soon as there is an index.
buildIndexAgainAny(h) ==
    /\ builtForEventsHash # "none" /\ searchCalls < MaxSearchCalls /\ wantedHash' = h
    /\ searchCalls' = searchCalls + 1 /\ pendingCalls' = Append(pendingCalls, [kind |-> "settled", hash |-> h])
    /\ crossedBuilds' = (crossedBuilds \/ \E n \in DOMAIN pendingCalls : pendingCalls[n].kind = "build")
    /\ UNCHANGED <<builtForEventsHash, toSearch, fromSearch, indexed, lastAnswer, everDestroyed>>

\* Asked for what it was built for last, buildIndex() returns at once, though another
\* build may be on its way.
buildIndexAgain(h) ==
    /\ h = builtForEventsHash /\ searchCalls < MaxSearchCalls /\ wantedHash' = h
    /\ searchCalls' = searchCalls + 1 /\ pendingCalls' = Append(pendingCalls, [kind |-> "settled", hash |-> h])
    /\ crossedBuilds' = (crossedBuilds \/ \E n \in DOMAIN pendingCalls : pendingCalls[n].kind = "build")
    /\ UNCHANGED <<builtForEventsHash, toSearch, fromSearch, indexed, lastAnswer, everDestroyed>>

search(q, c) ==
    /\ request("search", wantedHash, q, c)
    /\ UNCHANGED <<builtForEventsHash, crossedBuilds, wantedHash>>

\* self.onmessage: one message at a time, in order.
WorkerHandles ==
    /\ toSearch # <<>> /\ toSearch' = Tail(toSearch)
    /\ LET m == Head(toSearch)
           ok == m.kind = "build" \/ indexed # "none"
       IN  /\ indexed' = IF m.kind = "build" THEN m.hash ELSE indexed
           /\ fromSearch' = Append(fromSearch,
                [call |-> m.call, ok |-> ok, hash |-> indexed', query |-> m.query, contract |-> m.contract,
                 hits |-> IF m.kind = "search" /\ ok THEN scoreDocuments(EventSets[indexed], m.query, m.contract) ELSE <<>>])
    /\ UNCHANGED <<builtForEventsHash, pendingCalls, lastAnswer, searchCalls, crossedBuilds, everDestroyed, wantedHash>>

\* worker.onmessage: the promise of the answer's call is settled.
Settle ==
    /\ fromSearch # <<>> /\ fromSearch' = Tail(fromSearch)
    /\ LET m == Head(fromSearch) p == pendingCalls[m.call]
       IN  /\ pendingCalls' = [pendingCalls EXCEPT ![m.call].kind = "settled"]
           /\ builtForEventsHash' = IF p.kind = "build" THEN p.hash ELSE builtForEventsHash
           /\ lastAnswer' = [call |-> m.call, kind |-> IF m.ok THEN p.kind ELSE "error", asked |-> p.hash,
                             hash |-> m.hash, query |-> m.query, contract |-> m.contract, hits |-> m.hits]
    /\ UNCHANGED <<toSearch, indexed, searchCalls, crossedBuilds, everDestroyed, wantedHash>>

\* Regression: destroy() leaves the promises in the map.
destroyKeep ==
    /\ searchCalls < MaxSearchCalls /\ searchCalls' = searchCalls + 1
    /\ toSearch' = <<>> /\ fromSearch' = <<>> /\ indexed' = "none" /\ everDestroyed' = TRUE
    /\ pendingCalls' = Append(pendingCalls, [kind |-> "settled", hash |-> "none"])
    /\ UNCHANGED <<builtForEventsHash, lastAnswer, crossedBuilds, wantedHash>>

\* destroy(): the worker ends with its index, the promises are forgotten, and
\* builtForEventsHash stays.
destroy ==
    /\ searchCalls < MaxSearchCalls /\ searchCalls' = searchCalls + 1
    /\ toSearch' = <<>> /\ fromSearch' = <<>> /\ indexed' = "none" /\ everDestroyed' = TRUE
    /\ pendingCalls' = Append([n \in DOMAIN pendingCalls |-> [pendingCalls[n] EXCEPT !.kind = "settled"]],
                              [kind |-> "settled", hash |-> "none"])
    /\ UNCHANGED <<builtForEventsHash, lastAnswer, crossedBuilds, wantedHash>>

SearchNext ==
    \/ \E h \in DOMAIN EventSets : buildIndex(h) \/ buildIndexAgain(h)
    \/ \E q \in Queries, c \in SearchContracts : search(q, c)
    \/ WorkerHandles \/ Settle \/ destroy

SearchSpec == SearchInit /\ [][SearchNext]_searchvars

-----------------------------------------------------------------------------
(* Properties                                                            *)

\* Words the index knows are searched as a conjunction, marks and keywords or not, which
\* are gone when the query is taken apart: the hits are documents of the contract that
\* have them all, and all of them when they fit the limit.
HitsAreConjunction ==
    LET a == lastAnswer docs == EventSets[a.hash]
        want == {d \in 1 .. Len(docs) : /\ Range(Words(normalize(a.query))) \subseteq Range(docs[d].words) \ StopWords
                                        /\ a.contract \in {"any", docs[d].contract}}
    IN  a.kind = "search" /\ a.query # <<>> /\ want # {} =>
            /\ Range(a.hits) \subseteq want /\ Len(a.hits) = Cardinality(Range(a.hits))
            /\ Cardinality(want) <= SearchLimit => Range(a.hits) = want

\* A search is answered from the events the caller had last asked to be indexed, and
\* fails only when there were none, unless builds crossed or the client was destroyed.
AnsweredFromOwnIndex ==
    ~crossedBuilds /\ ~everDestroyed =>
        /\ lastAnswer.kind = "search" => lastAnswer.hash = lastAnswer.asked
        /\ lastAnswer.kind = "error" => lastAnswer.asked = "none"

\* A promise that is pending has its message or its answer on the way, once.
PendingIsOnItsWay ==
    \A n \in DOMAIN pendingCalls : OpenSearch(n) =>
        Cardinality({k \in DOMAIN toSearch : toSearch[k].call = n})
            + Cardinality({k \in DOMAIN fromSearch : fromSearch[k].call = n}) = 1
=============================================================================
