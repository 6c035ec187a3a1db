----------------------------- MODULE PagesProofs -----------------------------
(* Proofs about the pages of the browser and the workers behind them: the    *)
(* feed of the dashboard, fields on an IPFS node, the panels and toasts, the *)
(* translator, the search index and the list of the bridge.  Each part is    *)
(* proved by itself, from its inductive invariant; the last section joins    *)
(* them.                                                                     *)
EXTENDS Application, ServicesProofs

-----------------------------------------------------------------------------
(* Lists.                                                                *)

\* An element less.
LEMMA RemovedAt ==
    ASSUME NEW T, NEW s \in Seq(T), NEW n \in 1 .. Len(s)
    PROVE  /\ RemoveAt(s, n) \in Seq(T) /\ Len(RemoveAt(s, n)) = Len(s) - 1
           /\ \A k \in 1 .. Len(s) - 1 : RemoveAt(s, n)[k] = IF k < n THEN s[k] ELSE s[k + 1]
<1> DEFINE a == SubSeq(s, 1, n - 1)  b == SubSeq(s, n + 1, Len(s))
<1>0. Len(s) \in Nat
  BY LenProperties
<1>1. a \in Seq(T) /\ Len(a) = n - 1 /\ \A k \in 1 .. n - 1 : a[k] = s[k]
  BY <1>0
<1>2. b \in Seq(T) /\ Len(b) = Len(s) - n /\ \A k \in 1 .. Len(s) - n : b[k] = s[n + k]
  BY <1>0
<1> HIDE DEF a, b
<1>3. /\ a \o b \in Seq(T) /\ Len(a \o b) = Len(s) - 1
      /\ \A k \in 1 .. Len(a) + Len(b) : (a \o b)[k] = IF k <= Len(a) THEN a[k] ELSE b[k - Len(a)]
  <2>1. a \o b \in Seq(T) /\ Len(a \o b) = Len(a) + Len(b)
        /\ \A k \in 1 .. Len(a) + Len(b) : (a \o b)[k] = IF k <= Len(a) THEN a[k] ELSE b[k - Len(a)]
    BY <1>1, <1>2, ConcatProperties
  <2> QED BY <2>1, <1>0, <1>1, <1>2
<1>4. ASSUME NEW k \in 1 .. Len(s) - 1 PROVE (a \o b)[k] = IF k < n THEN s[k] ELSE s[k + 1]
  <2>1. CASE k < n
    BY <2>1, <1>0, <1>1, <1>2, <1>3
  <2>2. CASE ~(k < n)
    <3>1. k - (n - 1) \in 1 .. Len(s) - n /\ n + (k - (n - 1)) = k + 1
      BY <2>2, <1>0
    <3>2. (a \o b)[k] = b[k - (n - 1)]
      BY <2>2, <1>0, <1>1, <1>2, <1>3
    <3> QED BY <3>1, <3>2, <2>2, <1>2
  <2> QED BY <2>1, <2>2
<1>5. RemoveAt(s, n) = a \o b
  BY DEF RemoveAt, a, b
<1> QED BY <1>3, <1>4, <1>5

\* A list behind another.
LEMMA BehindList ==
    ASSUME NEW T, NEW s \in Seq(T), NEW t \in Seq(T)
    PROVE  /\ s \o t \in Seq(T) /\ Len(s \o t) = Len(s) + Len(t)
           /\ \A n \in 1 .. Len(s) : (s \o t)[n] = s[n]
           /\ \A n \in 1 .. Len(t) : (s \o t)[Len(s) + n] = t[n]
<1>0. PICK u : u = s \o t
  OBVIOUS
<1>1. /\ u \in Seq(T) /\ Len(u) = Len(s) + Len(t)
      /\ \A n \in 1 .. Len(s) + Len(t) : u[n] = IF n <= Len(s) THEN s[n] ELSE t[n - Len(s)]
  BY <1>0, ConcatProperties
<1>2. Len(s) \in Nat /\ Len(t) \in Nat
  BY LenProperties
<1>3. \A n \in 1 .. Len(s) : u[n] = s[n]
  BY <1>1, <1>2
<1>4. ASSUME NEW n \in 1 .. Len(t) PROVE u[Len(s) + n] = t[n]
  <2>1. Len(s) + n \in 1 .. Len(s) + Len(t) /\ ~(Len(s) + n <= Len(s)) /\ (Len(s) + n) - Len(s) = n
    BY <1>2
  <2> QED BY <1>1, <2>1
<1> QED BY <1>0, <1>1, <1>3, <1>4

\* A list of anything.
IsList(s) == s \in Seq(Range(s))

\* A list has a length, and its places are counted from one.
LEMMA ListFacts ==
    ASSUME NEW s, IsList(s)
    PROVE  Len(s) \in Nat /\ DOMAIN s = 1 .. Len(s) /\ (s # <<>> => Len(s) # 0)
  BY LenProperties, EmptySeq DEF IsList

\* One more at the end.
LEMMA ListAppended ==
    ASSUME NEW s, IsList(s), NEW e
    PROVE  /\ IsList(Append(s, e)) /\ Len(Append(s, e)) = Len(s) + 1 /\ Append(s, e)[Len(s) + 1] = e
           /\ \A n \in 1 .. Len(s) : Append(s, e)[n] = s[n]
<1> DEFINE S == Range(s) \cup {e}
<1>1. s \in Seq(Range(s)) /\ Range(s) \subseteq S /\ e \in S
  BY DEF IsList
<1>2. PICK T : T = S
  OBVIOUS
<1>3. s \in Seq(T) /\ e \in T
  BY <1>1, <1>2, SeqMonotonic
<1>4. PICK u : u = Append(s, e)
  OBVIOUS
<1>5. /\ u \in Seq(T) /\ Len(u) = Len(s) + 1 /\ u[Len(s) + 1] = e
      /\ \A n \in 1 .. Len(s) : u[n] = s[n]
  BY ONLY <1>3, <1>4, AppendProperties
<1>6. u \in Seq(Range(u))
  BY <1>5, SeqOfRange
<1> QED BY <1>4, <1>5, <1>6 DEF IsList

\* The first taken away.
LEMMA ListTail ==
    ASSUME NEW s, IsList(s), s # <<>>
    PROVE  /\ IsList(Tail(s)) /\ Len(Tail(s)) = Len(s) - 1 /\ Head(s) = s[1]
           /\ \A n \in 1 .. Len(s) - 1 : Tail(s)[n] = s[n + 1]
<1>1. PICK T : T = Range(s)
  OBVIOUS
<1>2. s \in Seq(T)
  BY <1>1 DEF IsList
<1>3. PICK u : u = Tail(s)
  OBVIOUS
<1>4. u \in Seq(T) /\ Len(u) = Len(s) - 1 /\ \A n \in 1 .. Len(u) : u[n] = s[n + 1]
  BY ONLY <1>2, <1>3, s # <<>>, HeadTailProperties
<1>5. u \in Seq(Range(u))
  BY <1>4, SeqOfRange
<1>6. Head(s) = s[1]
  BY <1>2
<1> QED BY <1>3, <1>4, <1>5, <1>6 DEF IsList

\* Rows are counted from the newest: no two have as many above them, and there is one for every count.
LEMMA RowsRanked ==
    ASSUME NEW S, IsFiniteSet(S), S \subseteq Nat
    PROVE  /\ Cardinality(S) \in Nat
           /\ \A r, t \in S : r > t => Cardinality({x \in S : x > r}) < Cardinality({x \in S : x > t})
           /\ \A n \in 1 .. Cardinality(S) : \E r \in S : Cardinality({x \in S : x > r}) = n - 1
<1> DEFINE Above(r) == {x \in S : x > r}
           Rank == [r \in S |-> Cardinality(Above(r)) + 1]
<1>1. PICK size : size = Cardinality(S)
  OBVIOUS
<1>2. size \in Nat
  BY <1>1, FS_CardinalityType
<1>3. ASSUME NEW r \in S PROVE IsFiniteSet(Above(r)) /\ Cardinality(Above(r)) \in Nat /\ Cardinality(Above(r)) < size
  <2>1. Above(r) \in SUBSET S /\ r \notin Above(r)
    OBVIOUS
  <2>2. /\ IsFiniteSet(Above(r)) /\ Cardinality(Above(r)) <= size
        /\ size = Cardinality(Above(r)) => S = Above(r)
    BY <1>1, <2>1, FS_Subset
  <2>3. Cardinality(Above(r)) \in Nat
    BY <2>2, FS_CardinalityType
  <2>4. Cardinality(Above(r)) # size
    BY <2>1, <2>2
  <2> QED BY <1>2, <2>2, <2>3, <2>4
<1>4. ASSUME NEW r \in S, NEW t \in S, r > t PROVE Cardinality(Above(r)) < Cardinality(Above(t))
  <2>0. r \in Nat /\ t \in Nat /\ \A x \in S : x \in Nat
    OBVIOUS
  <2>1. Above(r) \in SUBSET Above(t) /\ r \in Above(t) /\ r \notin Above(r)
    <3>1. \A x \in S : x > r => x > t
      BY <1>4, <2>0
    <3>2. r > t /\ ~(r > r)
      BY <1>4, <2>0
    <3>3. r \in Above(t)
      BY <3>2
    <3>4. r \notin Above(r)
      BY <3>2
    <3>5. Above(r) \in SUBSET Above(t)
      BY <3>1
    <3> QED BY <3>3, <3>4, <3>5
  <2>2. /\ Cardinality(Above(r)) <= Cardinality(Above(t))
        /\ Cardinality(Above(t)) = Cardinality(Above(r)) => Above(t) = Above(r)
    BY <1>3, <2>1, FS_Subset
  <2>3. Cardinality(Above(t)) # Cardinality(Above(r))
    BY <2>1, <2>2
  <2> QED BY <1>3, <2>2, <2>3
<1> HIDE DEF Above
<1>5. Rank \in Injection(S, 1 .. size)
  <2>1. \A r \in S : Rank[r] \in 1 .. size
    BY <1>2, <1>3
  <2>2. ASSUME NEW r \in S, NEW t \in S, Rank[r] = Rank[t] PROVE r = t
    <3>1. Cardinality(Above(r)) = Cardinality(Above(t))
      BY <1>3, <2>2
    <3>2. ~(r > t) /\ ~(t > r) /\ r \in Nat /\ t \in Nat
      BY <1>3, <1>4, <3>1
    <3> QED BY <3>2
  <2>3. Rank \in [S -> 1 .. size]
    BY <2>1
  <2> HIDE DEF Rank
  <2> QED BY <2>2, <2>3 DEF Injection, IsInjective
<1>6. IsFiniteSet(1 .. size) /\ Cardinality(1 .. size) = size
  BY <1>2, FS_Interval
<1>7. Rank \in Surjection(S, 1 .. size)
  <2> HIDE DEF Rank
  <2> QED BY <1>1, <1>5, <1>6, FS_Injection
<1>8. ASSUME NEW n \in 1 .. size PROVE \E r \in S : Cardinality(Above(r)) = n - 1
  <2>1. PICK r \in S : Rank[r] = n
    BY <1>7 DEF Surjection
  <2>2. Cardinality(Above(r)) + 1 = n /\ Cardinality(Above(r)) \in Nat
    BY <1>3, <2>1
  <2> QED BY <2>2
<1> QED BY <1>1, <1>2, <1>4, <1>8 DEF Above


\* And as many below as are left.
LEMMA RanksBelow ==
    ASSUME NEW S, IsFiniteSet(S), S \subseteq Nat, NEW r \in S
    PROVE  /\ Cardinality({x \in S : x > r}) \in Nat /\ Cardinality({x \in S : x < r}) \in Nat
           /\ Cardinality({x \in S : x < r}) = Cardinality(S) - Cardinality({x \in S : x > r}) - 1
<1>1. PICK A, B : A = {x \in S : x > r} /\ B = {x \in S : x < r}
  OBVIOUS
<1>2. IsFiniteSet(A) /\ IsFiniteSet(B) /\ r \notin A /\ r \notin B /\ A \cap B = {} /\ S = (A \cup B) \cup {r}
  <2>1. A \subseteq S /\ B \subseteq S
    BY <1>1
  <2>2. IsFiniteSet(A) /\ IsFiniteSet(B)
    BY <2>1, FS_Subset
  <2>3. S \subseteq (A \cup B) \cup {r}
    BY <1>1
  <2>4. r \notin A /\ r \notin B /\ A \cap B = {}
    <3>1. r \in Nat /\ ~(r > r) /\ ~(r < r)
      OBVIOUS
    <3>2. \A x \in S : ~(x > r /\ x < r)
      BY <3>1
    <3> QED BY <1>1, <3>1, <3>2
  <2> QED BY <2>1, <2>2, <2>3, <2>4
<1>3. Cardinality(A) \in Nat /\ Cardinality(B) \in Nat
  BY <1>2, FS_CardinalityType
<1>4. IsFiniteSet(A \cup B) /\ Cardinality(A \cup B) = Cardinality(A) + Cardinality(B)
  <2>1. Cardinality(A \cap B) = 0
    BY <1>2, FS_EmptySet
  <2>2. IsFiniteSet(A \cup B) /\ Cardinality(A \cup B) = Cardinality(A) + Cardinality(B) - Cardinality(A \cap B)
    BY <1>2, FS_Union
  <2> QED BY <1>3, <2>1, <2>2
<1>5. Cardinality((A \cup B) \cup {r}) = Cardinality(A \cup B) + 1
  BY <1>2, <1>4, FS_AddElement
<1>6. Cardinality(S) = Cardinality(A) + Cardinality(B) + 1
  BY <1>2, <1>4, <1>5
<1>7. Cardinality(B) = Cardinality(S) - Cardinality(A) - 1
  BY <1>3, <1>6
<1> QED BY <1>1, <1>3, <1>7
-----------------------------------------------------------------------------
(* The dashboard.                                                        *)

Url == [contract : DashboardContracts \cup {"all"}, type : EventTypes \cup {"all"}, ledger : LedgerTexts,
        page : Nat \ {0}]
Filters == [contract : DashboardContracts \cup {"all"}, type : EventTypes \cup {"all"}, page : Nat \ {0}]
Requests == [filters : Filters, aborted : BOOLEAN]

DashTypes ==
    /\ feed \in Seq(Events) /\ location \in Url /\ replacing \in Seq(Url)
    /\ fetches \in Seq(Requests)
    /\ shownPage.total \in Nat /\ shownPage.filters.page \in Nat \ {0}
    /\ ledgerInput \in LedgerTexts /\ inputFocused \in BOOLEAN /\ overlapped \in BOOLEAN

\* Only the last request may be live, and it asks for the URL; without it the URL is shown.
LiveIsForUrl ==
    /\ \A n \in 1 .. Len(fetches) :
          ~fetches[n].aborted => n = Len(fetches) /\ fetches[n].filters = Asked(location)
    /\ (\A n \in 1 .. Len(fetches) : fetches[n].aborted) => ShowsUrl

\* What the one URL that is on its way will do to filter, page and input.
NextUrl(next) ==
    /\ next.contract = chosen
    /\ favourite = FALSE /\ next.page # 1 => SameFilters(next, location)
    /\ ~inputFocused => next.ledger # location.ledger \/ ledgerInput = location.ledger

\* Without overlap at most one URL is on its way.
OneOnItsWay ==
    ~overlapped =>
        /\ Len(replacing) <= 1
        /\ replacing # <<>> => NextUrl(replacing[1])
        /\ replacing = <<>> => location.contract = chosen /\ (~inputFocused => ledgerInput = location.ledger)

DashInv == DashTypes /\ LiveIsForUrl /\ OneOnItsWay

\* A URL with another filter, at its first page.
LEMMA UrlFacts ==
    ASSUME NEW u \in Url
    PROVE  /\ \A c : /\ [[u EXCEPT !.contract = c] EXCEPT !.page = 1]
                           = [contract |-> c, type |-> u.type, ledger |-> u.ledger, page |-> 1]
                     /\ [u EXCEPT !.contract = c].contract = c
           /\ \A t : /\ [[u EXCEPT !.type = t] EXCEPT !.page = 1]
                           = [contract |-> u.contract, type |-> t, ledger |-> u.ledger, page |-> 1]
                     /\ [u EXCEPT !.type = t].contract = u.contract
           /\ \A l : /\ [[u EXCEPT !.ledger = l] EXCEPT !.page = 1]
                           = [contract |-> u.contract, type |-> u.type, ledger |-> l, page |-> 1]
                     /\ [u EXCEPT !.ledger = l].contract = u.contract
<1>1. PICK c0, t0, l0, p0 : u = [contract |-> c0, type |-> t0, ledger |-> l0, page |-> p0]
  BY DEF Url
<1>5. u.contract = c0 /\ u.type = t0 /\ u.ledger = l0
  BY <1>1
<1>7. ASSUME NEW c
      PROVE  /\ [[u EXCEPT !.contract = c] EXCEPT !.page = 1]
                   = [contract |-> c, type |-> u.type, ledger |-> u.ledger, page |-> 1]
             /\ [u EXCEPT !.contract = c].contract = c
  <2>1. PICK v : v = [u EXCEPT !.contract = c]
    OBVIOUS
  <2>2. v = [contract |-> c, type |-> t0, ledger |-> l0, page |-> p0]
    BY <2>1, <1>1
  <2>3. [v EXCEPT !.page = 1] = [contract |-> c, type |-> t0, ledger |-> l0, page |-> 1] /\ v.contract = c
    BY <2>2
  <2> QED BY <2>1, <2>3, <1>5
<1>8. ASSUME NEW t
      PROVE  /\ [[u EXCEPT !.type = t] EXCEPT !.page = 1]
                   = [contract |-> u.contract, type |-> t, ledger |-> u.ledger, page |-> 1]
             /\ [u EXCEPT !.type = t].contract = u.contract
  <2>1. PICK v : v = [u EXCEPT !.type = t]
    OBVIOUS
  <2>2. v = [contract |-> c0, type |-> t, ledger |-> l0, page |-> p0]
    BY <2>1, <1>1
  <2>3. [v EXCEPT !.page = 1] = [contract |-> c0, type |-> t, ledger |-> l0, page |-> 1] /\ v.contract = c0
    BY <2>2
  <2> QED BY <2>1, <2>3, <1>5
<1>9. ASSUME NEW l
      PROVE  /\ [[u EXCEPT !.ledger = l] EXCEPT !.page = 1]
                   = [contract |-> u.contract, type |-> u.type, ledger |-> l, page |-> 1]
             /\ [u EXCEPT !.ledger = l].contract = u.contract
  <2>1. PICK v : v = [u EXCEPT !.ledger = l]
    OBVIOUS
  <2>2. v = [contract |-> c0, type |-> t0, ledger |-> l, page |-> p0]
    BY <2>1, <1>1
  <2>3. [v EXCEPT !.page = 1] = [contract |-> c0, type |-> t0, ledger |-> l, page |-> 1] /\ v.contract = c0
    BY <2>2
  <2> QED BY <2>1, <2>3, <1>5
<1> QED BY <1>7, <1>8, <1>9

\* The first feed and the first page satisfy the invariant.
LEMMA DashInitial == DashInit => DashInv
<1> SUFFICES ASSUME DashInit PROVE DashInv
  OBVIOUS
<1>1. PICK start : start = [contract |-> "all", type |-> "all", ledger |-> 0, page |-> 1]
  OBVIOUS
<1>2. start \in Url /\ start.contract = "all" /\ start.ledger = 0 /\ start.page = 1
  BY <1>1, DashboardAssumption DEF Url
<1>3. PICK first : first = [filters |-> Asked(start), aborted |-> FALSE]
  OBVIOUS
<1>4. first \in Requests /\ first.filters = Asked(start) /\ first.aborted = FALSE
  BY <1>2, <1>3 DEF Asked, Requests, Filters, Url
<1>5. /\ feed = InitialFeed /\ location = start /\ replacing = <<>> /\ fetches = <<first>>
      /\ ledgerInput = 0 /\ inputFocused = FALSE /\ chosen = "all" /\ overlapped = FALSE
      /\ shownPage = [filters |-> [contract |-> "none", type |-> "all", page |-> 1], events |-> <<>>,
                      total |-> 0, mock |-> FALSE]
  BY <1>1, <1>3 DEF DashInit
<1>6. DashTypes
  <2>1. shownPage.total = 0 /\ shownPage.filters.page = 1
    BY <1>5
  <2>2. replacing \in Seq(Url) /\ fetches \in Seq(Requests)
    BY <1>4, <1>5
  <2>3. feed \in Seq(Events) /\ location \in Url /\ ledgerInput \in LedgerTexts
    BY <1>2, <1>5, DashboardAssumption
  <2>4. inputFocused \in BOOLEAN /\ overlapped \in BOOLEAN
    BY <1>5
  <2> QED BY <2>1, <2>2, <2>3, <2>4 DEF DashTypes
<1>7. Len(fetches) = 1 /\ fetches[1] = first
  BY <1>5
<1>8. LiveIsForUrl
  BY <1>4, <1>5, <1>7 DEF LiveIsForUrl
<1>9. OneOnItsWay
  BY <1>2, <1>5 DEF OneOnItsWay
<1> QED BY <1>6, <1>8, <1>9 DEF DashInv

\* A URL is put on its way.
LEMMA RouterStep ==
    ASSUME DashInv, NEW next \in Url, NEW wanted, NEW pinned \in BOOLEAN, RouterReplace(next, wanted, pinned),
           next.contract = wanted,
           pinned = FALSE /\ next.page # 1 => SameFilters(next, location),
           ledgerInput' \in LedgerTexts, inputFocused' \in BOOLEAN,
           ~overlapped /\ replacing = <<>> /\ ~inputFocused' =>
               next.ledger # location.ledger \/ ledgerInput' = location.ledger
    PROVE  DashInv'
<1>1. DashTypes'
  BY DEF DashInv, DashTypes, RouterReplace
<1>2. LiveIsForUrl'
  BY DEF DashInv, LiveIsForUrl, ShowsUrl, RouterReplace
<1>3. OneOnItsWay'
  <2>1. CASE overlapped'
    BY <2>1 DEF OneOnItsWay
  <2>2. CASE ~overlapped'
    <3>1. replacing = <<>> /\ ~overlapped /\ replacing' = Append(replacing, next) /\ chosen' = wanted /\ location' = location
          /\ favourite' = pinned
      BY <2>2 DEF RouterReplace
    <3>2. replacing' = <<next>>
      BY <3>1
    <3>3. Len(replacing') = 1 /\ replacing'[1] = next /\ replacing' # <<>>
      BY <3>2
    <3> QED BY <3>1, <3>3 DEF OneOnItsWay, NextUrl, SameFilters
  <2> QED BY <2>1, <2>2
<1> QED BY <1>1, <1>2, <1>3 DEF DashInv

\* The controls.
LEMMA ControlStep ==
    ASSUME DashInv,
           \/ \E c \in DashboardContracts : SetFilters(c)
           \/ \E c \in DashboardContracts \cup {"all"} : SelectContract(c)
           \/ \E t \in EventTypes \cup {"all"} : SelectType(t)
           \/ RemoveLedger \/ clearAll \/ BlurLedger
           \/ \E p \in 1 .. MaxFeedEvents : GoToPage(p)
    PROVE  DashInv'
<1> USE DEF DashInv, DashTypes
<1>0. /\ location \in Url /\ 0 \in LedgerTexts
      /\ replacing = <<>> /\ ~overlapped =>
            location.contract = chosen /\ (~inputFocused => ledgerInput = location.ledger)
  BY DashboardAssumption DEF OneOnItsWay
<1>1. ASSUME NEW c \in DashboardContracts, SetFilters(c) PROVE DashInv'
  <2> DEFINE next == [location EXCEPT !.contract = c]
  <2>1. next \in Url /\ next.contract = c /\ next.ledger = location.ledger
    BY <1>0 DEF Url
  <2>2. RouterReplace(next, c, TRUE) /\ UNCHANGED inputvars
    BY <1>1 DEF SetFilters
  <2> HIDE DEF next
  <2> QED BY <1>0, <2>1, <2>2, RouterStep DEF inputvars
<1>2. ASSUME NEW c \in DashboardContracts \cup {"all"}, SelectContract(c) PROVE DashInv'
  <2> DEFINE next == [contract |-> c, type |-> location.type, ledger |-> location.ledger, page |-> 1]
  <2>1. next \in Url /\ next.contract = c /\ next.ledger = location.ledger /\ next.page = 1
    BY <1>0 DEF Url
  <2>2. [[location EXCEPT !.contract = c] EXCEPT !.page = 1] = next /\ [location EXCEPT !.contract = c].contract = c
    BY <1>0, UrlFacts
  <2>3. RouterReplace(next, c, FALSE) /\ UNCHANGED inputvars
    BY <1>2, <2>2 DEF SelectContract, setParam
  <2> HIDE DEF next
  <2> QED BY <1>0, <2>1, <2>3, RouterStep DEF inputvars
<1>7. ASSUME NEW t \in EventTypes \cup {"all"}, SelectType(t) PROVE DashInv'
  <2> DEFINE next == [contract |-> location.contract, type |-> t, ledger |-> location.ledger, page |-> 1]
  <2>1. next \in Url /\ next.contract = location.contract /\ next.ledger = location.ledger /\ next.page = 1
    BY <1>0 DEF Url
  <2>2. [[location EXCEPT !.type = t] EXCEPT !.page = 1] = next
        /\ [location EXCEPT !.type = t].contract = location.contract
    BY <1>0, UrlFacts
  <2>3. RouterReplace(next, location.contract, FALSE) /\ UNCHANGED inputvars /\ ~inputFocused
    BY <1>7, <2>2 DEF SelectType, setParam
  <2> HIDE DEF next
  <2> QED BY <1>0, <2>1, <2>3, RouterStep DEF inputvars
<1>3. CASE RemoveLedger
  <2> DEFINE next == [contract |-> location.contract, type |-> location.type, ledger |-> 0, page |-> 1]
  <2>1. next \in Url /\ next.contract = location.contract /\ next.page = 1 /\ next.ledger = 0
    BY <1>0 DEF Url
  <2>2. [[location EXCEPT !.ledger = 0] EXCEPT !.page = 1] = next
        /\ [location EXCEPT !.ledger = 0].contract = location.contract
    BY <1>0, UrlFacts
  <2>3. RouterReplace(next, location.contract, FALSE) /\ UNCHANGED inputvars /\ location.ledger # 0
    BY <1>3, <2>2 DEF RemoveLedger, setParam
  <2> HIDE DEF next
  <2> QED BY <1>0, <2>1, <2>3, RouterStep DEF inputvars
<1>4. CASE clearAll
  <2> DEFINE next == [contract |-> "all", type |-> "all", ledger |-> 0, page |-> 1]
  <2>1. next \in Url /\ next.contract = "all" /\ next.page = 1 /\ next.ledger = 0 /\ [next EXCEPT !.page = 1] = next
    BY <1>0 DEF Url
  <2>2. RouterReplace(next, "all", FALSE) /\ UNCHANGED inputvars /\ ~inputFocused
    BY <1>4, <2>1 DEF clearAll, setParam
  <2> HIDE DEF next
  <2> QED BY <1>0, <2>1, <2>2, RouterStep DEF inputvars
<1>5. CASE BlurLedger
  <2> DEFINE next == [contract |-> location.contract, type |-> location.type, ledger |-> ledgerInput, page |-> 1]
  <2>1. next \in Url /\ next.contract = location.contract /\ next.page = 1 /\ next.ledger = ledgerInput
    BY <1>0 DEF Url
  <2>2. [[location EXCEPT !.ledger = ledgerInput] EXCEPT !.page = 1] = next
        /\ [location EXCEPT !.ledger = ledgerInput].contract = location.contract
    BY <1>0, UrlFacts
  <2>3. RouterReplace(next, location.contract, FALSE) /\ ledgerInput' = ledgerInput /\ inputFocused' = FALSE
    BY <1>5, <2>2 DEF BlurLedger, setParam
  <2> HIDE DEF next
  <2> QED BY <1>0, <2>1, <2>3, RouterStep
<1>6. ASSUME NEW p \in 1 .. MaxFeedEvents, GoToPage(p) PROVE DashInv'
  <2> DEFINE next == [location EXCEPT !.page = p]
  <2>1. p \in Nat \ {0}
    BY DashboardAssumption
  <2>2. next \in Url /\ next.contract = location.contract /\ next.ledger = location.ledger
        /\ SameFilters(next, location)
    BY <1>0, <2>1 DEF Url, SameFilters
  <2>3. RouterReplace(next, chosen, FALSE) /\ UNCHANGED inputvars
    BY <1>6 DEF GoToPage
  <2> HIDE DEF next
  <2>4. CASE overlapped \/ replacing # <<>>
    <3>1. overlapped' = TRUE
      BY <2>3, <2>4 DEF RouterReplace
    <3>2. DashTypes'
      BY <2>2, <2>3 DEF RouterReplace, inputvars
    <3>3. LiveIsForUrl'
      BY <2>3 DEF RouterReplace, LiveIsForUrl, ShowsUrl
    <3> QED BY <3>1, <3>2, <3>3 DEF OneOnItsWay
  <2>5. CASE ~overlapped /\ replacing = <<>>
    BY <1>0, <2>2, <2>3, <2>5, RouterStep DEF inputvars
  <2> QED BY <2>4, <2>5
<1> QED BY <1>1, <1>2, <1>3, <1>4, <1>5, <1>6, <1>7

\* Typing in the ledger box changes nothing but the box.
LEMMA TypeStep == ASSUME DashInv, NEW t \in LedgerTexts, TypeLedger(t) PROVE DashInv'
<1>1. DashTypes'
  BY DEF DashInv, DashTypes, TypeLedger
<1>2. LiveIsForUrl'
  BY DEF DashInv, LiveIsForUrl, ShowsUrl, TypeLedger
<1>3. OneOnItsWay'
  BY DEF DashInv, OneOnItsWay, NextUrl, SameFilters, TypeLedger
<1> QED BY <1>1, <1>2, <1>3 DEF DashInv

\* The URL changes: what was asked for before is aborted.
LEMMA NavigateStep == ASSUME DashInv, Navigate PROVE DashInv'
<1> USE DEF DashInv
<1>1. /\ replacing \in Seq(Url) /\ replacing # <<>> /\ location' = replacing[1] /\ replacing' = Tail(replacing)
      /\ location \in Url
  BY DEF DashTypes, Navigate
<1>2. location' \in Url /\ replacing' \in Seq(Url) /\ Len(replacing') = Len(replacing) - 1 /\ Len(replacing) \in Nat
  BY <1>1
<1>3. /\ ledgerInput' = IF location'.ledger # location.ledger THEN location'.ledger ELSE ledgerInput
      /\ inputFocused' = inputFocused
  BY DEF Navigate, SyncInput
<1>4. UNCHANGED <<feed, shownPage, chosen, overlapped>>
  BY DEF Navigate
<1>5. ledgerInput' \in LedgerTexts
  BY <1>2, <1>3 DEF Url, DashTypes
<1>6. fetches' \in Seq(Requests) /\ LiveIsForUrl'
  <2>1. CASE Asked(location') = Asked(location)
    <3>1. fetches' = fetches
      BY <2>1 DEF Navigate
    <3> QED BY <2>1, <3>1, <1>4 DEF LiveIsForUrl, ShowsUrl, DashTypes
  <2>2. CASE Asked(location') # Asked(location)
    <3> DEFINE old == [n \in DOMAIN fetches |-> [fetches[n] EXCEPT !.aborted = TRUE]]
    <3>1. PICK new : new = Start(location')
      OBVIOUS
    <3>2. new \in Requests /\ new.filters = Asked(location')
      BY <3>1, <1>2 DEF Start, Asked, Requests, Filters, Url
    <3>3. fetches' = Append(old, new)
      BY <2>2, <3>1 DEF Navigate
    <3>4. old \in Seq(Requests) /\ Len(old) = Len(fetches)
          /\ \A n \in 1 .. Len(fetches) : old[n].aborted = TRUE
      <4>1. fetches \in Seq(Requests) /\ Len(fetches) \in Nat
            /\ DOMAIN fetches = 1 .. Len(fetches)
        BY DEF DashTypes
      <4>2. ASSUME NEW n \in 1 .. Len(fetches)
            PROVE  [fetches[n] EXCEPT !.aborted = TRUE] \in Requests
                   /\ [fetches[n] EXCEPT !.aborted = TRUE].aborted = TRUE
        <5>1. fetches[n] \in Requests
          BY <4>1
        <5> QED BY <5>1 DEF Requests
      <4>3. old \in [1 .. Len(fetches) -> Requests]
        BY <4>1, <4>2
      <4>4. \A n \in 1 .. Len(fetches) : old[n].aborted = TRUE
        BY <4>1, <4>2
      <4> HIDE DEF old
      <4> QED BY <4>1, <4>3, <4>4
    <3> HIDE DEF old
    <3>a. PICK m \in Nat : m = Len(fetches)
      BY DEF DashTypes
    <3>5. fetches' \in Seq(Requests) /\ Len(fetches') = m + 1
          /\ (\A n \in 1 .. m : fetches'[n] = old[n]) /\ fetches'[m + 1] = new
      BY <3>2, <3>3, <3>4, <3>a
    <3>6. new.aborted = FALSE
      BY <3>1 DEF Start
    <3>7. LiveIsForUrl'
      <4>1. ASSUME NEW n \in 1 .. Len(fetches'), ~fetches'[n].aborted
            PROVE  n = Len(fetches') /\ fetches'[n].filters = Asked(location')
        <5>1. n = m + 1
          BY <4>1, <3>4, <3>5, <3>a
        <5>2. n = Len(fetches') /\ fetches'[n] = new
          BY <5>1, <3>5
        <5> QED BY <5>2, <3>2
      <4>2. Len(fetches') \in 1 .. Len(fetches') /\ ~fetches'[Len(fetches')].aborted
        <5>2. fetches'[Len(fetches')] = new /\ Len(fetches') \in 1 .. Len(fetches')
          BY <3>5
        <5> QED BY <5>2, <3>6
      <4> QED BY <4>1, <4>2 DEF LiveIsForUrl
    <3> QED BY <3>5, <3>7
  <2> QED BY <2>1, <2>2
<1>7. DashTypes'
  BY <1>2, <1>3, <1>4, <1>5, <1>6 DEF DashTypes
<1>8. OneOnItsWay'
  <2> SUFFICES ASSUME ~overlapped' PROVE replacing' = <<>> /\ Len(replacing') <= 1 /\ location'.contract = chosen'
                                         /\ (~inputFocused' => ledgerInput' = location'.ledger)
    BY DEF OneOnItsWay
  <2>1. Len(replacing) <= 1 /\ NextUrl(location')
    BY <1>1, <1>4 DEF OneOnItsWay
  <2>2. replacing' = <<>>
    BY <1>1, <1>2, <2>1
  <2>3. ~inputFocused' => ledgerInput' = location'.ledger
    BY <1>3, <2>1 DEF NextUrl
  <2> QED BY <2>1, <2>2, <2>3, <1>4 DEF NextUrl
<1> QED BY <1>6, <1>7, <1>8

\* A request ends: the live one with what it was for, an aborted one with nothing.
LEMMA FetchEnds ==
    ASSUME DashInv, NEW n \in DOMAIN fetches, fetches' = RemoveAt(fetches, n), location' = location,
           fetches[n].aborted => shownPage' = shownPage,
           ~fetches[n].aborted =>
               shownPage'.filters = IF shownPage'.mock THEN FirstOfContract(fetches[n].filters) ELSE fetches[n].filters
    PROVE  fetches' \in Seq(Requests) /\ LiveIsForUrl'
<1>1. fetches \in Seq(Requests) /\ Len(fetches) \in Nat /\ n \in 1 .. Len(fetches)
  BY DEF DashInv, DashTypes
<1>2. /\ fetches' \in Seq(Requests) /\ Len(fetches') = Len(fetches) - 1
      /\ \A k \in 1 .. Len(fetches) - 1 : fetches'[k] = IF k < n THEN fetches[k] ELSE fetches[k + 1]
  BY <1>1, RemovedAt
<1>3. /\ \A k \in 1 .. Len(fetches) :
            ~fetches[k].aborted => k = Len(fetches) /\ fetches[k].filters = Asked(location)
      /\ (\A k \in 1 .. Len(fetches) : fetches[k].aborted) => ShowsUrl
  BY DEF DashInv, LiveIsForUrl
<1>4. ASSUME NEW k \in 1 .. Len(fetches'), ~fetches'[k].aborted
      PROVE  k = Len(fetches') /\ fetches'[k].filters = Asked(location)
  <2>1. k \in 1 .. Len(fetches) - 1
    BY <1>2
  <2>2. CASE k < n
    <3>1. fetches'[k] = fetches[k] /\ k \in 1 .. Len(fetches)
      BY <2>1, <2>2, <1>1, <1>2
    <3>2. k = Len(fetches)
      BY <3>1, <1>3, <1>4
    <3> QED BY <3>2, <2>1, <1>1
  <2>3. CASE ~(k < n)
    <3>1. fetches'[k] = fetches[k + 1] /\ k + 1 \in 1 .. Len(fetches)
      BY <2>1, <2>3, <1>1, <1>2
    <3>2. k + 1 = Len(fetches) /\ fetches[k + 1].filters = Asked(location)
      BY <3>1, <1>3, <1>4
    <3> QED BY <3>1, <3>2, <2>1, <1>1, <1>2
  <2> QED BY <2>2, <2>3
<1>5. ASSUME \A k \in 1 .. Len(fetches') : fetches'[k].aborted PROVE ShowsUrl'
  <2>1. CASE ~fetches[n].aborted
    BY <2>1, <1>1, <1>3 DEF ShowsUrl
  <2>2. CASE fetches[n].aborted
    <3>1. ASSUME NEW k \in 1 .. Len(fetches) PROVE fetches[k].aborted
      <4>1. CASE k = n
        BY <4>1, <2>2
      <4>2. CASE k < n
        <5>1. k \in 1 .. Len(fetches) - 1 /\ fetches'[k] = fetches[k]
          BY <4>2, <1>1, <1>2
        <5> QED BY <5>1, <1>2, <1>5
      <4>3. CASE n < k
        <5>1. k - 1 \in 1 .. Len(fetches) - 1 /\ ~(k - 1 < n) /\ (k - 1) + 1 = k
          BY <4>3, <1>1
        <5>2. fetches'[k - 1] = fetches[k]
          BY <5>1, <1>2
        <5> QED BY <5>1, <5>2, <1>2, <1>5
      <4> QED BY <4>1, <4>2, <4>3, <1>1
    <3> QED BY <3>1, <2>2, <1>3 DEF ShowsUrl
  <2> QED BY <2>1, <2>2
<1>6. LiveIsForUrl'
  BY <1>4, <1>5 DEF LiveIsForUrl
<1> QED BY <1>2, <1>6

\* An answer, a failure, or an aborted request that comes to its end.
LEMMA FetchPageStep ==
    ASSUME DashInv, NEW n \in DOMAIN fetches, Receive(n) \/ ReceiveMock(n) \/ FallBack(n) \/ Aborted(n)
    PROVE  DashInv'
<1>1. UNCHANGED <<feed, location, replacing, inputvars, chosen, favourite, overlapped>> /\ fetches' = RemoveAt(fetches, n)
  BY DEF Receive, ReceiveMock, FallBack, Aborted, Finally
<1>2. fetches[n].filters \in Filters /\ fetches[n].filters.page \in Nat \ {0}
  <2>1. fetches[n] \in Requests
    BY DEF DashInv, DashTypes
  <2> QED BY <2>1 DEF Requests, Filters
<1>3. ASSUME NEW list \in Seq(Events), NEW f PROVE Counted(list, f) \in Nat
  <2>1. IsFiniteSet(DOMAIN list)
    <3>1. DOMAIN list = 1 .. Len(list) /\ Len(list) \in Nat
      OBVIOUS
    <3> QED BY <3>1, FS_Interval
  <2>2. {k \in DOMAIN list : Matches(list[k], f)} \subseteq DOMAIN list
    OBVIOUS
  <2>3. IsFiniteSet({k \in DOMAIN list : Matches(list[k], f)})
    BY <2>1, <2>2, FS_Subset
  <2> QED BY <2>3, FS_CardinalityType DEF Counted
<1>s. feed \in Seq(Events) /\ MOCK_RAW_EVENTS \in Seq(Events)
  BY DashboardAssumption DEF DashInv, DashTypes
<1>p. ASSUME NEW list \in Seq(Events), shownPage' = EventsPage(list, fetches[n].filters)
      PROVE  /\ shownPage'.total \in Nat /\ shownPage'.filters = fetches[n].filters /\ shownPage'.mock = FALSE
  <2>1. shownPage'.total = Counted(list, fetches[n].filters) /\ shownPage'.filters = fetches[n].filters
        /\ shownPage'.mock = FALSE
    BY <1>p DEF EventsPage
  <2> QED BY <2>1, <1>3
<1>4. /\ shownPage'.total \in Nat /\ shownPage'.filters.page \in Nat \ {0}
      /\ fetches[n].aborted => shownPage' = shownPage
      /\ ~fetches[n].aborted =>
           shownPage'.filters = IF shownPage'.mock THEN FirstOfContract(fetches[n].filters) ELSE fetches[n].filters
  <2>1. CASE Receive(n)
    <3>1. shownPage' = EventsPage(feed, fetches[n].filters) /\ ~fetches[n].aborted
      BY <2>1 DEF Receive
    <3> QED BY <3>1, <1>p, <1>s, <1>2
  <2>2. CASE ReceiveMock(n)
    <3>1. shownPage' = EventsPage(MOCK_RAW_EVENTS, fetches[n].filters) /\ ~fetches[n].aborted
      BY <2>2 DEF ReceiveMock
    <3> QED BY <3>1, <1>p, <1>s, <1>2
  <2>3. CASE FallBack(n)
    <3>1. PICK f : f = FirstOfContract(fetches[n].filters)
      OBVIOUS
    <3>2. shownPage' = [filters |-> f, events |-> Matching(MOCK_RAW_EVENTS, f),
                        total |-> Counted(MOCK_RAW_EVENTS, f), mock |-> TRUE] /\ ~fetches[n].aborted
      BY <2>3, <3>1 DEF FallBack
    <3>3. shownPage'.filters = f /\ shownPage'.total = Counted(MOCK_RAW_EVENTS, f) /\ shownPage'.mock = TRUE
      BY <3>2
    <3>4. shownPage'.total \in Nat
      BY <3>3, <1>3, <1>s
    <3>5. f.page = 1
      BY <3>1 DEF FirstOfContract
    <3> QED BY <3>1, <3>2, <3>3, <3>4, <3>5
  <2>4. CASE Aborted(n)
    BY <2>4 DEF Aborted, DashInv, DashTypes
  <2> QED BY <2>1, <2>2, <2>3, <2>4
<1>5. fetches' \in Seq(Requests) /\ LiveIsForUrl'
  BY <1>1, <1>4, FetchEnds
<1>6. DashTypes'
  BY <1>1, <1>4, <1>5 DEF DashInv, DashTypes, inputvars
<1>7. OneOnItsWay'
  BY <1>1 DEF DashInv, OneOnItsWay, NextUrl, SameFilters, inputvars
<1> QED BY <1>5, <1>6, <1>7 DEF DashInv

\* An event that arrives goes on top of the feed, and of the live events its filter lets through.
LEMMA NewEventStep == ASSUME DashInv, NEW e \in Arriving, NewEvent(e) PROVE DashInv'
<1>1. UNCHANGED <<location, replacing, fetches, shownPage, inputvars, chosen, favourite, overlapped>>
      /\ feed' = <<e>> \o feed
  BY DEF NewEvent
<1>2. feed' \in Seq(Events)
  BY <1>1, DashboardAssumption DEF DashInv, DashTypes
<1>3. DashTypes'
  BY <1>1, <1>2 DEF DashInv, DashTypes, inputvars
<1>4. LiveIsForUrl' /\ OneOnItsWay'
  BY <1>1 DEF DashInv, LiveIsForUrl, ShowsUrl, OneOnItsWay, NextUrl, SameFilters, inputvars
<1> QED BY <1>3, <1>4 DEF DashInv

\* Every step of the dashboard keeps its invariant.
LEMMA DashStep == ASSUME DashInv, [DashNext]_dashvars PROVE DashInv'
<1>1. CASE \/ \E c \in DashboardContracts : SetFilters(c)
           \/ \E c \in DashboardContracts \cup {"all"} : SelectContract(c)
           \/ \E t \in EventTypes \cup {"all"} : SelectType(t)
           \/ RemoveLedger \/ clearAll \/ BlurLedger
           \/ \E p \in 1 .. MaxFeedEvents : GoToPage(p)
  BY <1>1, ControlStep
<1>2. CASE \E e \in Arriving : NewEvent(e)
  BY <1>2, NewEventStep
<1>3. CASE \E t \in LedgerTexts : TypeLedger(t)
  BY <1>3, TypeStep
<1>4. CASE Navigate
  BY <1>4, NavigateStep
<1>5. CASE \E n \in DOMAIN fetches : Receive(n) \/ ReceiveMock(n) \/ FallBack(n) \/ Aborted(n)
  BY <1>5, FetchPageStep
<1>6. CASE UNCHANGED dashvars
  BY <1>6 DEF dashvars, inputvars, DashInv, DashTypes, LiveIsForUrl, ShowsUrl, OneOnItsWay, NextUrl, SameFilters
<1> QED BY <1>1, <1>2, <1>3, <1>4, <1>5, <1>6 DEF DashNext

\* There is a page, and a button for each of at most 2 * SideButtons + 1 pages around the current one.
LEMMA ButtonsFit ==
    ASSUME NEW current \in Nat \ {0}, NEW total \in Nat \ {0}, NEW side \in Nat, NEW first, NEW count,
           first = (IF total <= 2 * side + 1 \/ current <= side + 1 THEN 1
                    ELSE IF current >= total - side THEN total - 2 * side ELSE current - side),
           count = (IF total < 2 * side + 1 THEN total ELSE 2 * side + 1)
    PROVE  /\ first .. first + count - 1 \subseteq 1 .. total
           /\ current <= total => current \in first .. first + count - 1
  OBVIOUS

\* There is a page even of nothing.
LEMMA PagesFacts == ASSUME NEW total \in Nat PROVE Pages(total) \in Nat \ {0}
<1>1. CASE total = 0
  BY <1>1 DEF Pages
<1>2. CASE total # 0
  <2>1. PICK n : n = total + PageLimit - 1
    OBVIOUS
  <2>2. n \in Nat /\ n >= PageLimit /\ PageLimit \in Nat /\ PageLimit > 0
    BY <2>1, <1>2, DashboardAssumption
  <2>3. n \div PageLimit \in Nat /\ n \div PageLimit >= 1
    BY <2>2
  <2> QED BY <2>1, <2>3, <1>2 DEF Pages
<1> QED BY <1>1, <1>2

\* The invariant is what the dashboard's properties need.
LEMMA DashAccounts == DashInv => SettledShowsUrl /\ FilterKept /\ InputShowsUrl /\ ButtonsArePages
<1> SUFFICES ASSUME DashInv PROVE SettledShowsUrl /\ FilterKept /\ InputShowsUrl /\ ButtonsArePages
  OBVIOUS
<1>1. SettledShowsUrl
  BY DEF DashInv, LiveIsForUrl, SettledShowsUrl
<1>2. FilterKept /\ InputShowsUrl
  BY DEF DashInv, OneOnItsWay, FilterKept, InputShowsUrl
<1>3. ButtonsArePages
  <2>1. PICK total : total = Pages(shownPage.total)
    OBVIOUS
  <2>2. PICK current : current = shownPage.filters.page
    OBVIOUS
  <2>3. total \in Nat \ {0} /\ current \in Nat \ {0} /\ SideButtons \in Nat
    BY <2>1, <2>2, PagesFacts, DashboardAssumption DEF DashInv, DashTypes
  <2>4. PICK first, count :
           /\ first = (IF total <= 2 * SideButtons + 1 \/ current <= SideButtons + 1 THEN 1
                       ELSE IF current >= total - SideButtons THEN total - 2 * SideButtons ELSE current - SideButtons)
           /\ count = (IF total < 2 * SideButtons + 1 THEN total ELSE 2 * SideButtons + 1)
    OBVIOUS
  <2>5. pageButtons(current, total) = first .. first + count - 1
    BY <2>4 DEF pageButtons
  <2>6. /\ first .. first + count - 1 \subseteq 1 .. total
        /\ current <= total => current \in first .. first + count - 1
    BY ONLY <2>3, <2>4, ButtonsFit
  <2> QED BY <2>1, <2>2, <2>5, <2>6 DEF ButtonsArePages
<1> QED BY <1>1, <1>2, <1>3

\* However filters, pages, answers and failures overlap, the dashboard shows what its URL
\* asks for, its controls show the URL, and its buttons are pages.
THEOREM DashboardCorrect == DashSpec => [](SettledShowsUrl /\ FilterKept /\ InputShowsUrl /\ ButtonsArePages)
<1> QED BY DashInitial, DashStep, DashAccounts, PTL DEF DashSpec

\* A control that changes a filter leaves no page of the old filters.
THEOREM FiltersRestart == DashSpec => FilterRestartsPages
<1>1. ASSUME DashInv, [DashNext]_dashvars
      PROVE  [~overlapped' /\ ~favourite /\ location'.page # 1 => SameFilters(location', location)]_dashvars
  <2> SUFFICES ASSUME ~overlapped', ~favourite, location'.page # 1
               PROVE  SameFilters(location', location)
    OBVIOUS
  <2>1. CASE location' = location
    BY <2>1 DEF SameFilters
  <2>2. CASE location' # location
    <3>1. Navigate
      BY <2>2, <1>1 DEF DashNext, dashvars, SetFilters, SelectContract, SelectType, setParam, RouterReplace,
           RemoveLedger, clearAll, BlurLedger, TypeLedger, GoToPage, Receive, ReceiveMock, FallBack, Aborted, NewEvent
    <3>2. location' = replacing[1] /\ replacing # <<>> /\ ~overlapped
      BY <3>1, <1>1 DEF Navigate, DashInv, DashTypes
    <3> QED BY <3>2, <1>1 DEF DashInv, OneOnItsWay, NextUrl
  <2> QED BY <2>1, <2>2
<1> QED BY <1>1, DashInitial, DashStep, PTL DEF DashSpec, FilterRestartsPages

-----------------------------------------------------------------------------
(* Fields on an IPFS node.                                               *)

\* A field holds its text, or points to it on the node and among the cids.
Holds(f, text, node, cids) ==
    f = <<"inline", text>> \/ (f = <<"ipfs", text>> /\ text \in node \cap cids)

StoringInv ==
    storing # NoEvent =>
        /\ storing.event \in DOMAIN RawFields
        /\ storing = [event |-> storing.event, fields |-> storing.fields, cids |-> storing.cids]
        /\ storing.fields \in Seq(Range(storing.fields)) /\ Len(storing.fields) <= Len(RawFields[storing.event])
        /\ \A n \in 1 .. Len(storing.fields) :
              Holds(storing.fields[n], RawFields[storing.event][n], onNode, storing.cids)

StoredInv ==
    /\ DOMAIN stored = DOMAIN RawFields
    /\ \A e \in DOMAIN RawFields :
          \A n \in DOMAIN stored[e].fields : Holds(stored[e].fields[n], RawFields[e][n], onNode, stored[e].cids)

\* A request under way, and which of them may still write the result.
LookingInv ==
    /\ resolved.content # "none" => looking # <<>> /\ resolved.content = looking[2]
    /\ resolved.loading \in BOOLEAN /\ (resolved.loading <=> \E r \in resolving : r.live)
    /\ \A r \in resolving :
          /\ r = [cid |-> r.cid, live |-> r.live] /\ r.live \in BOOLEAN
          /\ r.live => looking # <<>> /\ r.cid = looking[2]

IpfsInv == StoringInv /\ StoredInv /\ LookingInv

\* The fields of an event are a list.
LEMMA RawFacts == \A e \in DOMAIN RawFields :
    /\ RawFields[e] \in Seq(Range(RawFields[e])) /\ Len(RawFields[e]) \in Nat /\ e # 0
  BY IpfsOffloadAssumption

\* One field more of the event that is stored.
LEMMA FieldStored ==
    ASSUME IpfsInv, TextsLeft, NEW f, NEW cids, NEW node,
           onNode \subseteq node, storing.cids \subseteq cids, Holds(f, NextText, node, cids),
           onNode' = node, storing' = [event |-> storing.event, fields |-> Append(storing.fields, f), cids |-> cids]
    PROVE  StoringInv'
<1> DEFINE S == Range(storing.fields) \cup {f}
<1>1. PICK e, raw, len : e = storing.event /\ raw = RawFields[storing.event] /\ len = Len(storing.fields)
  OBVIOUS
<1>2. /\ e \in DOMAIN RawFields /\ Len(raw) \in Nat /\ len \in Nat /\ len < Len(raw)
      /\ storing.fields \in Seq(Range(storing.fields))
      /\ \A n \in 1 .. len : Holds(storing.fields[n], raw[n], onNode, storing.cids)
  BY <1>1, RawFacts DEF IpfsInv, StoringInv, TextsLeft
<1>3. PICK fs : fs = Append(storing.fields, f)
  OBVIOUS
<1>4. storing.fields \in Seq(S)
  BY <1>2, SeqMonotonic
<1> HIDE DEF S
<1>5. f \in S
  BY DEF S
<1>6. /\ fs \in Seq(S) /\ Len(fs) = len + 1 /\ fs[len + 1] = f
      /\ \A n \in 1 .. len : fs[n] = storing.fields[n]
  BY <1>1, <1>3, <1>4, <1>5, AppendProperties
<1>7. fs \in Seq(Range(fs))
  BY <1>6, SeqOfRange
<1>8. ASSUME NEW n \in 1 .. len + 1 PROVE Holds(fs[n], raw[n], node, cids)
  <2>1. CASE n = len + 1
    BY <2>1, <1>1, <1>6 DEF NextText
  <2>2. CASE n # len + 1
    <3>1. n \in 1 .. len
      BY <2>2, <1>2
    <3> QED BY <3>1, <1>2, <1>6 DEF Holds
  <2> QED BY <2>1, <2>2
<1>9. /\ storing' = [event |-> e, fields |-> fs, cids |-> cids]
      /\ storing'.event = e /\ storing'.fields = fs /\ storing'.cids = cids
  BY <1>1, <1>3
<1>10. Len(fs) <= Len(raw)
  BY <1>2, <1>6
<1>11. \A n \in 1 .. Len(fs) : Holds(fs[n], raw[n], node, cids)
  BY <1>6, <1>8
<1> QED BY <1>1, <1>2, <1>7, <1>9, <1>10, <1>11 DEF StoringInv

\* Rows and the display are as they were, but for texts that were pinned meanwhile.
LEMMA RowsKept == ASSUME IpfsInv, onNode \subseteq onNode', UNCHANGED stored PROVE StoredInv'
  BY DEF IpfsInv, StoredInv, Holds

\* What does not look keeps what is known of the looks.
LEMMA LookKept == ASSUME IpfsInv, UNCHANGED <<looking, resolved, resolving>> PROVE LookingInv'
  BY DEF IpfsInv, LookingInv

\* What does not store keeps what is known of the store.
LEMMA StoringKept == ASSUME IpfsInv, UNCHANGED <<storing, onNode>> PROVE StoringInv'
  BY DEF IpfsInv, StoringInv

\* One field more: as it is, as a pointer, or as it is because the node fails.
LEMMA StoreSteps ==
    ASSUME IpfsInv, KeepInline \/ OffloadToIpfs \/ OffloadFails
    PROVE  IpfsInv'
<1>1. TextsLeft /\ storing = [event |-> storing.event, fields |-> storing.fields, cids |-> storing.cids]
  BY DEF KeepInline, OffloadToIpfs, OffloadFails, IpfsInv, StoringInv, TextsLeft
<1>2. PICK e, fields, cids : storing = [event |-> e, fields |-> fields, cids |-> cids]
  BY <1>1
<1>3. storing.event = e /\ storing.fields = fields /\ storing.cids = cids
  BY <1>2
<1>4. CASE KeepInline \/ OffloadFails
  <2>1. storing' = [event |-> e, fields |-> Append(fields, <<"inline", NextText>>), cids |-> cids] /\ onNode' = onNode
    BY <1>2, <1>4 DEF KeepInline, OffloadFails
  <2>2. Holds(<<"inline", NextText>>, NextText, onNode, cids)
    BY DEF Holds
  <2>3. StoringInv'
    BY <1>1, <1>3, <2>1, <2>2, FieldStored
  <2>4. UNCHANGED <<stored, looking, resolved, resolving>>
    BY <1>4 DEF KeepInline, OffloadFails
  <2> QED BY <2>1, <2>3, <2>4, RowsKept, LookKept DEF IpfsInv
<1>5. CASE OffloadToIpfs
  <2>1. /\ storing' = [event |-> e, fields |-> Append(fields, <<"ipfs", NextText>>), cids |-> cids \cup {NextText}]
        /\ onNode' = onNode \cup {NextText}
    BY <1>2, <1>5 DEF OffloadToIpfs
  <2>2. Holds(<<"ipfs", NextText>>, NextText, onNode \cup {NextText}, cids \cup {NextText})
    BY DEF Holds
  <2>3. StoringInv'
    <3>1. PICK more, node : more = cids \cup {NextText} /\ node = onNode \cup {NextText}
      OBVIOUS
    <3>2. onNode \subseteq node /\ storing.cids \subseteq more
      BY <3>1, <1>3
    <3> QED BY <1>1, <1>3, <2>1, <2>2, <3>1, <3>2, FieldStored
  <2>4. UNCHANGED <<stored, looking, resolved, resolving>>
    BY <1>5 DEF OffloadToIpfs
  <2> QED BY <2>1, <2>3, <2>4, RowsKept, LookKept DEF IpfsInv
<1> QED BY <1>4, <1>5 DEF KeepInline, OffloadToIpfs, OffloadFails

\* The event is stored when all its fields are.
LEMMA StoreEnd == ASSUME IpfsInv, StoreEnds PROVE IpfsInv'
<1>1. PICK e, fields, cids : e = storing.event /\ fields = storing.fields /\ cids = storing.cids
  OBVIOUS
<1>2. PICK kept : kept = IF cids = {} THEN stored[e].cids ELSE cids
  OBVIOUS
<1>3. PICK row : row = [fields |-> fields, cids |-> kept]
  OBVIOUS
<1>4. /\ stored' = [stored EXCEPT ![e] = row] /\ storing' = NoEvent /\ storing # NoEvent
      /\ UNCHANGED <<onNode, looking, resolved, resolving>>
  BY <1>1, <1>2, <1>3 DEF StoreEnds
<1>5. /\ e \in DOMAIN RawFields /\ fields \in Seq(Range(fields)) /\ DOMAIN fields = 1 .. Len(fields)
      /\ \A n \in 1 .. Len(fields) : Holds(fields[n], RawFields[e][n], onNode, cids)
  BY <1>1, <1>4 DEF IpfsInv, StoringInv
<1>6. \A n \in DOMAIN fields : Holds(fields[n], RawFields[e][n], onNode, kept)
  BY <1>2, <1>5 DEF Holds
<1>7. DOMAIN stored = DOMAIN RawFields
  BY DEF IpfsInv, StoredInv
<1>8. row.fields = fields /\ row.cids = kept
  BY <1>3
<1>9. stored'[e] = row /\ \A d \in DOMAIN RawFields \ {e} : stored'[d] = stored[d]
  BY <1>4, <1>5, <1>7
<1>10. StoredInv'
  <2>1. DOMAIN stored' = DOMAIN RawFields
    BY <1>4, <1>7
  <2>2. ASSUME NEW d \in DOMAIN RawFields, NEW n \in DOMAIN stored'[d].fields
        PROVE  Holds(stored'[d].fields[n], RawFields[d][n], onNode, stored'[d].cids)
    <3>1. CASE d = e
      BY <2>2, <3>1, <1>6, <1>8, <1>9
    <3>2. CASE d # e
      BY <2>2, <3>2, <1>9 DEF IpfsInv, StoredInv
    <3> QED BY <3>1, <3>2
  <2> QED BY <2>1, <2>2, <1>4 DEF StoredInv
<1>11. StoringInv'
  BY <1>4 DEF StoringInv
<1> QED BY <1>4, <1>10, <1>11, LookKept DEF IpfsInv

\* What was cancelled writes nothing.
LEMMA CancelledWriteNothing ==
    ASSUME IpfsInv
    PROVE  \A r \in Uncancel(resolving) : r = [cid |-> r.cid, live |-> r.live] /\ r.live = FALSE
<1>1. ASSUME NEW s \in resolving, NEW r, r = [s EXCEPT !.live = FALSE]
      PROVE  r = [cid |-> r.cid, live |-> r.live] /\ r.live = FALSE
  <2>1. PICK c, b : s = [cid |-> c, live |-> b]
    BY DEF IpfsInv, LookingInv
  <2>2. r = [cid |-> c, live |-> FALSE]
    BY <1>1, <2>1
  <2> QED BY <2>2
<1> QED BY <1>1 DEF Uncancel

\* Another field is looked at: what was asked for before writes nothing.
LEMMA LookStep ==
    ASSUME IpfsInv, NEW e \in DOMAIN RawFields, NEW n \in DOMAIN stored[e].fields, Look(stored[e].fields[n])
    PROVE  IpfsInv'
<1>1. PICK field : field = stored[e].fields[n]
  OBVIOUS
<1>2. PICK text : field = <<"inline", text>> \/ field = <<"ipfs", text>>
  BY <1>1 DEF IpfsInv, StoredInv, Holds
<1>3. field # <<>> /\ field[2] = text
  BY <1>2
<1>4. looking' = field /\ UNCHANGED <<storing, stored, onNode>>
  BY <1>1 DEF Look
<1>5. \A r \in Uncancel(resolving) : r = [cid |-> r.cid, live |-> r.live] /\ r.live = FALSE
  BY CancelledWriteNothing
<1>6. LookingInv'
  <2>1. CASE field[1] = "inline" \/ field[2] \in resolveCache
    <3>1. PICK res : res = [NoResult EXCEPT !.content = field[2]]
      OBVIOUS
    <3>2. res.content = field[2] /\ res.loading = FALSE
      BY <3>1 DEF NoResult
    <3>3. resolved' = res /\ resolving' = Uncancel(resolving)
      BY <2>1, <3>1, <1>1 DEF Look
    <3> QED BY <3>2, <3>3, <1>3, <1>4, <1>5 DEF LookingInv
  <2>2. CASE ~(field[1] = "inline" \/ field[2] \in resolveCache)
    <3>1. PICK res, q : res = [NoResult EXCEPT !.loading = TRUE] /\ q = [cid |-> field[2], live |-> TRUE]
      OBVIOUS
    <3>2. res.content = "none" /\ res.loading = TRUE /\ q.cid = field[2] /\ q.live = TRUE
          /\ q = [cid |-> q.cid, live |-> q.live]
      BY <3>1 DEF NoResult
    <3>3. resolved' = res /\ resolving' = Uncancel(resolving) \cup {q}
      BY <2>2, <3>1, <1>1 DEF Look
    <3>4. ASSUME NEW r \in resolving'
          PROVE  r = [cid |-> r.cid, live |-> r.live] /\ r.live \in BOOLEAN
                 /\ (r.live => looking' # <<>> /\ r.cid = looking'[2])
      <4>1. CASE r = q
        BY <4>1, <3>2, <1>3, <1>4
      <4>2. CASE r \in Uncancel(resolving)
        BY <4>2, <1>5
      <4> QED BY <3>3, <4>1, <4>2
    <3>5. q \in resolving'
      BY <3>3
    <3> QED BY <3>2, <3>3, <3>4, <3>5 DEF LookingInv
  <2> QED BY <2>1, <2>2
<1> QED BY <1>4, <1>6, RowsKept, StoringKept DEF IpfsInv

\* Looking away leaves nothing shown.
LEMMA LookAwayStep == ASSUME IpfsInv, LookAway PROVE IpfsInv'
<1>1. /\ looking' = <<>> /\ resolved' = NoResult /\ resolving' = Uncancel(resolving)
      /\ UNCHANGED <<storing, stored, onNode>>
  BY DEF LookAway
<1>2. \A r \in Uncancel(resolving) : r = [cid |-> r.cid, live |-> r.live] /\ r.live = FALSE
  BY CancelledWriteNothing
<1>3. NoResult.content = "none" /\ NoResult.loading = FALSE
  BY DEF NoResult
<1>4. LookingInv'
  BY <1>1, <1>2, <1>3 DEF LookingInv
<1> QED BY <1>1, <1>4, RowsKept, StoringKept DEF IpfsInv

\* What the route answers: the prefix is gone twice, so it finds no cid.
LEMMA RouteFindsNothing == \A cid : ResolveRoute(<<"cid", cid>>) = "null"
  BY DEF ResolveRoute, resolveFromIpfs, extractCid

\* An answer of a gateway is shown for the look that asked.
LEMMA AnswerStep ==
    ASSUME IpfsInv, NEW r \in resolving, Resolve(r) \/ ResolveFails(r)
    PROVE  IpfsInv'
<1>1. Answered(r, "null")
  BY RouteFindsNothing DEF Resolve, ResolveFails
<1>2. resolving' = resolving \ {r} /\ UNCHANGED <<storing, stored, onNode, looking>>
  BY <1>1 DEF Answered
<1>3. LookingInv'
  <2>1. CASE r.live
    <3>1. PICK res : res = [NoResult EXCEPT !.error = TRUE]
      OBVIOUS
    <3>2. res.content = "none" /\ res.loading = FALSE
      BY <3>1 DEF NoResult
    <3>3. resolved' = res
      BY <1>1, <2>1, <3>1 DEF Answered
    <3>4. ASSUME NEW s \in resolving', s.live PROVE FALSE
      <4>1. s \in resolving /\ s # r
        BY <1>2
      <4>2. /\ s = [cid |-> s.cid, live |-> s.live] /\ r = [cid |-> r.cid, live |-> r.live]
            /\ s.cid = looking[2] /\ r.cid = looking[2] /\ s.live = TRUE /\ r.live = TRUE
        BY <4>1, <3>4, <2>1 DEF IpfsInv, LookingInv
      <4>3. s = r
        BY <4>2
      <4> QED BY <4>1, <4>3
    <3>5. \A s \in resolving' : s = [cid |-> s.cid, live |-> s.live] /\ s.live \in BOOLEAN
      BY <1>2 DEF IpfsInv, LookingInv
    <3> QED BY <3>2, <3>3, <3>4, <3>5 DEF LookingInv
  <2>2. CASE ~r.live
    <3>1. resolved' = resolved
      BY <1>1, <2>2 DEF Answered
    <3> QED BY <3>1, <2>2, <1>2 DEF IpfsInv, LookingInv
  <2> QED BY <2>1, <2>2
<1> QED BY <1>2, <1>3, RowsKept, StoringKept DEF IpfsInv

\* An event begins without a field.
LEMMA BeginStep == ASSUME IpfsInv, NEW e \in DOMAIN RawFields, StoreBegins(e) PROVE IpfsInv'
<1>1. storing' = [event |-> e, fields |-> <<>>, cids |-> {}] /\ UNCHANGED <<onNode, stored, looking, resolved, resolving>>
  BY DEF StoreBegins
<1>2. storing'.event = e /\ storing'.fields = <<>> /\ storing'.cids = {}
  BY <1>1
<1>3. Len(RawFields[e]) \in Nat
  BY RawFacts
<1>4. <<>> \in Seq(Range(<<>>)) /\ Len(<<>>) = 0
  OBVIOUS
<1>5. StoringInv'
  BY <1>1, <1>2, <1>3, <1>4 DEF StoringInv
<1> QED BY <1>1, <1>5, RowsKept, LookKept DEF IpfsInv

\* Every step keeps the invariant.
LEMMA IpfsStep == ASSUME IpfsInv, [IpfsNext]_ipfsvars PROVE IpfsInv'
<1>1. CASE \E e \in DOMAIN RawFields : StoreBegins(e)
  BY <1>1, BeginStep
<1>2. CASE KeepInline \/ OffloadToIpfs \/ OffloadFails
  BY <1>2, StoreSteps
<1>3. CASE StoreEnds
  BY <1>3, StoreEnd
<1>4. CASE \E e \in DOMAIN RawFields : \E n \in DOMAIN stored[e].fields : Look(stored[e].fields[n])
  BY <1>4, LookStep
<1>5. CASE LookAway
  BY <1>5, LookAwayStep
<1>6. CASE \E r \in resolving : Resolve(r) \/ ResolveFails(r)
  BY <1>6, AnswerStep
<1>7. CASE UNCHANGED ipfsvars
  BY <1>7, RowsKept, StoringKept, LookKept DEF ipfsvars, IpfsInv
<1> QED BY <1>1, <1>2, <1>3, <1>4, <1>5, <1>6, <1>7 DEF IpfsNext

\* Before anything is stored.
LEMMA IpfsInitial == IpfsInit => IpfsInv
<1> SUFFICES ASSUME IpfsInit PROVE IpfsInv
  OBVIOUS
<1>1. StoringInv
  BY DEF IpfsInit, StoringInv
<1>2. StoredInv
  <2>1. PICK row : row = [fields |-> <<>>, cids |-> {}]
    OBVIOUS
  <2>2. row.fields = <<>> /\ DOMAIN row.fields = {} /\ stored = [e \in DOMAIN RawFields |-> row]
    BY <2>1 DEF IpfsInit
  <2> QED BY <2>2 DEF StoredInv
<1>3. LookingInv
  BY DEF IpfsInit, LookingInv, NoResult
<1> QED BY <1>1, <1>2, <1>3 DEF IpfsInv

\* A field that is stored holds its text or a pointer to it; what is displayed is about the
\* field looked at, however answers cross.
LEMMA IpfsAccounts == IpfsInv => FieldsRecoverable /\ ShownIsLookedAt
<1> SUFFICES ASSUME IpfsInv PROVE FieldsRecoverable /\ ShownIsLookedAt
  OBVIOUS
<1>1. ASSUME NEW e \in DOMAIN RawFields, NEW n \in DOMAIN stored[e].fields
      PROVE  /\ stored[e].fields[n][2] = RawFields[e][n]
             /\ stored[e].fields[n][1] = "ipfs" =>
                   stored[e].fields[n][2] \in onNode /\ stored[e].fields[n][2] \in stored[e].cids
  <2>1. PICK f, text, cids : f = stored[e].fields[n] /\ text = RawFields[e][n] /\ cids = stored[e].cids
    OBVIOUS
  <2>2. Holds(f, text, onNode, cids)
    BY <2>1 DEF IpfsInv, StoredInv
  <2>3. f[2] = text /\ (f[1] = "ipfs" => text \in onNode /\ text \in cids)
    BY <2>2 DEF Holds
  <2> QED BY <2>1, <2>3
<1>2. FieldsRecoverable
  BY <1>1 DEF FieldsRecoverable
<1>3. ShownIsLookedAt
  BY DEF IpfsInv, LookingInv, ShownIsLookedAt
<1> QED BY <1>2, <1>3

\* Large fields of events stay recoverable, and the display follows what is looked at.
THEOREM IpfsCorrect == IpfsSpec => [](FieldsRecoverable /\ ShownIsLookedAt)
<1> QED BY IpfsInitial, IpfsStep, IpfsAccounts, PTL DEF IpfsSpec


-----------------------------------------------------------------------------
(* The panel of the execution graph.                                     *)

DagCalls == [tx : TxHashes, no : Nat, live : BOOLEAN]

\* One of graph, spinner and error, once a transaction is active.
OneShown ==
    /\ dagState = [dag |-> dagState.dag, loading |-> dagState.loading, error |-> dagState.error]
    /\ dagState.loading \in BOOLEAN
    /\ dagState.dag # "none" => dagState.dag = activeTx /\ dagState.error = "none" /\ ~dagState.loading
    /\ dagState.error # "none" => ~dagState.loading
    /\ activeTx # "none" => dagState.dag # "none" \/ dagState.loading \/ dagState.error # "none"

\* At most one request may write, and it is for the active transaction.
OneLive ==
    /\ dagCalls \subseteq DagCalls
    /\ dagState.loading <=> \E c \in dagCalls : c.live
    /\ \A c \in dagCalls : c.live => c.tx = activeTx
    /\ \A c, d \in dagCalls : c.live /\ d.live => c = d

DagPanelInv == OneShown /\ OneLive /\ dagRequests \in Nat

\* No transaction is active at first.
LEMMA DagPanelInitial == DagPanelInit => DagPanelInv
<1> SUFFICES ASSUME DagPanelInit PROVE DagPanelInv
  OBVIOUS
<1>1. /\ dagState.dag = "none" /\ dagState.loading = FALSE /\ dagState.error = "none"
      /\ dagState = [dag |-> dagState.dag, loading |-> dagState.loading, error |-> dagState.error]
  BY DEF DagPanelInit
<1>2. dagCalls = {} /\ dagRequests = 0 /\ activeTx = "none"
  BY DEF DagPanelInit
<1> QED BY <1>1, <1>2 DEF DagPanelInv, OneShown, OneLive

\* A cancelled request is one that writes nothing.
LEMMA CancelledCalls == ASSUME DagPanelInv PROVE \A c \in Cancelled : c \in DagCalls /\ c.live = FALSE
<1>1. ASSUME NEW s \in dagCalls, NEW c, c = [s EXCEPT !.live = FALSE] PROVE c \in DagCalls /\ c.live = FALSE
  BY <1>1 DEF DagPanelInv, OneLive, DagCalls
<1> QED BY <1>1 DEF Cancelled

\* The effect of a new hash.
LEMMA FetchDagStep ==
    ASSUME DagPanelInv, NEW tx \in TxHashes, activeTx' = tx, FetchDag(tx)
    PROVE  DagPanelInv'
<1>1. PICK c, n : c = [tx |-> tx, no |-> n, live |-> TRUE] /\ n = dagRequests + 1
  OBVIOUS
<1>2. n \in Nat /\ dagRequests' = n
  BY <1>1 DEF DagPanelInv, FetchDag
<1>3. c \in DagCalls /\ c.live = TRUE /\ c.tx = tx
  BY <1>1, <1>2 DEF DagCalls
<1>4. dagCalls' = Cancelled \cup {c}
  BY <1>1 DEF FetchDag
<1>5. dagState' = [dag |-> "none", loading |-> TRUE, error |-> "none"]
  BY DEF FetchDag
<1>6. OneShown'
  BY <1>5 DEF OneShown
<1>7. \A d \in dagCalls' : d \in DagCalls /\ (d.live => d = c)
  BY <1>3, <1>4, CancelledCalls
<1>8. c \in dagCalls' /\ dagState'.loading = TRUE
  BY <1>4, <1>5
<1>9. OneLive'
  BY <1>3, <1>7, <1>8 DEF OneLive
<1> QED BY <1>2, <1>6, <1>9 DEF DagPanelInv

\* An answer: it is shown if it may write, and no other may then.
LEMMA DagDispatchStep ==
    ASSUME DagPanelInv, NEW c \in dagCalls, NEW answer, answer # "none", Dispatch(c, answer)
    PROVE  DagPanelInv'
<1>1. dagCalls' = dagCalls \ {c} /\ UNCHANGED <<activeTx, dagRequests>>
  BY DEF Dispatch
<1>2. c \in DagCalls /\ c.tx \in TxHashes /\ c.tx # "none"
  BY DagPanelAssumption DEF DagPanelInv, OneLive, DagCalls
<1>3. CASE c.live
  <2>1. ASSUME NEW d \in dagCalls', d.live PROVE FALSE
    BY <1>1, <1>3, <2>1 DEF DagPanelInv, OneLive
  <2>2. activeTx = c.tx
    BY <1>3 DEF DagPanelInv, OneLive
  <2>3. CASE answer = "ok"
    <3>1. dagState' = [dag |-> c.tx, loading |-> FALSE, error |-> "none"]
      BY <1>3, <2>3 DEF Dispatch
    <3>2. OneShown'
      BY <1>1, <1>2, <2>2, <3>1 DEF OneShown
    <3>3. dagState'.loading = FALSE
      BY <3>1
    <3> QED BY <1>1, <2>1, <3>2, <3>3 DEF DagPanelInv, OneLive
  <2>4. CASE answer # "ok"
    <3>1. dagState' = [dag |-> "none", loading |-> FALSE, error |-> answer]
      BY <1>3, <2>4 DEF Dispatch
    <3>2. OneShown'
      BY <3>1 DEF OneShown
    <3>3. dagState'.loading = FALSE
      BY <3>1
    <3> QED BY <1>1, <2>1, <3>2, <3>3 DEF DagPanelInv, OneLive
  <2> QED BY <2>3, <2>4
<1>4. CASE ~c.live
  <2>1. dagState' = dagState
    BY <1>4 DEF Dispatch
  <2> QED BY <1>1, <1>4, <2>1 DEF DagPanelInv, OneShown, OneLive
<1> QED BY <1>3, <1>4

\* Every step of the panel keeps its invariant.
LEMMA DagPanelStep == ASSUME DagPanelInv, [DagPanelNext]_dagpanelvars PROVE DagPanelInv'
<1>1. ASSUME NEW tx \in TxHashes, SubmitTx(tx) PROVE DagPanelInv'
  BY <1>1, FetchDagStep DEF SubmitTx
<1>2. ASSUME NEW tx \in TxHashes, LoadExample(tx) PROVE DagPanelInv'
  <2>1. CASE tx # activeTx
    BY <1>2, <2>1, FetchDagStep DEF LoadExample
  <2>2. CASE tx = activeTx
    BY <1>2, <2>2 DEF LoadExample, DagPanelInv, OneShown, OneLive
  <2> QED BY <2>1, <2>2
<1>3. ASSUME NEW tx \in TxHashes, CloseTx(tx) PROVE DagPanelInv'
  BY <1>3 DEF CloseTx, DagPanelInv, OneShown, OneLive
<1>4. CASE SubmitBad
  BY <1>4 DEF SubmitBad, DagPanelInv, OneShown, OneLive
<1>5. ASSUME NEW c \in dagCalls, DagAnswer(c) \/ DagFails(c) PROVE DagPanelInv'
  <2>1. DagRoute(c.tx) # "none"
    BY DEF DagRoute
  <2> QED BY <1>5, <2>1, DagDispatchStep DEF DagAnswer, DagFails
<1>6. CASE UNCHANGED dagpanelvars
  BY <1>6 DEF dagpanelvars, DagPanelInv, OneShown, OneLive
<1> QED BY <1>1, <1>2, <1>3, <1>4, <1>5, <1>6 DEF DagPanelNext

\* Exactly one of graph, spinner and error.
LEMMA ActiveIsShown == DagPanelInv => ShownIsActive
<1> SUFFICES ASSUME DagPanelInv PROVE ShownIsActive
  OBVIOUS
<1> DEFINE Shown == {x \in {"dag", "loading", "error"} :
            \/ x = "dag" /\ dagState.dag # "none"
            \/ x = "loading" /\ dagState.loading
            \/ x = "error" /\ dagState.error # "none"}
<1>1. ASSUME activeTx # "none" PROVE Cardinality(Shown) = 1
  <2>1. CASE dagState.dag # "none"
    <3>1. Shown = {"dag"}
      BY <2>1 DEF DagPanelInv, OneShown
    <3> QED BY <3>1, FS_Singleton
  <2>2. CASE dagState.loading
    <3>1. Shown = {"loading"}
      BY <2>2 DEF DagPanelInv, OneShown
    <3> QED BY <3>1, FS_Singleton
  <2>3. CASE dagState.error # "none"
    <3>1. Shown = {"error"}
      BY <2>3 DEF DagPanelInv, OneShown
    <3> QED BY <3>1, FS_Singleton
  <2> QED BY <1>1, <2>1, <2>2, <2>3 DEF DagPanelInv, OneShown
<1> QED BY <1>1 DEF ShownIsActive, DagPanelInv, OneShown, OneLive

\* What the panel of a transaction shows is about the transaction that is active.
THEOREM DagPanelCorrect == DagPanelSpec => []ShownIsActive
<1> QED BY DagPanelInitial, DagPanelStep, ActiveIsShown, PTL DEF DagPanelSpec

-----------------------------------------------------------------------------
(* Toasts.                                                               *)

ToastRecords == [id : Nat, open : BOOLEAN]

\* Ids count up, the newest toast first.
IdsCountDown ==
    /\ toastCount \in Nat /\ memoryState \in Seq(ToastRecords) /\ toastTimeouts \subseteq 1 .. toastCount
    /\ \A n \in 1 .. Len(memoryState) : memoryState[n].id \in 1 .. toastCount
    /\ \A n, k \in 1 .. Len(memoryState) : n < k => memoryState[n].id > memoryState[k].id

\* A listed toast has a timer exactly if it is closed, and then it was dismissed.
TimedIsClosed ==
    \A n \in 1 .. Len(memoryState) :
        /\ memoryState[n].open => memoryState[n].id \notin toastTimeouts
        /\ ~memoryState[n].open => memoryState[n].id \in toastTimeouts /\ memoryState[n].id \in dismissals

\* Who listens or will shows the list, unless it passed by.
AllShowIt ==
    /\ mounted \cup rendering \subseteq Listeners /\ DOMAIN rendered = Listeners
    /\ mounted \cap rendering = {}
    /\ \A l \in (mounted \cup rendering) \ stale : rendered[l] = memoryState

ToastInv == IdsCountDown /\ TimedIsClosed /\ AllShowIt

\* No toast is shown at first.
LEMMA ToastInitial == ToastInit => ToastInv
  BY DEF ToastInit, ToastInv, IdsCountDown, TimedIsClosed, AllShowIt

\* A list that is dispatched is what all show.
LEMMA ToastsDispatched ==
    ASSUME ToastInv, NEW list, dispatch(list), UNCHANGED toasters
    PROVE  AllShowIt' /\ memoryState' = list
  BY DEF ToastInv, AllShowIt, dispatch, toasters

\* A new toast, at the head of a list that may be cut.
LEMMA ToastAdded == ASSUME ToastInv, toast PROVE ToastInv'
<1>1. PICK new, k, all, m : /\ k = toastCount + 1 /\ new = [id |-> toastCount + 1, open |-> TRUE]
                         /\ all = <<new>> \o memoryState
                         /\ m = IF Len(all) < TOAST_LIMIT THEN Len(all) ELSE TOAST_LIMIT
  OBVIOUS
<1>2. /\ dispatch(SubSeq(all, 1, m)) /\ toastCount' = k /\ UNCHANGED <<toastTimeouts, toasters, dismissals>>
  BY <1>1 DEF toast
<1>3. /\ toastCount \in Nat /\ memoryState \in Seq(ToastRecords) /\ toastTimeouts \subseteq 1 .. toastCount
      /\ Len(memoryState) \in Nat
  BY LenProperties DEF ToastInv, IdsCountDown
<1>4. k \in Nat /\ k > toastCount
  BY <1>1, <1>3
<1>5. new \in ToastRecords /\ new.id = k /\ new.open = TRUE
  BY <1>1, <1>4 DEF ToastRecords
<1>6. /\ all \in Seq(ToastRecords) /\ Len(all) = Len(memoryState) + 1
      /\ \A n \in 1 .. Len(memoryState) + 1 : all[n] = IF n = 1 THEN new ELSE memoryState[n - 1]
  <2>1. PICK head : head = <<new>>
    OBVIOUS
  <2>2. head \in Seq(ToastRecords) /\ Len(head) = 1 /\ head[1] = new
    BY <2>1, <1>5
  <2>3. /\ head \o memoryState \in Seq(ToastRecords)
        /\ Len(head \o memoryState) = Len(head) + Len(memoryState)
        /\ \A n \in 1 .. Len(head) + Len(memoryState) : (head \o memoryState)[n] =
              IF n <= Len(head) THEN head[n] ELSE memoryState[n - Len(head)]
    BY <2>2, <1>3, ConcatProperties
  <2>4. \A n \in 1 .. Len(memoryState) + 1 : all[n] = IF n <= 1 THEN head[n] ELSE memoryState[n - 1]
    BY <1>1, <1>3, <2>1, <2>2, <2>3
  <2>5. Len(all) = Len(memoryState) + 1 /\ all \in Seq(ToastRecords)
    BY <1>1, <1>3, <2>1, <2>2, <2>3
  <2>6. ASSUME NEW n \in 1 .. Len(memoryState) + 1 PROVE all[n] = IF n = 1 THEN new ELSE memoryState[n - 1]
    <3>1. CASE n = 1
      <4>1. 1 \in 1 .. Len(memoryState) + 1 /\ 1 <= 1
        BY <1>3
      <4> QED BY <3>1, <4>1, <2>2, <2>4
    <3>2. CASE n # 1
      BY <3>2, <1>3, <2>4
    <3> QED BY <3>1, <3>2
  <2> QED BY <2>5, <2>6
<1>7. m \in Nat /\ m <= Len(memoryState) + 1
  BY <1>1, <1>3, <1>6, ToastQueueAssumption
<1>8. PICK list : list = SubSeq(all, 1, m)
  OBVIOUS
<1>9. /\ list \in Seq(ToastRecords) /\ Len(list) = m
      /\ \A n \in 1 .. m : list[n] = all[n]
  BY <1>3, <1>6, <1>7, <1>8
<1>10. memoryState' = list /\ AllShowIt'
  BY <1>2, <1>8, ToastsDispatched
<1>11. \A n \in 1 .. m : n \in 1 .. Len(memoryState) + 1 /\ (n # 1 => n - 1 \in 1 .. Len(memoryState))
  BY <1>3, <1>7
<1>12. /\ \A n \in 1 .. Len(memoryState) : memoryState[n].id \in 1 .. toastCount
       /\ \A n, j \in 1 .. Len(memoryState) : n < j => memoryState[n].id > memoryState[j].id
       /\ \A n \in 1 .. Len(memoryState) :
            /\ memoryState[n].open => memoryState[n].id \notin toastTimeouts
            /\ ~memoryState[n].open => memoryState[n].id \in toastTimeouts /\ memoryState[n].id \in dismissals
  BY DEF ToastInv, IdsCountDown, TimedIsClosed
<1>13. ASSUME NEW n \in 1 .. m PROVE list[n] = IF n = 1 THEN new ELSE memoryState[n - 1]
  BY <1>6, <1>9, <1>11
<1>14. ASSUME NEW n \in 1 .. m
       PROVE  /\ list[n].id \in 1 .. k
              /\ list[n].open => list[n].id \notin toastTimeouts
              /\ ~list[n].open => list[n].id \in toastTimeouts /\ list[n].id \in dismissals
  <2>1. CASE n = 1
    <3>1. list[n] = new
      BY <2>1, <1>13
    <3> QED BY <3>1, <1>3, <1>4, <1>5
  <2>2. CASE n # 1
    <3>1. list[n] = memoryState[n - 1] /\ n - 1 \in 1 .. Len(memoryState)
      BY <2>2, <1>11, <1>13
    <3> QED BY <3>1, <1>3, <1>4, <1>12
  <2> QED BY <2>1, <2>2
<1>15. ASSUME NEW n \in 1 .. m, NEW j \in 1 .. m, n < j PROVE list[n].id > list[j].id
  <2>1. j # 1 /\ list[j] = memoryState[j - 1] /\ j - 1 \in 1 .. Len(memoryState)
    BY <1>11, <1>13, <1>15, <1>7
  <2>2. CASE n = 1
    <3>1. list[n].id = k
      BY <2>2, <1>5, <1>13
    <3> QED BY <2>1, <3>1, <1>4, <1>3, <1>12
  <2>3. CASE n # 1
    <3>1. list[n] = memoryState[n - 1] /\ n - 1 \in 1 .. Len(memoryState) /\ n - 1 < j - 1
      BY <2>3, <1>11, <1>13, <1>15, <1>7
    <3> QED BY <2>1, <3>1, <1>12
  <2> QED BY <2>2, <2>3
<1>16. toastTimeouts \subseteq 1 .. k
  BY <1>3, <1>4
<1>17. IdsCountDown'
  BY <1>2, <1>4, <1>9, <1>10, <1>14, <1>15, <1>16 DEF IdsCountDown
<1>18. TimedIsClosed'
  BY <1>2, <1>9, <1>10, <1>14 DEF TimedIsClosed
<1> QED BY <1>10, <1>17, <1>18 DEF ToastInv

\* Toasts with some ids are closed: each has a timer from then on.
LEMMA ToastsClosed ==
    ASSUME ToastInv, NEW ids, ids \subseteq 1 .. toastCount, NEW list, dispatch(list),
           list = [n \in DOMAIN memoryState |->
                      IF memoryState[n].id \in ids THEN [memoryState[n] EXCEPT !.open = FALSE] ELSE memoryState[n]],
           toastTimeouts' = toastTimeouts \cup ids, dismissals \subseteq dismissals',
           \A n \in DOMAIN memoryState : memoryState[n].id \in ids => memoryState[n].id \in dismissals',
           UNCHANGED <<toastCount, toasters>>
    PROVE  ToastInv' /\ DOMAIN memoryState' = DOMAIN memoryState
           /\ \A n \in DOMAIN memoryState : memoryState'[n].id = memoryState[n].id
<1>1. /\ memoryState \in Seq(ToastRecords) /\ Len(memoryState) \in Nat
      /\ DOMAIN memoryState = 1 .. Len(memoryState)
  BY LenProperties DEF ToastInv, IdsCountDown
<1>2. ASSUME NEW n \in 1 .. Len(memoryState)
      PROVE  /\ list[n] \in ToastRecords /\ list[n].id = memoryState[n].id
             /\ list[n].open = IF memoryState[n].id \in ids THEN FALSE ELSE memoryState[n].open
  <2>1. PICK t : t = memoryState[n] /\ t \in ToastRecords
    BY <1>1, ElementOfSeq
  <2>2. PICK u : u = [t EXCEPT !.open = FALSE]
    OBVIOUS
  <2>3. u \in ToastRecords /\ u.id = t.id /\ u.open = FALSE
    BY <2>1, <2>2 DEF ToastRecords
  <2>4. list[n] = IF t.id \in ids THEN u ELSE t
    BY <1>1, <2>1, <2>2
  <2>5. CASE t.id \in ids
    <3>1. list[n] = u
      BY <2>4, <2>5
    <3> QED BY <3>1, <2>1, <2>3, <2>5
  <2>6. CASE t.id \notin ids
    <3>1. list[n] = t
      BY <2>4, <2>6
    <3> QED BY <3>1, <2>1, <2>6
  <2> QED BY <2>5, <2>6
<1>3. list \in Seq(ToastRecords) /\ Len(list) = Len(memoryState) /\ DOMAIN list = 1 .. Len(memoryState)
  <2>1. DOMAIN list = 1 .. Len(memoryState) /\ list = [n \in 1 .. Len(memoryState) |-> list[n]]
    BY <1>1
  <2>2. list \in [1 .. Len(memoryState) -> ToastRecords]
    BY ONLY <2>1, <1>2
  <2>3. list \in Seq(ToastRecords)
    BY <1>1, <2>2, SeqDef
  <2> QED BY <1>1, <2>1, <2>3, LenProperties
<1>4. memoryState' = list /\ AllShowIt'
  BY ToastsDispatched
<1>5. IdsCountDown'
  <2>1. memoryState' \in Seq(ToastRecords) /\ Len(memoryState') = Len(memoryState)
    BY <1>3, <1>4
  <2>2. \A n \in 1 .. Len(memoryState) : memoryState'[n].id = memoryState[n].id
    BY <1>2, <1>4
  <2>3. /\ toastCount' = toastCount /\ toastCount \in Nat
        /\ \A n \in 1 .. Len(memoryState) : memoryState[n].id \in 1 .. toastCount
        /\ \A n, k \in 1 .. Len(memoryState) : n < k => memoryState[n].id > memoryState[k].id
    BY DEF ToastInv, IdsCountDown
  <2>4. toastTimeouts' \subseteq 1 .. toastCount
    BY DEF ToastInv, IdsCountDown
  <2>5. \A n, k \in 1 .. Len(memoryState) : n < k => memoryState'[n].id > memoryState'[k].id
    BY <2>2, <2>3
  <2> QED BY <2>1, <2>2, <2>3, <2>4, <2>5 DEF IdsCountDown
<1>6. TimedIsClosed'
  <2>1. ASSUME NEW n \in 1 .. Len(memoryState)
        PROVE  /\ list[n].open => list[n].id \notin toastTimeouts'
               /\ ~list[n].open => list[n].id \in toastTimeouts' /\ list[n].id \in dismissals'
    <3>1. CASE memoryState[n].id \in ids
      <4>1. list[n].open = FALSE /\ list[n].id = memoryState[n].id
        BY <3>1, <1>2
      <4> QED BY <3>1, <4>1, <1>1
    <3>2. CASE memoryState[n].id \notin ids
      <4>1. list[n].open = memoryState[n].open /\ list[n].id = memoryState[n].id
        BY <3>2, <1>2
      <4> QED BY <3>2, <4>1 DEF ToastInv, TimedIsClosed
    <3> QED BY <3>1, <3>2
  <2> QED BY <2>1, <1>3, <1>4 DEF TimedIsClosed
<1> QED BY <1>1, <1>2, <1>3, <1>4, <1>5, <1>6 DEF ToastInv

\* Closing one toast, or all of them.
LEMMA DismissStep ==
    ASSUME ToastInv, (\E id \in 1 .. toastCount : DismissToast(id)) \/ DismissAll
    PROVE  ToastInv' /\ DOMAIN memoryState' = DOMAIN memoryState
           /\ \A n \in DOMAIN memoryState : memoryState'[n].id = memoryState[n].id
<1>1. ASSUME NEW id \in 1 .. toastCount, DismissToast(id)
      PROVE  ToastInv' /\ DOMAIN memoryState' = DOMAIN memoryState
             /\ \A n \in DOMAIN memoryState : memoryState'[n].id = memoryState[n].id
  <2>1. PICK list : list = [n \in DOMAIN memoryState |->
                      IF memoryState[n].id \in {id} THEN [memoryState[n] EXCEPT !.open = FALSE] ELSE memoryState[n]]
    OBVIOUS
  <2>2. list = [n \in DOMAIN memoryState |->
                      IF memoryState[n].id = id THEN [memoryState[n] EXCEPT !.open = FALSE] ELSE memoryState[n]]
    BY <2>1
  <2>3. dispatch(list)
    BY <1>1, <2>2 DEF DismissToast
  <2>4. \A n \in DOMAIN memoryState : memoryState[n].id \in {id} => memoryState[n].id \in dismissals'
    BY <1>1 DEF DismissToast, Listed
  <2>5. toastTimeouts' = toastTimeouts \cup {id} /\ dismissals \subseteq dismissals' /\ UNCHANGED <<toastCount, toasters>>
    BY <1>1 DEF DismissToast
  <2> QED BY <2>1, <2>3, <2>4, <2>5, ToastsClosed
<1>2. ASSUME DismissAll
      PROVE  ToastInv' /\ DOMAIN memoryState' = DOMAIN memoryState
             /\ \A n \in DOMAIN memoryState : memoryState'[n].id = memoryState[n].id
  <2>1. PICK ids : ids = {memoryState[n].id : n \in DOMAIN memoryState}
    OBVIOUS
  <2>2. PICK list : list = [n \in DOMAIN memoryState |->
                      IF memoryState[n].id \in ids THEN [memoryState[n] EXCEPT !.open = FALSE] ELSE memoryState[n]]
    OBVIOUS
  <2>3. list = [n \in DOMAIN memoryState |-> [memoryState[n] EXCEPT !.open = FALSE]]
    <3>1. \A n \in DOMAIN memoryState : memoryState[n].id \in ids
      BY <2>1
    <3> QED BY <2>2, <3>1
  <2>4. dispatch(list)
    BY <1>2, <2>3 DEF DismissAll
  <2>5. /\ toastTimeouts' = toastTimeouts \cup ids /\ dismissals' = dismissals \cup ids /\ UNCHANGED <<toastCount, toasters>>
    BY <1>2, <2>1 DEF DismissAll
  <2>6. ids \subseteq 1 .. toastCount
    <3>1. DOMAIN memoryState = 1 .. Len(memoryState)
      BY LenProperties DEF ToastInv, IdsCountDown
    <3> QED BY <2>1, <3>1 DEF ToastInv, IdsCountDown
  <2> QED BY <2>2, <2>4, <2>5, <2>6, ToastsClosed
<1> QED BY <1>1, <1>2

\* The one place of a listed toast.
LEMMA PlaceOfToast ==
    ASSUME ToastInv, NEW id, Listed(id)
    PROVE  /\ Place(id) \in 1 .. Len(memoryState) /\ memoryState[Place(id)].id = id
           /\ \A n \in 1 .. Len(memoryState) : n # Place(id) => memoryState[n].id # id
<1>1. DOMAIN memoryState = 1 .. Len(memoryState) /\ Len(memoryState) \in Nat
  BY LenProperties DEF ToastInv, IdsCountDown
<1>2. Place(id) \in 1 .. Len(memoryState) /\ memoryState[Place(id)].id = id
  BY <1>1 DEF Listed, Place
<1>3. PICK p : p = Place(id)
  OBVIOUS
<1>4. ASSUME NEW n \in 1 .. Len(memoryState), n # p PROVE memoryState[n].id # id
  <2>1. memoryState[p].id = id /\ p \in 1 .. Len(memoryState)
    BY <1>2, <1>3
  <2>2. memoryState[n].id \in Nat /\ memoryState[p].id \in Nat /\ n \in Nat /\ p \in Nat
    BY <1>1, <2>1 DEF ToastInv, IdsCountDown
  <2>3. n < p \/ p < n
    BY <1>4, <2>2
  <2>4. memoryState[n].id # memoryState[p].id
    BY <2>1, <2>2, <2>3 DEF ToastInv, IdsCountDown
  <2> QED BY <2>1, <2>4
<1> QED BY <1>2, <1>3, <1>4

\* The timer of a toast takes that toast away, and no other.
LEMMA RemoveToastStep ==
    ASSUME ToastInv, NEW id \in 1 .. toastCount, RemoveToast(id)
    PROVE  /\ ToastInv'
           /\ \A n \in DOMAIN memoryState :
                 memoryState[n].id # id => \E k \in DOMAIN memoryState' : memoryState'[k].id = memoryState[n].id
<1>1. /\ id \in toastTimeouts /\ toastTimeouts' = toastTimeouts \ {id} /\ UNCHANGED <<toastCount, toasters, dismissals>>
  BY DEF RemoveToast
<1>2. memoryState \in Seq(ToastRecords) /\ Len(memoryState) \in Nat /\ DOMAIN memoryState = 1 .. Len(memoryState)
  BY LenProperties DEF ToastInv, IdsCountDown
<1>3. CASE ~Listed(id)
  <2>1. dispatch(memoryState)
    BY <1>3 DEF RemoveToast
  <2>2. memoryState' = memoryState /\ AllShowIt'
    BY <1>1, <2>1, ToastsDispatched
  <2>3. \A n \in 1 .. Len(memoryState) : memoryState[n].id # id
    BY <1>2, <1>3 DEF Listed
  <2>4. IdsCountDown'
    BY <1>1, <2>2 DEF ToastInv, IdsCountDown
  <2>5. TimedIsClosed'
    BY <1>1, <2>2, <2>3 DEF ToastInv, TimedIsClosed
  <2> QED BY <2>2, <2>4, <2>5 DEF ToastInv
<1>4. CASE Listed(id)
  <2>1. PICK p, list : p = Place(id) /\ list = RemoveAt(memoryState, Place(id))
    OBVIOUS
  <2>2. dispatch(list)
    BY <1>4, <2>1 DEF RemoveToast
  <2>3. memoryState' = list /\ AllShowIt'
    BY <1>1, <2>2, ToastsDispatched
  <2>4. /\ p \in 1 .. Len(memoryState) /\ memoryState[p].id = id
        /\ \A n \in 1 .. Len(memoryState) : n # p => memoryState[n].id # id
    BY <1>4, <2>1, PlaceOfToast
  <2>5. /\ list \in Seq(ToastRecords) /\ Len(list) = Len(memoryState) - 1
        /\ \A k \in 1 .. Len(memoryState) - 1 : list[k] = IF k < p THEN memoryState[k] ELSE memoryState[k + 1]
    BY <1>2, <2>1, <2>4, RemovedAt
  <2>6. ASSUME NEW k \in 1 .. Len(memoryState) - 1
        PROVE  \E n \in 1 .. Len(memoryState) : n # p /\ list[k] = memoryState[n] /\ n = IF k < p THEN k ELSE k + 1
    BY <1>2, <2>4, <2>5
  <2>7. ASSUME NEW n \in 1 .. Len(memoryState), n # p
        PROVE  \E k \in 1 .. Len(memoryState) - 1 : list[k] = memoryState[n]
    <3>1. CASE n < p
      <4>1. n \in 1 .. Len(memoryState) - 1
        BY <3>1, <1>2, <2>4
      <4> QED BY <3>1, <4>1, <2>5
    <3>2. CASE ~(n < p)
      <4>1. n - 1 \in 1 .. Len(memoryState) - 1 /\ ~(n - 1 < p) /\ (n - 1) + 1 = n
        BY <3>2, <2>7, <1>2, <2>4
      <4> QED BY <4>1, <2>5
    <3> QED BY <3>1, <3>2
  <2>8. IdsCountDown'
    <3>1. ASSUME NEW j \in 1 .. Len(memoryState) - 1, NEW k \in 1 .. Len(memoryState) - 1, j < k
          PROVE  list[j].id > list[k].id
      <4>1. PICK a \in 1 .. Len(memoryState) : list[j] = memoryState[a] /\ a = IF j < p THEN j ELSE j + 1
        BY <2>6
      <4>2. PICK b \in 1 .. Len(memoryState) : list[k] = memoryState[b] /\ b = IF k < p THEN k ELSE k + 1
        BY <2>6
      <4>3. a < b
        BY <3>1, <4>1, <4>2, <1>2, <2>4
      <4> QED BY <4>1, <4>2, <4>3 DEF ToastInv, IdsCountDown
    <3>2. \A k \in 1 .. Len(memoryState) - 1 : list[k].id \in 1 .. toastCount
      BY <2>6 DEF ToastInv, IdsCountDown
    <3>3. toastTimeouts' \subseteq 1 .. toastCount /\ toastCount \in Nat
      BY <1>1 DEF ToastInv, IdsCountDown
    <3> QED BY <3>1, <3>2, <3>3, <1>1, <2>3, <2>5 DEF IdsCountDown
  <2>9. TimedIsClosed'
    <3>1. ASSUME NEW k \in 1 .. Len(memoryState) - 1
          PROVE  /\ list[k].open => list[k].id \notin toastTimeouts'
                 /\ ~list[k].open => list[k].id \in toastTimeouts' /\ list[k].id \in dismissals'
      <4>1. PICK n \in 1 .. Len(memoryState) : n # p /\ list[k] = memoryState[n]
        BY <2>6
      <4> QED BY <4>1, <1>1, <2>4 DEF ToastInv, TimedIsClosed
    <3> QED BY <3>1, <2>3, <2>5 DEF TimedIsClosed
  <2>10. DOMAIN list = 1 .. Len(memoryState) - 1
    BY <2>5, LenProperties
  <2> QED BY <1>2, <2>3, <2>4, <2>7, <2>8, <2>9, <2>10 DEF ToastInv
<1> QED BY <1>3, <1>4

\* A toaster renders, listens or is unmounted.
LEMMA ListenStep ==
    ASSUME ToastInv, \E l \in Listeners : MountToaster(l) \/ Listen(l) \/ UnmountToaster(l)
    PROVE  ToastInv' /\ memoryState' = memoryState
<1>1. UNCHANGED <<toastCount, memoryState, toastTimeouts, dismissals>>
  BY DEF MountToaster, Listen, UnmountToaster
<1>2. AllShowIt'
  BY <1>1 DEF MountToaster, Listen, UnmountToaster, ToastInv, AllShowIt
<1> QED BY <1>1, <1>2 DEF ToastInv, IdsCountDown, TimedIsClosed

\* Every step of the toasts keeps their invariant.
LEMMA ToastStep == ASSUME ToastInv, [ToastNext]_toastvars PROVE ToastInv'
<1>1. CASE UNCHANGED toastvars
  BY <1>1 DEF toastvars, toasters, ToastInv, IdsCountDown, TimedIsClosed, AllShowIt
<1> QED BY <1>1, ToastAdded, DismissStep, RemoveToastStep, ListenStep DEF ToastNext

\* Who goes was closed, or a newer one came.
LEMMA CauseStep ==
    ASSUME ToastInv, [ToastNext]_toastvars, NEW n \in DOMAIN memoryState,
           \A k \in DOMAIN memoryState' : memoryState'[k].id # memoryState[n].id
    PROVE  ~memoryState[n].open \/ toastCount' = toastCount + 1
<1>1. CASE toast
  BY <1>1 DEF toast
<1>2. CASE (\E id \in 1 .. toastCount : DismissToast(id)) \/ DismissAll
  BY <1>2, DismissStep
<1>3. ASSUME NEW id \in 1 .. toastCount, RemoveToast(id) PROVE ~memoryState[n].open
  <2>1. memoryState[n].id = id
    BY <1>3, RemoveToastStep
  <2>2. id \in toastTimeouts
    BY <1>3 DEF RemoveToast
  <2>3. DOMAIN memoryState = 1 .. Len(memoryState)
    BY LenProperties DEF ToastInv, IdsCountDown
  <2> QED BY <2>1, <2>2, <2>3 DEF ToastInv, TimedIsClosed
<1>4. CASE UNCHANGED memoryState
  BY <1>4
<1> QED BY <1>1, <1>2, <1>3, <1>4, ListenStep DEF ToastNext, toastvars

\* A closed toast has its timer.
LEMMA ToastFacts == ToastInv => ClosedWillGo
<1>1. ToastInv => DOMAIN memoryState = 1 .. Len(memoryState)
  BY LenProperties DEF ToastInv, IdsCountDown
<1> QED BY <1>1 DEF ToastInv, TimedIsClosed, AllShowIt, ClosedWillGo

\* A closed toast has its timer running, and every component shows the list there is
\* unless one passed it by as it mounted.
THEOREM ToastsGo == ToastSpec => []ClosedWillGo
<1> QED BY ToastInitial, ToastStep, ToastFacts, PTL DEF ToastSpec

\* No toast is taken away by the timer of another.
THEOREM ToastsGoForCause == ToastSpec => GoesForCause
<1> DEFINE Cause == \A n \in DOMAIN memoryState :
          (\A k \in DOMAIN memoryState' : memoryState'[k].id # memoryState[n].id) =>
              ~memoryState[n].open \/ toastCount' = toastCount + 1
<1>1. ToastInv /\ [ToastNext]_toastvars => [Cause]_toastvars
  BY CauseStep
<1> QED BY <1>1, ToastInitial, ToastStep, PTL DEF ToastSpec, GoesForCause

-----------------------------------------------------------------------------
(* The execution tree of a transaction.                                  *)

\* The last taken away.
LEMMA ListFront ==
    ASSUME NEW s, IsList(s), s # <<>>
    PROVE  /\ IsList(Front(s)) /\ Len(Front(s)) = Len(s) - 1 /\ Last(s) = s[Len(s)]
           /\ \A n \in 1 .. Len(s) - 1 : Front(s)[n] = s[n]
<1>1. PICK T : T = Range(s)
  OBVIOUS
<1>2. s \in Seq(T) /\ Len(s) \in Nat /\ Len(s) # 0
  BY <1>1, ListFacts DEF IsList
<1>3. PICK u : u = SubSeq(s, 1, Len(s) - 1)
  OBVIOUS
<1>4. u \in Seq(T) /\ Len(u) = Len(s) - 1 /\ \A n \in 1 .. Len(s) - 1 : u[n] = s[n]
  <2>1. Len(s) - 1 \in 1 - 1 .. Len(s) /\ 1 \in 1 .. Len(s) + 1 /\ Len(s) - 1 - 1 + 1 = Len(s) - 1
    BY <1>2
  <2>2. /\ u \in Seq(T) /\ Len(u) = Len(s) - 1 - 1 + 1
        /\ \A n \in 1 .. Len(s) - 1 - 1 + 1 : u[n] = s[1 + n - 1]
    BY ONLY <1>2, <1>3, <2>1, SubSeqProperties
  <2>3. \A n \in 1 .. Len(s) - 1 : 1 + n - 1 = n
    BY <1>2
  <2> QED BY <2>1, <2>2, <2>3
<1>5. u \in Seq(Range(u))
  BY <1>4, SeqOfRange
<1> QED BY <1>3, <1>4, <1>5 DEF IsList, Front, Last

\* A list written place by place.
LEMMA ListOfPlaces ==
    ASSUME NEW n \in Nat, NEW u, DOMAIN u = 1 .. n, u = [i \in 1 .. n |-> u[i]]
    PROVE  IsList(u) /\ Len(u) = n
<1>1. PICK T : T = Range(u)
  OBVIOUS
<1>2. \A i \in 1 .. n : u[i] \in T
  BY <1>1 DEF Range
<1>3. u \in Seq(T) /\ Len(u) = n
  <2>1. u \in [1 .. n -> T]
    BY <1>2
  <2> QED BY <2>1
<1> QED BY <1>1, <1>3 DEF IsList

\* The records of the builder and of the host.
IsNode(x) ==
    x = [status |-> x.status, selfCpuInsns |-> x.selfCpuInsns, totalCpuInsns |-> x.totalCpuInsns,
         parentId |-> x.parentId, childIds |-> x.childIds, depth |-> x.depth, logs |-> x.logs]
IsCall(x) == x = [node |-> x.node, own |-> x.own, sub |-> x.sub, lost |-> x.lost]

\* Two nodes at one place of the tree.
SamePlace(x, y) == x.parentId = y.parentId /\ x.childIds = y.childIds /\ x.depth = y.depth

\* The nodes and their parents, which are older.
Forest ==
    /\ IsList(dagNodes)
    /\ \A i \in 1 .. Len(dagNodes) :
         /\ IsNode(dagNodes[i])
         /\ dagNodes[i].parentId \in 0 .. i - 1 /\ dagNodes[i].childIds \subseteq 1 .. Len(dagNodes)
    /\ \A i, k \in 1 .. Len(dagNodes) : k \in dagNodes[i].childIds <=> dagNodes[k].parentId = i
    /\ \A i \in 1 .. Len(dagNodes) :
         dagNodes[i].parentId # 0 => dagNodes[i].depth = dagNodes[dagNodes[i].parentId].depth + 1

\* The open nodes, from a root down.
OpenPath ==
    /\ IsList(dagStack) /\ Len(dagStack) <= MAX_DEPTH
    /\ \A n \in 1 .. Len(dagStack) :
         /\ dagStack[n] \in 1 .. Len(dagNodes)
         /\ dagNodes[dagStack[n]].parentId = (IF n = 1 THEN 0 ELSE dagStack[n - 1])
         /\ dagNodes[dagStack[n]].depth = n - 1

\* The host's open calls, and how many have ended.
HostCallsOpen ==
    /\ IsList(host) /\ IsList(ended) /\ tooDeep \in BOOLEAN
    /\ \A n \in 1 .. Len(host) : IsCall(host[n])

\* Unless a call was ignored, the open nodes are the open calls, and only the first node is a root.
Followed ==
    ~tooDeep =>
        /\ Len(dagStack) = Len(host) /\ \A n \in 1 .. Len(host) : dagStack[n] = host[n].node
        /\ \A i \in 1 .. Len(dagNodes) : dagNodes[i].parentId = 0 => i = 1
        /\ Len(dagNodes) <= Len(ended) + Len(host)

DagInv == Forest /\ OpenPath /\ HostCallsOpen /\ Followed

\* Before the first event there is nothing.
LEMMA DagInitial == DagInit => DagInv
<1> SUFFICES ASSUME DagInit PROVE DagInv
  OBVIOUS
<1>1. /\ dagNodes = <<>> /\ dagStack = <<>> /\ host = <<>> /\ ended = <<>> /\ tooDeep = FALSE
  BY DEF DagInit
<1>2. IsList(<<>>) /\ Len(<<>>) = 0 /\ 1 .. 0 = {}
  BY EmptySeq DEF IsList
<1>3. MAX_DEPTH \in Nat
  BY DagAssumption
<1>4. Forest
  BY <1>1, <1>2 DEF Forest
<1>5. OpenPath
  BY <1>1, <1>2, <1>3 DEF OpenPath
<1>6. HostCallsOpen
  BY <1>1, <1>2 DEF HostCallsOpen
<1>7. Followed
  <2>1. Len(dagNodes) = 0 /\ Len(dagStack) = 0 /\ Len(host) = 0 /\ Len(ended) = 0
    BY <1>1, <1>2
  <2> QED BY <1>2, <2>1 DEF Followed
<1> QED BY <1>4, <1>5, <1>6, <1>7 DEF DagInv

\* What only writes status, costs and logs leaves the tree as it is.
SameTree ==
    /\ IsList(dagNodes') /\ Len(dagNodes') = Len(dagNodes)
    /\ \A i \in 1 .. Len(dagNodes) : IsNode(dagNodes'[i]) /\ SamePlace(dagNodes'[i], dagNodes[i])

\* The open path becomes shorter or stays.
PathCut ==
    /\ IsList(dagStack') /\ Len(dagStack') <= Len(dagStack)
    /\ \A n \in 1 .. Len(dagStack') : dagStack'[n] = dagStack[n]

\* Then it is still a forest, and the open nodes a path of it.
LEMMA TreeKept ==
    ASSUME DagInv, SameTree, PathCut
    PROVE  Forest' /\ OpenPath'
<1>1. Len(dagNodes) \in Nat /\ Len(dagStack) \in Nat /\ Len(dagStack') \in Nat /\ MAX_DEPTH \in Nat
  BY ListFacts, DagAssumption DEF DagInv, Forest, OpenPath, PathCut
<1>2. \A i \in 1 .. Len(dagNodes) :
        /\ dagNodes'[i].parentId = dagNodes[i].parentId /\ dagNodes'[i].childIds = dagNodes[i].childIds
        /\ dagNodes'[i].depth = dagNodes[i].depth
  BY DEF SameTree, SamePlace
<1>3. \A i \in 1 .. Len(dagNodes) : dagNodes[i].parentId # 0 => dagNodes[i].parentId \in 1 .. Len(dagNodes)
  BY <1>1 DEF DagInv, Forest
<1>4. PICK count : count = Len(dagNodes)
  OBVIOUS
<1>5. count \in Nat /\ Len(dagNodes') = count
  BY <1>1, <1>4 DEF SameTree
<1>6. \A i \in 1 .. count :
        /\ IsNode(dagNodes'[i])
        /\ dagNodes'[i].parentId \in 0 .. i - 1 /\ dagNodes'[i].childIds \subseteq 1 .. count
  BY <1>2, <1>4 DEF DagInv, Forest, SameTree
<1>7. \A i, k \in 1 .. count : k \in dagNodes'[i].childIds <=> dagNodes'[k].parentId = i
  BY <1>2, <1>4 DEF DagInv, Forest
<1>8. ASSUME NEW i \in 1 .. count, dagNodes'[i].parentId # 0
      PROVE  dagNodes'[i].depth = dagNodes'[dagNodes'[i].parentId].depth + 1
  <2>1. dagNodes'[i].parentId = dagNodes[i].parentId /\ dagNodes'[i].depth = dagNodes[i].depth
    BY <1>2, <1>4
  <2>2. PICK p \in 1 .. count : p = dagNodes[i].parentId
    BY <1>3, <1>4, <1>8, <2>1
  <2>3. dagNodes[i].depth = dagNodes[p].depth + 1
    BY <1>4, <1>8, <2>1, <2>2 DEF DagInv, Forest
  <2>4. dagNodes'[p].depth = dagNodes[p].depth
    BY <1>2, <1>4
  <2> QED BY <2>1, <2>2, <2>3, <2>4
<1>9. Forest'
  BY <1>5, <1>6, <1>7, <1>8 DEF Forest, SameTree
<1>10. ASSUME NEW n \in 1 .. Len(dagStack')
       PROVE  /\ dagStack'[n] \in 1 .. count
              /\ dagNodes'[dagStack'[n]].parentId = (IF n = 1 THEN 0 ELSE dagStack'[n - 1])
              /\ dagNodes'[dagStack'[n]].depth = n - 1
  <2>1. n \in 1 .. Len(dagStack) /\ dagStack'[n] = dagStack[n]
    BY <1>1 DEF PathCut
  <2>2. n # 1 => dagStack'[n - 1] = dagStack[n - 1]
    BY <1>1 DEF PathCut
  <2>3. PICK k : k = dagStack[n]
    OBVIOUS
  <2>4. /\ k \in 1 .. count /\ dagNodes[k].parentId = (IF n = 1 THEN 0 ELSE dagStack[n - 1])
        /\ dagNodes[k].depth = n - 1
    BY <1>4, <2>1, <2>3 DEF DagInv, OpenPath
  <2>5. dagNodes'[k].parentId = dagNodes[k].parentId /\ dagNodes'[k].depth = dagNodes[k].depth
    BY <1>2, <1>4, <2>4
  <2> QED BY <2>1, <2>2, <2>3, <2>4, <2>5
<1>11. OpenPath'
  <2>1. Len(dagStack') <= MAX_DEPTH
    BY <1>1 DEF DagInv, OpenPath, PathCut
  <2> QED BY <1>5, <1>10, <2>1 DEF OpenPath, PathCut
<1> QED BY <1>9, <1>11

\* A call of the host below the limit is a node under the one on top.
LEMMA CallStep ==
    ASSUME DagInv, handleFnCall, Len(dagStack) < MAX_DEPTH
    PROVE  /\ Forest' /\ OpenPath'
           /\ Len(dagNodes') = Len(dagNodes) + 1 /\ Len(dagStack') = Len(dagStack) + 1
           /\ \A n \in 1 .. Len(dagStack) : dagStack'[n] = dagStack[n]
           /\ dagStack'[Len(dagStack) + 1] = Len(dagNodes')
           /\ \A i \in 1 .. Len(dagNodes) : dagNodes'[i].parentId = dagNodes[i].parentId
           /\ dagNodes'[Len(dagNodes')].parentId = 0 => dagStack = <<>>
<1> DEFINE parentId == IF dagStack = <<>> THEN 0 ELSE Top
           id == Len(dagNodes) + 1
           node == [status |-> "pending", selfCpuInsns |-> 0, totalCpuInsns |-> 0, parentId |-> parentId,
                    childIds |-> {}, depth |-> Len(dagStack), logs |-> 0]
           older == [i \in DOMAIN dagNodes |-> IF i = parentId
                       THEN [dagNodes[i] EXCEPT !.childIds = @ \cup {id}] ELSE dagNodes[i]]
<1>0. PICK count, open : count = Len(dagNodes) /\ open = Len(dagStack)
  OBVIOUS
<1>1. count \in Nat /\ open \in Nat /\ MAX_DEPTH \in Nat /\ DOMAIN dagNodes = 1 .. count
      /\ (dagStack # <<>> => open # 0)
  BY <1>0, ListFacts, DagAssumption DEF DagInv, Forest, OpenPath
<1>2. IsList(dagNodes) /\ IsList(dagStack)
  BY DEF DagInv, Forest, OpenPath
<1>3. ~(Len(dagStack) >= MAX_DEPTH)
  BY <1>0, <1>1
<1>4. dagNodes' = Append(older, node) /\ dagStack' = Append(dagStack, id)
  BY <1>3 DEF handleFnCall
<1>5. PICK p : p = parentId
  OBVIOUS
<1>6. p = (IF dagStack = <<>> THEN 0 ELSE dagStack[open])
  BY <1>0, <1>2, <1>5, ListFront DEF Top
<1>7. (dagStack = <<>> => p = 0) /\ (dagStack # <<>> => p \in 1 .. count /\ open \in 1 .. open)
  BY <1>0, <1>1, <1>6 DEF DagInv, OpenPath
<1>8. PICK new : new = node
  OBVIOUS
<1>9. /\ IsNode(new) /\ new.parentId = p /\ new.childIds = {} /\ new.depth = open
  BY <1>0, <1>5, <1>8 DEF IsNode
<1>10. PICK old : old = older
  OBVIOUS
<1>11. IsList(old) /\ Len(old) = count
  <2>1. DOMAIN old = 1 .. count /\ old = [i \in 1 .. count |-> old[i]]
    BY <1>1, <1>10
  <2> HIDE DEF older
  <2> QED BY ONLY <1>1, <2>1, ListOfPlaces
<1>12. ASSUME NEW i \in 1 .. count
       PROVE  /\ IsNode(old[i]) /\ old[i].parentId = dagNodes[i].parentId /\ old[i].depth = dagNodes[i].depth
              /\ old[i].childIds = IF i = p THEN dagNodes[i].childIds \cup {count + 1} ELSE dagNodes[i].childIds
  <2>1. PICK x : x = dagNodes[i]
    OBVIOUS
  <2>2. IsNode(x)
    BY <1>0, <2>1 DEF DagInv, Forest
  <2>3. CASE i = p
    <3>1. old[i] = [x EXCEPT !.childIds = @ \cup {count + 1}]
      BY <1>0, <1>1, <1>5, <1>10, <2>1, <2>3
    <3>2. PICK y : y = [x EXCEPT !.childIds = @ \cup {count + 1}]
      OBVIOUS
    <3>3. IsNode(y) /\ y.parentId = x.parentId /\ y.depth = x.depth /\ y.childIds = x.childIds \cup {count + 1}
      BY <2>2, <3>2 DEF IsNode
    <3> QED BY <2>1, <2>3, <3>1, <3>2, <3>3
  <2>4. CASE i # p
    <3>1. old[i] = x
      BY <1>1, <1>5, <1>10, <2>1, <2>4
    <3> QED BY <2>1, <2>2, <2>4, <3>1
  <2> QED BY <2>3, <2>4
<1>13. /\ IsList(dagNodes') /\ Len(dagNodes') = count + 1 /\ dagNodes'[count + 1] = new
       /\ \A i \in 1 .. count : dagNodes'[i] = old[i]
  <2>1. dagNodes' = Append(old, new)
    BY <1>4, <1>8, <1>10
  <2> QED BY ONLY <2>1, <1>11, ListAppended
<1>14. /\ IsList(dagStack') /\ Len(dagStack') = open + 1 /\ dagStack'[open + 1] = count + 1
       /\ \A n \in 1 .. open : dagStack'[n] = dagStack[n]
  <2>1. dagStack' = Append(dagStack, count + 1)
    BY <1>0, <1>4
  <2> QED BY ONLY <1>0, <1>2, <2>1, ListAppended
<1> HIDE DEF older, node, parentId, id
<1>15. ASSUME NEW i \in 1 .. count + 1
       PROVE  /\ IsNode(dagNodes'[i]) /\ dagNodes'[i].parentId \in 0 .. i - 1
              /\ dagNodes'[i].childIds \subseteq 1 .. count + 1
  <2>1. CASE i \in 1 .. count
    <3>1. dagNodes[i].parentId \in 0 .. i - 1 /\ dagNodes[i].childIds \subseteq 1 .. count
      BY <1>0, <2>1 DEF DagInv, Forest
    <3>2. 1 .. count \subseteq 1 .. count + 1 /\ count + 1 \in 1 .. count + 1
      BY <1>1
    <3>3. dagNodes'[i].childIds \subseteq 1 .. count + 1
      BY <1>12, <1>13, <2>1, <3>1, <3>2
    <3> QED BY <1>12, <1>13, <2>1, <3>1, <3>3
  <2>2. CASE i = count + 1
    <3>1. p \in 0 .. count
      BY <1>1, <1>7
    <3> QED BY <1>1, <1>9, <1>13, <2>2, <3>1
  <2> QED BY <1>1, <2>1, <2>2
<1>16. ASSUME NEW i \in 1 .. count + 1, NEW k \in 1 .. count + 1
       PROVE  k \in dagNodes'[i].childIds <=> dagNodes'[k].parentId = i
  <2>1. CASE i \in 1 .. count /\ k \in 1 .. count
    <3>1. k \in dagNodes[i].childIds <=> dagNodes[k].parentId = i
      BY <1>0, <2>1 DEF DagInv, Forest
    <3>2. k # count + 1
      BY <1>1, <2>1
    <3>3. dagNodes'[k].parentId = dagNodes[k].parentId
      BY <1>12, <1>13, <2>1
    <3>4. dagNodes'[i].childIds = (IF i = p THEN dagNodes[i].childIds \cup {count + 1} ELSE dagNodes[i].childIds)
      BY <1>12, <1>13, <2>1
    <3>5. k \in dagNodes'[i].childIds <=> k \in dagNodes[i].childIds
      BY <3>2, <3>4
    <3> QED BY <3>1, <3>3, <3>5
  <2>2. CASE i \in 1 .. count /\ k = count + 1
    <3>1. dagNodes[i].childIds \subseteq 1 .. count /\ count + 1 \notin 1 .. count
      BY <1>0, <1>1, <2>2 DEF DagInv, Forest
    <3>2. k \in dagNodes'[i].childIds <=> i = p
      BY <1>12, <1>13, <2>2, <3>1
    <3> QED BY <1>9, <1>13, <2>2, <3>2
  <2>3. CASE i = count + 1
    <3>1. dagNodes'[i].childIds = {}
      BY <1>9, <1>13, <2>3
    <3>2. dagNodes'[k].parentId \in 0 .. k - 1
      BY <1>15
    <3>3. dagNodes'[k].parentId # i
      BY <1>1, <2>3, <3>2
    <3> QED BY <3>1, <3>3
  <2> QED BY <1>1, <2>1, <2>2, <2>3
<1>17. ASSUME NEW i \in 1 .. count + 1, dagNodes'[i].parentId # 0
       PROVE  dagNodes'[i].depth = dagNodes'[dagNodes'[i].parentId].depth + 1
  <2>1. CASE i \in 1 .. count
    <3>1. dagNodes'[i].parentId = dagNodes[i].parentId /\ dagNodes'[i].depth = dagNodes[i].depth
      BY <1>12, <1>13, <2>1
    <3>2. PICK k : k = dagNodes[i].parentId
      OBVIOUS
    <3>3. k \in 0 .. i - 1 /\ k # 0
      BY <1>0, <1>17, <2>1, <3>1, <3>2 DEF DagInv, Forest
    <3>4. k \in 1 .. count
      BY <1>1, <2>1, <3>3
    <3>5. dagNodes[i].depth = dagNodes[k].depth + 1
      BY <1>0, <1>17, <2>1, <3>1, <3>2 DEF DagInv, Forest
    <3>6. dagNodes'[k].depth = dagNodes[k].depth
      BY <1>12, <1>13, <3>4
    <3> QED BY <3>1, <3>2, <3>5, <3>6
  <2>2. CASE i = count + 1
    <3>1. dagStack # <<>> /\ p = dagStack[open] /\ p \in 1 .. count /\ open \in 1 .. open
      BY <1>6, <1>7, <1>9, <1>13, <1>17, <2>2
    <3>2. dagNodes[p].depth = open - 1
      BY <1>0, <3>1 DEF DagInv, OpenPath
    <3>3. dagNodes'[p].depth = open - 1
      BY <1>12, <1>13, <3>1, <3>2
    <3> QED BY <1>1, <1>9, <1>13, <2>2, <3>3
  <2> QED BY <1>1, <2>1, <2>2
<1>18. Forest'
  BY <1>13, <1>15, <1>16, <1>17 DEF Forest
<1>19. ASSUME NEW n \in 1 .. open + 1
       PROVE  /\ dagStack'[n] \in 1 .. count + 1
              /\ dagNodes'[dagStack'[n]].parentId = (IF n = 1 THEN 0 ELSE dagStack'[n - 1])
              /\ dagNodes'[dagStack'[n]].depth = n - 1
  <2>1. CASE n \in 1 .. open
    <3>1. /\ dagStack[n] \in 1 .. count /\ dagNodes[dagStack[n]].depth = n - 1
          /\ dagNodes[dagStack[n]].parentId = (IF n = 1 THEN 0 ELSE dagStack[n - 1])
      BY <1>0, <2>1 DEF DagInv, OpenPath
    <3>2. n # 1 => n - 1 \in 1 .. open
      BY <1>1, <2>1
    <3>3. (n = 1 => dagNodes[dagStack[n]].parentId = 0)
          /\ (n # 1 => dagNodes[dagStack[n]].parentId = dagStack'[n - 1])
      BY <1>14, <3>1, <3>2
    <3>4. dagStack'[n] = dagStack[n]
      BY <1>14, <2>1
    <3>5. dagStack[n] \in 1 .. count + 1
      BY <1>1, <3>1
    <3> QED BY <1>12, <1>13, <3>1, <3>3, <3>4, <3>5
  <2>2. CASE n = open + 1
    <3>1. dagStack'[n] = count + 1 /\ dagNodes'[count + 1] = new
      BY <1>13, <1>14, <2>2
    <3>2. n = 1 => p = 0
      <4>1. n = 1 => dagStack = <<>>
        BY <1>1, <2>2
      <4> QED BY <1>7, <4>1
    <3>3. n # 1 => p = dagStack'[n - 1]
      <4>1. n # 1 => dagStack # <<>> /\ n - 1 = open /\ open \in 1 .. open
        <5>1. dagStack = <<>> => open = 0
          BY <1>0, EmptySeq
        <5> QED BY <1>1, <2>2, <5>1
      <4> QED BY <1>6, <1>14, <4>1
    <3>4. count + 1 \in 1 .. count + 1 /\ n - 1 = open
      BY <1>1, <2>2
    <3> QED BY <1>9, <3>1, <3>2, <3>3, <3>4
  <2> QED BY <1>1, <2>1, <2>2
<1>20. OpenPath'
  <2>1. open + 1 <= MAX_DEPTH
    BY <1>0, <1>1
  <2> QED BY <1>13, <1>14, <1>19, <2>1 DEF OpenPath
<1>21. new.parentId = 0 => dagStack = <<>>
  BY <1>1, <1>7, <1>9
<1>22. \A i \in 1 .. count : dagNodes'[i].parentId = dagNodes[i].parentId
  BY <1>12, <1>13
<1> QED BY <1>0, <1>13, <1>14, <1>18, <1>20, <1>21, <1>22

\* A call past the limit is ignored.
LEMMA CallIgnored ==
    ASSUME handleFnCall, Len(dagStack) >= MAX_DEPTH
    PROVE  UNCHANGED <<dagNodes, dagStack>>
BY DEF handleFnCall

\* The host calls.
LEMMA HostCallStep == ASSUME DagInv, HostCall PROVE DagInv'
<1>1. /\ IsList(host) /\ IsList(ended) /\ tooDeep \in BOOLEAN /\ IsList(dagStack) /\ IsList(dagNodes)
  BY DEF DagInv, HostCallsOpen, Forest, OpenPath
<1>2. /\ Len(host) \in Nat /\ Len(ended) \in Nat /\ Len(dagStack) \in Nat /\ Len(dagNodes) \in Nat
      /\ MAX_DEPTH \in Nat
  BY <1>1, ListFacts, DagAssumption
<1>3. PICK id : id = (IF dagNodes' = dagNodes THEN 0 ELSE Len(dagNodes'))
  OBVIOUS
<1>4. PICK c : c = [node |-> id, own |-> 0, sub |-> 0, lost |-> 0]
  OBVIOUS
<1>5. IsCall(c) /\ c.node = id
  BY <1>4 DEF IsCall
<1>6. host' = Append(host, c) /\ ended' = ended /\ handleFnCall
  BY <1>3, <1>4 DEF HostCall
<1>7. /\ IsList(host') /\ Len(host') = Len(host) + 1 /\ host'[Len(host) + 1] = c
      /\ \A n \in 1 .. Len(host) : host'[n] = host[n]
  BY ONLY <1>1, <1>6, ListAppended
<1>8. tooDeep' = (tooDeep \/ Len(host) >= MAX_DEPTH)
  BY DEF HostCall
<1>9. HostCallsOpen'
  <2>1. tooDeep' \in BOOLEAN
    BY <1>8
  <2>2. ASSUME NEW n \in 1 .. Len(host') PROVE IsCall(host'[n])
    <3>1. CASE n \in 1 .. Len(host)
      BY <1>7, <3>1 DEF DagInv, HostCallsOpen
    <3>2. CASE n = Len(host) + 1
      BY <1>5, <1>7, <3>2
    <3> QED BY <1>2, <1>7, <3>1, <3>2
  <2> QED BY <1>1, <1>6, <1>7, <2>1, <2>2 DEF HostCallsOpen
<1>10. CASE Len(dagStack) >= MAX_DEPTH
  <2>1. dagNodes' = dagNodes /\ dagStack' = dagStack
    BY <1>6, <1>10, CallIgnored
  <2>2. tooDeep' = TRUE
    <3>1. CASE tooDeep
      BY <1>8, <3>1
    <3>2. CASE ~tooDeep
      <4>1. Len(host) >= MAX_DEPTH
        BY <1>10, <3>2 DEF DagInv, Followed
      <4> QED BY <1>8, <4>1
    <3> QED BY <3>1, <3>2
  <2>3. Followed'
    BY <2>2 DEF Followed
  <2>4. Forest' /\ OpenPath'
    BY <2>1 DEF DagInv, Forest, OpenPath
  <2> QED BY <1>9, <2>3, <2>4 DEF DagInv
<1>11. CASE Len(dagStack) < MAX_DEPTH
  <2>1. /\ Forest' /\ OpenPath'
        /\ Len(dagNodes') = Len(dagNodes) + 1 /\ Len(dagStack') = Len(dagStack) + 1
        /\ \A n \in 1 .. Len(dagStack) : dagStack'[n] = dagStack[n]
        /\ dagStack'[Len(dagStack) + 1] = Len(dagNodes')
        /\ \A i \in 1 .. Len(dagNodes) : dagNodes'[i].parentId = dagNodes[i].parentId
        /\ dagNodes'[Len(dagNodes')].parentId = 0 => dagStack = <<>>
    BY <1>6, <1>11, CallStep
  <2>2. id = Len(dagNodes) + 1
    <3>1. dagNodes' # dagNodes
      BY <1>2, <2>1
    <3> QED BY <1>3, <2>1, <3>1
  <2>3. ASSUME ~tooDeep'
        PROVE  /\ Len(dagStack') = Len(host') /\ \A n \in 1 .. Len(host') : dagStack'[n] = host'[n].node
               /\ \A i \in 1 .. Len(dagNodes') : dagNodes'[i].parentId = 0 => i = 1
               /\ Len(dagNodes') <= Len(ended') + Len(host')
    <3>1. ~tooDeep
      BY <1>8, <2>3
    <3>2. /\ Len(dagStack) = Len(host) /\ Len(dagNodes) <= Len(ended) + Len(host)
          /\ \A n \in 1 .. Len(host) : dagStack[n] = host[n].node
          /\ \A i \in 1 .. Len(dagNodes) : dagNodes[i].parentId = 0 => i = 1
      BY <3>1 DEF DagInv, Followed
    <3>3. Len(dagStack') = Len(host') /\ Len(dagNodes') <= Len(ended') + Len(host')
      BY <1>2, <1>6, <1>7, <2>1, <3>2
    <3>4. ASSUME NEW n \in 1 .. Len(host') PROVE dagStack'[n] = host'[n].node
      <4>1. CASE n \in 1 .. Len(host)
        BY <1>7, <2>1, <3>2, <4>1
      <4>2. CASE n = Len(host) + 1
        BY <1>5, <1>7, <2>1, <2>2, <3>2, <4>2
      <4> QED BY <1>2, <1>7, <4>1, <4>2
    <3>5. ASSUME NEW i \in 1 .. Len(dagNodes'), dagNodes'[i].parentId = 0 PROVE i = 1
      <4>1. CASE i \in 1 .. Len(dagNodes)
        BY <2>1, <3>2, <3>5, <4>1
      <4>2. CASE i = Len(dagNodes) + 1
        <5>1. Len(dagStack) = 0
          <6>1. dagStack = <<>>
            BY <2>1, <3>5, <4>2
          <6> QED BY <6>1, EmptySeq
        <5>2. Len(host) = 0 /\ host = <<>>
          BY <1>1, <3>2, <5>1, ListFacts
        <5>3. ~(Len(ended) + Len(host) > 0)
          BY <5>2 DEF HostCall, HostCalls
        <5>4. Len(dagNodes) = 0
          BY <1>2, <3>2, <5>3
        <5> QED BY <4>2, <5>4
      <4> QED BY <1>2, <2>1, <4>1, <4>2
    <3> QED BY <3>3, <3>4, <3>5
  <2>4. Followed'
    BY <2>3 DEF Followed
  <2> QED BY <1>9, <2>1, <2>4 DEF DagInv
<1> QED BY <1>2, <1>10, <1>11

\* A call ends: the host drops it and tells its caller what it spent.
LEMMA HostEndsStep ==
    ASSUME DagInv, host # <<>>, NEW counted \in BOOLEAN, HostEnds(counted), tooDeep' = tooDeep
    PROVE  /\ HostCallsOpen'
           /\ Len(host') = Len(host) - 1 /\ Len(ended') = Len(ended) + 1
           /\ \A n \in 1 .. Len(host) - 1 : host'[n].node = host[n].node
<1>1. IsList(host) /\ IsList(ended) /\ tooDeep \in BOOLEAN /\ \A n \in 1 .. Len(host) : IsCall(host[n])
  BY DEF DagInv, HostCallsOpen
<1>2. PICK rest : rest = Front(host)
  OBVIOUS
<1>3. IsList(rest) /\ Len(rest) = Len(host) - 1 /\ \A n \in 1 .. Len(host) - 1 : rest[n] = host[n]
  BY ONLY <1>1, <1>2, host # <<>>, ListFront
<1>4. Len(host) \in Nat /\ Len(ended) \in Nat /\ Len(rest) \in Nat /\ DOMAIN rest = 1 .. Len(rest)
      /\ (rest # <<>> => Len(rest) # 0)
  BY <1>1, <1>3, ListFacts
<1>5. PICK total, gone, e :
        /\ total = Under.own + Under.sub /\ gone = (IF counted THEN 0 ELSE total)
        /\ e = [node |-> Under.node, own |-> Under.own + Under.lost, total |-> total]
  OBVIOUS
<1>6. ended' = Append(ended, e)
      /\ host' = IF rest = <<>> THEN rest
                 ELSE [rest EXCEPT ![Len(rest)].sub = @ + total, ![Len(rest)].lost = @ + gone]
  BY <1>2, <1>5 DEF HostEnds
<1>7. IsList(ended') /\ Len(ended') = Len(ended) + 1
  BY ONLY <1>1, <1>6, ListAppended
<1>8. /\ IsList(host') /\ Len(host') = Len(rest)
      /\ \A n \in 1 .. Len(rest) : IsCall(host'[n]) /\ host'[n].node = rest[n].node
  <2>1. CASE rest = <<>>
    <3>1. host' = rest /\ Len(rest) = 0 /\ 1 .. Len(rest) = {}
      <4>1. Len(rest) = 0
        BY <2>1, EmptySeq
      <4>2. 1 .. Len(rest) = {}
        BY <4>1
      <4> QED BY <1>6, <2>1, <4>1, <4>2
    <3> QED BY <1>3, <3>1
  <2>2. CASE rest # <<>>
    <3>1. PICK k : k = Len(rest)
      OBVIOUS
    <3>2. k \in 1 .. k
      BY <1>4, <2>2, <3>1
    <3>3. PICK x, y : x = rest[k] /\ y = [x EXCEPT !.sub = @ + total, !.lost = @ + gone]
      OBVIOUS
    <3>4. IsCall(x)
      BY <1>1, <1>3, <1>4, <3>1, <3>2, <3>3
    <3>5. IsCall(y) /\ y.node = x.node
      BY <3>3, <3>4 DEF IsCall
    <3>6. host' = [rest EXCEPT ![k] = y]
      <4>1. host' = [rest EXCEPT ![k].sub = @ + total, ![k].lost = @ + gone]
        BY <1>6, <2>2, <3>1
      <4> QED BY <1>4, <3>1, <3>2, <3>3, <4>1
    <3>7. DOMAIN host' = 1 .. k /\ host' = [i \in 1 .. k |-> host'[i]]
      BY <1>4, <3>1, <3>6
    <3>8. IsList(host') /\ Len(host') = k
      BY ONLY <1>4, <3>1, <3>7, ListOfPlaces
    <3>9. ASSUME NEW n \in 1 .. k PROVE IsCall(host'[n]) /\ host'[n].node = rest[n].node
      <4>1. CASE n = k
        BY <1>4, <3>1, <3>2, <3>3, <3>5, <3>6, <4>1
      <4>2. CASE n # k
        <5>1. host'[n] = rest[n]
          BY <1>4, <3>1, <3>6, <4>2
        <5> QED BY <1>1, <1>3, <1>4, <3>1, <5>1
      <4> QED BY <4>1, <4>2
    <3> QED BY <3>1, <3>8, <3>9
  <2> QED BY <2>1, <2>2
<1>9. \A n \in 1 .. Len(host) - 1 : host'[n].node = host[n].node
  BY <1>3, <1>8
<1>10. HostCallsOpen'
  BY <1>1, <1>7, <1>8 DEF HostCallsOpen
<1> QED BY <1>3, <1>7, <1>8, <1>9, <1>10

\* The node on top ends with its call.
NodeEnds ==
    /\ SameTree /\ PathCut
    /\ dagStack # <<>> => Len(dagStack') = Len(dagStack) - 1

\* The call on top ends on both sides.
LEMMA CallEndStep ==
    ASSUME DagInv, host # <<>>, NEW counted \in BOOLEAN, HostEnds(counted), tooDeep' = tooDeep, NodeEnds
    PROVE  DagInv'
<1>1. Forest' /\ OpenPath'
  BY TreeKept DEF NodeEnds
<1>2. /\ HostCallsOpen'
      /\ Len(host') = Len(host) - 1 /\ Len(ended') = Len(ended) + 1
      /\ \A n \in 1 .. Len(host) - 1 : host'[n].node = host[n].node
  BY HostEndsStep
<1>3. /\ Len(host) \in Nat /\ Len(ended) \in Nat /\ Len(dagStack) \in Nat /\ Len(dagNodes) \in Nat
      /\ Len(host) # 0
  BY ListFacts DEF DagInv, HostCallsOpen, Forest, OpenPath
<1>4. ASSUME ~tooDeep'
      PROVE  /\ Len(dagStack') = Len(host') /\ \A n \in 1 .. Len(host') : dagStack'[n] = host'[n].node
             /\ \A i \in 1 .. Len(dagNodes') : dagNodes'[i].parentId = 0 => i = 1
             /\ Len(dagNodes') <= Len(ended') + Len(host')
  <2>1. /\ Len(dagStack) = Len(host) /\ Len(dagNodes) <= Len(ended) + Len(host)
        /\ \A n \in 1 .. Len(host) : dagStack[n] = host[n].node
        /\ \A i \in 1 .. Len(dagNodes) : dagNodes[i].parentId = 0 => i = 1
    BY <1>4 DEF DagInv, Followed
  <2>2. dagStack # <<>>
    BY <1>3, <2>1, EmptySeq
  <2>3. Len(dagStack') = Len(host')
    BY <1>2, <2>1, <2>2 DEF NodeEnds
  <2>4. ASSUME NEW n \in 1 .. Len(host') PROVE dagStack'[n] = host'[n].node
    <3>1. n \in 1 .. Len(host) - 1 /\ n \in 1 .. Len(host) /\ n \in 1 .. Len(dagStack')
      BY <1>2, <1>3, <2>3
    <3>2. dagStack'[n] = dagStack[n]
      BY <3>1 DEF NodeEnds, PathCut
    <3> QED BY <1>2, <2>1, <3>1, <3>2
  <2>5. Len(dagNodes') = Len(dagNodes) /\ \A i \in 1 .. Len(dagNodes) : dagNodes'[i].parentId = dagNodes[i].parentId
    BY DEF NodeEnds, SameTree, SamePlace
  <2>6. \A i \in 1 .. Len(dagNodes') : dagNodes'[i].parentId = 0 => i = 1
    BY <2>1, <2>5
  <2>7. Len(dagNodes') <= Len(ended') + Len(host')
    BY <1>2, <1>3, <2>1, <2>5
  <2> QED BY <2>3, <2>4, <2>6, <2>7
<1>5. Followed'
  BY <1>4 DEF Followed
<1> QED BY <1>1, <1>2, <1>5 DEF DagInv

\* Without an open node, nothing is written.
LEMMA NothingOpen ==
    ASSUME DagInv, UNCHANGED dagNodes, UNCHANGED dagStack
    PROVE  SameTree /\ PathCut
<1>1. Len(dagStack) \in Nat /\ Len(dagNodes) \in Nat
  BY ListFacts DEF DagInv, Forest, OpenPath
<1>2. SameTree
  BY <1>1 DEF DagInv, Forest, SameTree, SamePlace
<1>3. PathCut
  BY <1>1 DEF DagInv, OpenPath, PathCut
<1> QED BY <1>2, <1>3

\* Writing the node on top, but not its place in the tree.
LEMMA TopWritten ==
    ASSUME DagInv, dagStack # <<>>, NEW y, IsNode(y), SamePlace(y, dagNodes[Top]),
           dagNodes' = [dagNodes EXCEPT ![Top] = y]
    PROVE  SameTree
<1>1. PICK count, k : count = Len(dagNodes) /\ k = Top
  OBVIOUS
<1>2. count \in Nat /\ DOMAIN dagNodes = 1 .. count
  BY <1>1, ListFacts DEF DagInv, Forest
<1>3. dagNodes' = [dagNodes EXCEPT ![k] = y]
  BY <1>1
<1>4. DOMAIN dagNodes' = 1 .. count /\ dagNodes' = [i \in 1 .. count |-> dagNodes'[i]]
  BY <1>2, <1>3
<1>5. IsList(dagNodes') /\ Len(dagNodes') = count
  BY ONLY <1>2, <1>4, ListOfPlaces
<1>6. ASSUME NEW i \in 1 .. count PROVE IsNode(dagNodes'[i]) /\ SamePlace(dagNodes'[i], dagNodes[i])
  <2>1. CASE i = k
    BY <1>1, <1>2, <1>3, <2>1
  <2>2. CASE i # k
    <3>1. dagNodes'[i] = dagNodes[i]
      BY <1>2, <1>3, <2>2
    <3>2. IsNode(dagNodes[i])
      BY <1>1 DEF DagInv, Forest
    <3> QED BY <3>1, <3>2 DEF SamePlace
  <2> QED BY <2>1, <2>2
<1> QED BY <1>1, <1>5, <1>6 DEF SameTree

\* The one on top is a node.
LEMMA TopIsNode == ASSUME DagInv, dagStack # <<>> PROVE IsNode(dagNodes[Top]) /\ Top \in DOMAIN dagNodes
<1>1. IsList(dagStack) /\ IsList(dagNodes)
  BY DEF DagInv, OpenPath, Forest
<1>2. Top = dagStack[Len(dagStack)] /\ Len(dagStack) \in 1 .. Len(dagStack) /\ DOMAIN dagNodes = 1 .. Len(dagNodes)
  <2>1. Len(dagStack) \in Nat /\ Len(dagStack) # 0
    BY <1>1, ListFacts
  <2> QED BY <1>1, <2>1, ListFacts, ListFront DEF Top
<1> QED BY <1>2 DEF DagInv, OpenPath, Forest

\* The path without the one on top.
LEMMA PathPopped ==
    ASSUME DagInv, dagStack # <<>>, dagStack' = Front(dagStack)
    PROVE  PathCut /\ Len(dagStack') = Len(dagStack) - 1
<1>1. IsList(dagStack)
  BY DEF DagInv, OpenPath
<1>2. Len(dagStack) \in Nat
  BY <1>1, ListFacts
<1>3. /\ IsList(dagStack') /\ Len(dagStack') = Len(dagStack) - 1
      /\ \A n \in 1 .. Len(dagStack) - 1 : dagStack'[n] = dagStack[n]
  BY ONLY <1>1, dagStack # <<>>, dagStack' = Front(dagStack), ListFront
<1> QED BY <1>2, <1>3 DEF PathCut

\* A call returns.
LEMMA ReturnStep == ASSUME DagInv, NEW measured \in BOOLEAN, HostReturn(measured) PROVE DagInv'
<1>1. host # <<>> /\ HostEnds(TRUE) /\ tooDeep' = tooDeep
  BY DEF HostReturn
<1>2. PICK insns : handleFnReturn(insns)
  BY DEF HostReturn
<1>3. CASE dagStack = <<>>
  <2>1. UNCHANGED dagNodes /\ UNCHANGED dagStack
    BY <1>2, <1>3 DEF handleFnReturn
  <2>2. SameTree /\ PathCut
    BY <2>1, NothingOpen
  <2> QED BY <1>1, <1>3, <2>2, CallEndStep DEF NodeEnds
<1>4. CASE dagStack # <<>>
  <2>1. PICK sum, x : sum = Totals(dagNodes[Top].childIds) /\ x = dagNodes[Top]
    OBVIOUS
  <2>2. PICK self : self = (IF insns >= sum THEN insns - sum ELSE 0)
    OBVIOUS
  <2>3. PICK y : y = [x EXCEPT !.status = "success", !.totalCpuInsns = insns, !.selfCpuInsns = self]
    OBVIOUS
  <2>4. dagNodes' = [dagNodes EXCEPT ![Top] = y] /\ dagStack' = Front(dagStack)
    BY <1>2, <1>4, <2>1, <2>2, <2>3, TopIsNode DEF handleFnReturn
  <2>5. IsNode(x)
    BY <1>4, <2>1, TopIsNode
  <2>6. IsNode(y) /\ SamePlace(y, x)
    BY <2>3, <2>5 DEF IsNode, SamePlace
  <2>7. SameTree
    BY <1>4, <2>1, <2>4, <2>6, TopWritten
  <2>8. PathCut /\ Len(dagStack') = Len(dagStack) - 1
    BY <1>4, <2>4, PathPopped
  <2> QED BY <1>1, <2>7, <2>8, CallEndStep DEF NodeEnds
<1> QED BY <1>3, <1>4

\* A call fails.
LEMMA ErrorStep == ASSUME DagInv, HostError PROVE DagInv'
<1>1. host # <<>> /\ HostEnds(FALSE) /\ tooDeep' = tooDeep /\ handleFnError
  BY DEF HostError
<1>3. CASE dagStack = <<>>
  <2>1. UNCHANGED dagNodes /\ UNCHANGED dagStack
    BY <1>1, <1>3 DEF handleFnError
  <2>2. SameTree /\ PathCut
    BY <2>1, NothingOpen
  <2> QED BY <1>1, <1>3, <2>2, CallEndStep DEF NodeEnds
<1>4. CASE dagStack # <<>>
  <2>1. PICK x, y : x = dagNodes[Top] /\ y = [x EXCEPT !.status = "error"]
    OBVIOUS
  <2>4. dagNodes' = [dagNodes EXCEPT ![Top] = y] /\ dagStack' = Front(dagStack)
    BY <1>1, <1>4, <2>1, TopIsNode DEF handleFnError
  <2>5. IsNode(x)
    BY <1>4, <2>1, TopIsNode
  <2>6. IsNode(y) /\ SamePlace(y, x)
    BY <2>1, <2>5 DEF IsNode, SamePlace
  <2>7. SameTree
    BY <1>4, <2>1, <2>4, <2>6, TopWritten
  <2>8. PathCut /\ Len(dagStack') = Len(dagStack) - 1
    BY <1>4, <2>4, PathPopped
  <2> QED BY <1>1, <2>7, <2>8, CallEndStep DEF NodeEnds
<1> QED BY <1>3, <1>4

\* What a call spends and logs is no part of the tree.
LEMMA FollowedKept ==
    ASSUME DagInv, SameTree, UNCHANGED dagStack, UNCHANGED ended, UNCHANGED tooDeep, HostCallsOpen',
           Len(host') = Len(host), \A n \in 1 .. Len(host) : host'[n].node = host[n].node
    PROVE  DagInv'
<1>1. PathCut
  <2>1. Len(dagStack) \in Nat
    BY ListFacts DEF DagInv, OpenPath
  <2> QED BY <2>1 DEF DagInv, OpenPath, PathCut
<1>2. Forest' /\ OpenPath'
  BY <1>1, TreeKept
<1>3. Len(dagNodes') = Len(dagNodes) /\ \A i \in 1 .. Len(dagNodes) : dagNodes'[i].parentId = dagNodes[i].parentId
  BY DEF SameTree, SamePlace
<1>4. Followed'
  BY <1>3 DEF DagInv, Followed
<1> QED BY <1>2, <1>4 DEF DagInv

\* The call on top spends.
LEMMA SpendStep == ASSUME DagInv, HostSpend PROVE DagInv'
<1>1. IsList(host) /\ host # <<>> /\ \A n \in 1 .. Len(host) : IsCall(host[n])
  BY DEF DagInv, HostCallsOpen, HostSpend
<1>2. PICK k : k = Len(host)
  OBVIOUS
<1>3. k \in Nat /\ k \in 1 .. k /\ DOMAIN host = 1 .. k
  BY <1>1, <1>2, ListFacts
<1>4. PICK x, y : x = host[k] /\ y = [x EXCEPT !.own = @ + 1]
  OBVIOUS
<1>5. IsCall(x)
  BY <1>1, <1>2, <1>3, <1>4
<1>6. IsCall(y) /\ y.node = x.node
  BY <1>4, <1>5 DEF IsCall
<1>7. host' = [host EXCEPT ![k] = y]
  BY <1>2, <1>3, <1>4 DEF HostSpend
<1>8. DOMAIN host' = 1 .. k /\ host' = [i \in 1 .. k |-> host'[i]]
  BY <1>3, <1>7
<1>9. IsList(host') /\ Len(host') = k
  BY ONLY <1>3, <1>8, ListOfPlaces
<1>10. ASSUME NEW n \in 1 .. k PROVE IsCall(host'[n]) /\ host'[n].node = host[n].node
  <2>1. CASE n = k
    BY <1>3, <1>4, <1>6, <1>7, <2>1
  <2>2. CASE n # k
    <3>1. host'[n] = host[n]
      BY <1>3, <1>7, <2>2
    <3> QED BY <1>1, <1>2, <3>1
  <2> QED BY <2>1, <2>2
<1>11. UNCHANGED dagNodes /\ UNCHANGED dagStack /\ UNCHANGED ended /\ UNCHANGED tooDeep
  BY DEF HostSpend
<1>12. HostCallsOpen'
  BY <1>9, <1>10, <1>11 DEF DagInv, HostCallsOpen
<1>13. SameTree
  BY <1>11, NothingOpen
<1> QED BY <1>2, <1>9, <1>10, <1>11, <1>12, <1>13, FollowedKept

\* The node on top logs.
LEMMA LogStep == ASSUME DagInv, HostLog PROVE DagInv'
<1>1. UNCHANGED host /\ UNCHANGED dagStack /\ UNCHANGED ended /\ UNCHANGED tooDeep
  BY DEF HostLog, handleLog
<1>2. HostCallsOpen'
  BY <1>1 DEF DagInv, HostCallsOpen
<1>3. SameTree
  <2>1. CASE dagStack = <<>>
    <3>1. UNCHANGED dagNodes
      BY <2>1 DEF HostLog, handleLog
    <3> QED BY <1>1, <3>1, NothingOpen
  <2>2. CASE dagStack # <<>>
    <3>1. PICK x, y : x = dagNodes[Top] /\ y = [x EXCEPT !.logs = @ + 1]
      OBVIOUS
    <3>2. dagNodes' = [dagNodes EXCEPT ![Top] = y]
      BY <2>2, <3>1, TopIsNode DEF HostLog, handleLog
    <3>3. IsNode(x)
      BY <2>2, <3>1, TopIsNode
    <3>4. IsNode(y) /\ SamePlace(y, x)
      BY <3>1, <3>3 DEF IsNode, SamePlace
    <3> QED BY <2>2, <3>1, <3>2, <3>4, TopWritten
  <2> QED BY <2>1, <2>2
<1>4. Len(host') = Len(host) /\ \A n \in 1 .. Len(host) : host'[n].node = host[n].node
  BY <1>1
<1> QED BY <1>1, <1>2, <1>3, <1>4, FollowedKept

\* Every step keeps the tree.
LEMMA DagStep == ASSUME DagInv, [DagNext]_dagvars PROVE DagInv'
<1>1. CASE HostCall
  BY <1>1, HostCallStep
<1>2. CASE HostSpend
  BY <1>2, SpendStep
<1>3. CASE HostError
  BY <1>3, ErrorStep
<1>4. CASE HostLog
  BY <1>4, LogStep
<1>5. ASSUME NEW measured \in BOOLEAN, HostReturn(measured) PROVE DagInv'
  BY <1>5, ReturnStep
<1>6. CASE UNCHANGED dagvars
  BY <1>6 DEF dagvars, DagInv, Forest, OpenPath, HostCallsOpen, Followed, Roots
<1> QED BY <1>1, <1>2, <1>3, <1>4, <1>5, <1>6 DEF DagNext

\* The properties follow: one root at most means at most one node that is one.
LEMMA DagFacts == ASSUME DagInv PROVE NodesFormTree /\ StackFollowsHost
<1>1. IsList(dagNodes) /\ IsList(dagStack) /\ IsList(host)
  BY DEF DagInv, Forest, OpenPath, HostCallsOpen
<1>2. /\ DOMAIN dagNodes = 1 .. Len(dagNodes) /\ DOMAIN host = 1 .. Len(host) /\ Len(host) \in Nat
      /\ DOMAIN dagStack = 1 .. Len(dagStack) /\ Len(dagStack) \in Nat
      /\ (host # <<>> => Len(host) # 0) /\ (dagStack # <<>> => Len(dagStack) # 0)
  BY <1>1, ListFacts
<1>3. NodesFormTree
  <2>1. \A i, k \in DOMAIN dagNodes : k \in dagNodes[i].childIds <=> dagNodes[k].parentId = i
    BY <1>2 DEF DagInv, Forest
  <2>2. \A i \in DOMAIN dagNodes \ Roots : dagNodes[i].depth = dagNodes[dagNodes[i].parentId].depth + 1
    BY <1>2 DEF DagInv, Forest, Roots
  <2>3. \A n \in 1 .. Len(dagStack) :
          dagNodes[dagStack[n]].parentId = IF n = 1 THEN 0 ELSE dagStack[n - 1]
    BY DEF DagInv, OpenPath
  <2>4. Len(dagStack) <= MAX_DEPTH
    BY DEF DagInv, OpenPath
  <2> QED BY <2>1, <2>2, <2>3, <2>4 DEF NodesFormTree
<1>4. ASSUME ~tooDeep
      PROVE  /\ dagStack = [n \in DOMAIN host |-> host[n].node]
             /\ Cardinality(Roots) <= 1 /\ (isComplete <=> host = <<>>)
  <2>1. /\ Len(dagStack) = Len(host) /\ \A n \in 1 .. Len(host) : dagStack[n] = host[n].node
        /\ \A i \in 1 .. Len(dagNodes) : dagNodes[i].parentId = 0 => i = 1
    BY <1>4 DEF DagInv, Followed
  <2>2. dagStack = [n \in DOMAIN host |-> host[n].node]
    <3>1. PICK nodes : nodes = [n \in DOMAIN host |-> host[n].node]
      OBVIOUS
    <3>2. DOMAIN nodes = 1 .. Len(host) /\ \A n \in 1 .. Len(host) : nodes[n] = dagStack[n]
      BY <1>2, <2>1, <3>1
    <3>3. dagStack = [n \in 1 .. Len(host) |-> dagStack[n]] /\ nodes = [n \in 1 .. Len(host) |-> nodes[n]]
      <4>1. dagStack = [n \in 1 .. Len(dagStack) |-> dagStack[n]]
        BY <1>1 DEF IsList
      <4> QED BY <2>1, <3>1, <3>2, <4>1, <1>2
    <3>4. [n \in 1 .. Len(host) |-> dagStack[n]] = [n \in 1 .. Len(host) |-> nodes[n]]
      BY <3>2
    <3> QED BY <3>1, <3>3, <3>4
  <2>3. Cardinality(Roots) <= 1
    <3>1. Roots \in SUBSET {1}
      BY <1>2, <2>1 DEF Roots
    <3>2. IsFiniteSet({1}) /\ Cardinality({1}) = 1
      BY FS_Singleton
    <3> QED BY <3>1, <3>2, FS_Subset
  <2>4. isComplete <=> host = <<>>
    BY <1>2, <2>1, EmptySeq DEF isComplete
  <2> QED BY <2>2, <2>3, <2>4
<1>5. StackFollowsHost
  BY <1>4 DEF StackFollowsHost
<1> QED BY <1>3, <1>5

\* Whatever the host calls, to whatever depth, the builder's nodes are a tree, and unless a
\* call was past the limit it is the tree of the host's calls.
THEOREM DagCorrect == DagSpec => []DagSafety
<1>1. DagInv /\ [DagNext]_dagvars => DagInv'
  BY DagStep
<1>2. DagInv => DagSafety
  BY DagFacts DEF DagSafety
<1> QED BY <1>1, <1>2, DagInitial, PTL DEF DagSpec

-----------------------------------------------------------------------------
(* The translator of the browser.                                        *)

ItemsOf == Nat \X Nat
Batches == [id : Nat, size : Nat]
PostedChunks == [id : Nat \ {0}, size : Nat]
WorkerMessages == [id : Nat \ {0}, size : Nat, ok : BOOLEAN]
Healths == {"absent", "loading", "ready", "broken"}

\* The list is the batch, from its first event on.
CountsUp(list, id) == \A n \in 1 .. Len(list) : list[n] = <<id, n>>

\* The list ends with the batch.
EndsWith(list, b) ==
    /\ b.size <= Len(list)
    /\ \A n \in 1 .. b.size : list[Len(list) - b.size + n] = <<b.id, n>>

\* What waits is of an earlier batch or of the last one.
Of(m, b) == m.id <= b.id /\ (m.id = b.id => m.size = b.size)

XlatTypes ==
    /\ rawBatch \in Batches /\ translated \in Seq(ItemsOf)
    /\ \A n \in 1 .. Len(translated) : translated[n][1] <= rawBatch.id
    /\ workerHealth \in Healths
    /\ toWorker \in Seq(PostedChunks) /\ \A k \in 1 .. Len(toWorker) : Of(toWorker[k], rawBatch)
    /\ fromWorker \in Seq(WorkerMessages) /\ \A k \in 1 .. Len(fromWorker) : Of(fromWorker[k], rawBatch)

\* Nothing is under way for the last batch.
IsIdle ==
    /\ listening = 0 /\ loaders = {} /\ isTranslating = FALSE
    /\ EndsWith(translated, rawBatch)
    /\ rawBatch.size > CHUNK_THRESHOLD => Len(translated) = rawBatch.size

\* The worker has been asked, and is heard.
IsAsked ==
    /\ listening = rawBatch.id /\ listening # 0 /\ loaders = {} /\ isTranslating = TRUE /\ translated = <<>>
    /\ \/ rawBatch.id \in silenced
       \/ \E k \in 1 .. Len(fromWorker) : fromWorker[k].id = rawBatch.id /\ fromWorker[k].ok
       \/ workerHealth \in {"loading", "ready"} /\ \E k \in 1 .. Len(toWorker) : toWorker[k].id = rawBatch.id

\* The result comes in, a chunk at a time.
IsLoading ==
    /\ listening = 0 /\ isTranslating = TRUE
    /\ \E m \in 1 .. rawBatch.size :
          /\ loaders = {[id |-> rawBatch.id, size |-> rawBatch.size, next |-> m]}
          /\ Len(translated) = m - 1 /\ CountsUp(translated, rawBatch.id)

XlatInv == XlatTypes /\ ShownInSequence /\ (IsIdle \/ (IsAsked /\ rawBatch.size > 0) \/ IsLoading)

\* A part of a batch.
LEMMA ItemsFacts ==
    ASSUME NEW b, b.id \in Nat, NEW from \in Nat \ {0}, NEW to \in Nat, from <= to + 1
    PROVE  /\ Items(b, from, to) \in Seq(ItemsOf) /\ Len(Items(b, from, to)) = to - from + 1
           /\ \A n \in 1 .. to - from + 1 : Items(b, from, to)[n] = <<b.id, from + n - 1>>
<1>1. PICK len : len = to - from + 1
  OBVIOUS
<1>2. len \in Nat
  BY <1>1
<1>3. \A n \in 1 .. len : <<b.id, from + n - 1>> \in ItemsOf
  <2>1. \A n \in 1 .. len : from + n - 1 \in Nat
    BY <1>2
  <2> QED BY <2>1 DEF ItemsOf
<1>4. PICK list : list = [n \in 1 .. len |-> <<b.id, from + n - 1>>]
  OBVIOUS
<1>5. list \in [1 .. len -> ItemsOf]
  BY <1>3, <1>4
<1>6. list \in Seq(ItemsOf)
  BY <1>2, <1>5, SeqDef
<1>7. DOMAIN list = 1 .. len /\ DOMAIN list = 1 .. Len(list) /\ Len(list) \in Nat
  BY <1>4, <1>6, LenProperties
<1>8. Len(list) = len
  BY <1>2, <1>7
<1>9. Items(b, from, to) = list
  BY <1>1, <1>4 DEF Items
<1>10. \A n \in 1 .. len : list[n] = <<b.id, from + n - 1>>
  BY <1>4
<1> QED BY <1>1, <1>6, <1>8, <1>9, <1>10

\* A whole batch.
LEMMA WholeBatch ==
    ASSUME NEW b, b.id \in Nat, NEW size \in Nat, NEW s, s = Items(b, 1, size)
    PROVE  s \in Seq(ItemsOf) /\ Len(s) = size /\ \A n \in 1 .. size : s[n] = <<b.id, n>>
<1>1. 1 \in Nat \ {0} /\ 1 <= size + 1
  OBVIOUS
<1>2. /\ Items(b, 1, size) \in Seq(ItemsOf) /\ Len(Items(b, 1, size)) = size - 1 + 1
      /\ \A n \in 1 .. size - 1 + 1 : Items(b, 1, size)[n] = <<b.id, 1 + n - 1>>
  BY <1>1, ItemsFacts
<1>3. size - 1 + 1 = size /\ \A n \in 1 .. size : 1 + n - 1 = n
  OBVIOUS
<1> QED BY <1>2, <1>3

\* A list that counts up is in sequence.
LEMMA CountingIsSequence ==
    ASSUME NEW id, NEW len \in Nat, NEW t, Len(t) = len, CountsUp(t, id)
    PROVE  \A n \in 1 .. Len(t) :
        \/ t[n][2] = 1 /\ (n > 1 => t[n - 1][1] < t[n][1])
        \/ n > 1 /\ t[n] = <<t[n - 1][1], t[n - 1][2] + 1>>
<1>1. ASSUME NEW n \in 1 .. len
      PROVE  \/ t[n][2] = 1 /\ (n > 1 => t[n - 1][1] < t[n][1])
             \/ n > 1 /\ t[n] = <<t[n - 1][1], t[n - 1][2] + 1>>
  <2>1. t[n] = <<id, n>>
    BY DEF CountsUp
  <2>2. CASE n = 1
    BY <2>1, <2>2
  <2>3. CASE n # 1
    <3>1. n - 1 \in 1 .. len /\ (n - 1) + 1 = n /\ n > 1
      BY <2>3
    <3>2. t[n - 1] = <<id, n - 1>>
      BY <3>1 DEF CountsUp
    <3>3. t[n - 1][1] = id /\ t[n - 1][2] = n - 1
      BY <3>2
    <3> QED BY <2>1, <3>1, <3>3
  <2> QED BY <2>2, <2>3
<1> QED BY <1>1

\* Nothing is to be translated at first.
LEMMA XlatInitial == XlatInit => XlatInv
<1> SUFFICES ASSUME XlatInit PROVE XlatInv
  OBVIOUS
<1>1. rawBatch \in Batches /\ rawBatch.id = 0 /\ rawBatch.size = 0
  BY DEF XlatInit, Batches
<1>6. workerHealth \in Healths
  BY DEF XlatInit, Healths
<1>2. /\ translated = <<>> /\ toWorker = <<>> /\ fromWorker = <<>> /\ loaders = {}
      /\ listening = 0 /\ isTranslating = FALSE
  BY DEF XlatInit
<1>3. XlatTypes
  BY <1>1, <1>2, <1>6 DEF XlatTypes
<1>4. ShownInSequence
  BY <1>2 DEF ShownInSequence
<1>5. IsIdle
  <2>1. EndsWith(translated, rawBatch)
    BY <1>1, <1>2 DEF EndsWith
  <2>2. Len(translated) = 0
    BY <1>2
  <2>3. ~(rawBatch.size > CHUNK_THRESHOLD)
    BY <1>1, EventTranslatorAssumption
  <2> QED BY <1>2, <2>1, <2>3 DEF IsIdle
<1> QED BY <1>3, <1>4, <1>5 DEF XlatInv

\* What waits is of an earlier batch when the next one comes.
LEMMA WaitingIsOlder ==
    ASSUME XlatInv, NEW b \in Batches, b.id = rawBatch.id + 1
    PROVE  /\ \A n \in 1 .. Len(translated) : translated[n][1] < b.id
           /\ \A k \in 1 .. Len(toWorker) : Of(toWorker[k], b)
           /\ \A k \in 1 .. Len(fromWorker) : Of(fromWorker[k], b)
<1>1. rawBatch.id \in Nat /\ b.id \in Nat
  BY DEF XlatInv, XlatTypes, Batches
<1>2. ASSUME NEW n \in 1 .. Len(translated) PROVE translated[n][1] < b.id
  <2>1. translated[n] \in ItemsOf
    BY ElementOfSeq DEF XlatInv, XlatTypes
  <2>2. translated[n][1] \in Nat /\ translated[n][1] <= rawBatch.id
    BY <2>1 DEF XlatInv, XlatTypes, ItemsOf
  <2> QED BY <1>1, <2>2
<1>3. ASSUME NEW k \in 1 .. Len(toWorker) PROVE Of(toWorker[k], b)
  <2>1. toWorker[k] \in PostedChunks
    BY ElementOfSeq DEF XlatInv, XlatTypes
  <2>2. toWorker[k].id \in Nat /\ toWorker[k].id <= rawBatch.id
    BY <2>1 DEF XlatInv, XlatTypes, PostedChunks, Of
  <2> QED BY <1>1, <2>2 DEF Of
<1>4. ASSUME NEW k \in 1 .. Len(fromWorker) PROVE Of(fromWorker[k], b)
  <2>1. fromWorker[k] \in WorkerMessages
    BY ElementOfSeq DEF XlatInv, XlatTypes
  <2>2. fromWorker[k].id \in Nat /\ fromWorker[k].id <= rawBatch.id
    BY <2>1 DEF XlatInv, XlatTypes, WorkerMessages, Of
  <2> QED BY <1>1, <2>2 DEF Of
<1> QED BY <1>2, <1>3, <1>4

\* A new batch replaces the one before it.
LEMMA BatchStep == ASSUME XlatInv, NEW n \in BatchSizes, NewBatch(n) PROVE XlatInv'
<1>1. PICK b : b = [id |-> rawBatch.id + 1, size |-> n]
  OBVIOUS
<1>2. /\ rawBatch' = b /\ loaders' = {} /\ fromWorker' = fromWorker
  BY <1>1 DEF NewBatch
<1>3. rawBatch.id \in Nat /\ n \in Nat
  BY EventTranslatorAssumption DEF XlatInv, XlatTypes, Batches
<1>4. /\ b \in Batches /\ b \in PostedChunks /\ b.id = rawBatch.id + 1 /\ b.size = n /\ b.id \in Nat /\ b.id # 0
  BY <1>1, <1>3 DEF Batches, PostedChunks
<1>5. /\ \A k \in 1 .. Len(translated) : translated[k][1] < b.id
      /\ \A k \in 1 .. Len(toWorker) : Of(toWorker[k], b)
      /\ \A k \in 1 .. Len(fromWorker) : Of(fromWorker[k], b)
  BY <1>4, WaitingIsOlder
<1>6. /\ translated \in Seq(ItemsOf) /\ toWorker \in Seq(PostedChunks) /\ fromWorker \in Seq(WorkerMessages)
      /\ Len(translated) \in Nat /\ ShownInSequence /\ workerHealth \in Healths
  BY LenProperties DEF XlatInv, XlatTypes
<1>7. CASE n = 0
  <2>1. /\ translated' = <<>> /\ isTranslating' = FALSE /\ listening' = 0
        /\ toWorker' = toWorker /\ workerHealth' = workerHealth
    BY <1>7 DEF NewBatch
  <2>2. XlatTypes'
    BY <1>2, <1>4, <1>5, <1>6, <2>1 DEF XlatTypes
  <2>3. EndsWith(<<>>, b) /\ ~(b.size > CHUNK_THRESHOLD)
    BY <1>4, <1>7, EventTranslatorAssumption DEF EndsWith
  <2>4. IsIdle'
    BY <1>2, <2>1, <2>3 DEF IsIdle
  <2>5. ShownInSequence'
    BY <2>1 DEF ShownInSequence
  <2> QED BY <2>2, <2>4, <2>5 DEF XlatInv
<1>8. CASE n # 0 /\ n <= CHUNK_THRESHOLD
  <2>1. PICK t : t = translated \o Items(b, 1, n)
    OBVIOUS
  <2>2. /\ translated' = t /\ isTranslating' = FALSE /\ listening' = 0
        /\ toWorker' = toWorker /\ workerHealth' = workerHealth
    BY <1>2, <1>4, <1>8, <2>1 DEF NewBatch, TranslateHere
  <2>3. /\ t \in Seq(ItemsOf) /\ Len(t) = Len(translated) + n
        /\ \A k \in 1 .. Len(translated) : t[k] = translated[k]
        /\ \A k \in 1 .. n : t[Len(translated) + k] = <<b.id, k>>
    <3>1. PICK add : add = Items(b, 1, n)
      OBVIOUS
    <3>2. add \in Seq(ItemsOf) /\ Len(add) = n /\ \A k \in 1 .. n : add[k] = <<b.id, k>>
      BY <1>3, <1>4, <3>1, WholeBatch
    <3>3. t = translated \o add
      BY <2>1, <3>1
    <3>4. /\ t \in Seq(ItemsOf) /\ Len(t) = Len(translated) + Len(add)
          /\ \A k \in 1 .. Len(translated) : t[k] = translated[k]
          /\ \A k \in 1 .. Len(add) : t[Len(translated) + k] = add[k]
      <4>1. /\ translated \o add \in Seq(ItemsOf) /\ Len(translated \o add) = Len(translated) + Len(add)
            /\ \A k \in 1 .. Len(translated) : (translated \o add)[k] = translated[k]
            /\ \A k \in 1 .. Len(add) : (translated \o add)[Len(translated) + k] = add[k]
        <5>1. translated \in Seq(ItemsOf) /\ add \in Seq(ItemsOf)
          BY <1>6, <3>2
        <5> QED BY ONLY <5>1, BehindList
      <4> QED BY <3>3, <4>1
    <3> QED BY <3>2, <3>4
  <2>4. EndsWith(t, b)
    <3>1. b.size <= Len(t) /\ \A k \in 1 .. n : Len(t) - n + k = Len(translated) + k
      BY <1>3, <1>4, <1>6, <2>3
    <3> QED BY <1>4, <2>3, <3>1 DEF EndsWith
  <2>5. ASSUME NEW k \in 1 .. Len(t), ~(k <= Len(translated))
        PROVE  /\ k - Len(translated) \in 1 .. n /\ t[k] = <<b.id, k - Len(translated)>>
    <3>1. k - Len(translated) \in 1 .. n /\ Len(translated) + (k - Len(translated)) = k
      BY <1>3, <1>6, <2>3, <2>5
    <3> QED BY <2>3, <3>1
  <2>6. ASSUME NEW k \in 1 .. Len(t) PROVE t[k][1] <= b.id
    <3>1. CASE k <= Len(translated)
      <4>1. k \in 1 .. Len(translated) /\ t[k] = translated[k]
        BY <3>1, <1>3, <1>6, <2>3
      <4>2. t[k] \in ItemsOf /\ t[k][1] \in Nat
        BY <2>3, ElementOfSeq DEF ItemsOf
      <4> QED BY <4>1, <4>2, <1>4, <1>5
    <3>2. CASE ~(k <= Len(translated))
      <4>1. t[k][1] = b.id
        BY <3>2, <2>5
      <4> QED BY <4>1, <1>4
    <3> QED BY <3>1, <3>2
  <2>7. ASSUME NEW k \in 1 .. Len(t)
        PROVE  \/ t[k][2] = 1 /\ (k > 1 => t[k - 1][1] < t[k][1])
               \/ k > 1 /\ t[k] = <<t[k - 1][1], t[k - 1][2] + 1>>
    <3>1. CASE k <= Len(translated)
      <4>1. k \in 1 .. Len(translated) /\ t[k] = translated[k]
        BY <3>1, <1>3, <1>6, <2>3
      <4>2. k > 1 => k - 1 \in 1 .. Len(translated) /\ t[k - 1] = translated[k - 1]
        BY <3>1, <1>3, <1>6, <2>3
      <4> QED BY <4>1, <4>2, <1>6 DEF ShownInSequence
    <3>2. CASE k = Len(translated) + 1
      <4>1. t[k] = <<b.id, 1>>
        BY <3>2, <1>3, <1>6, <1>8, <2>3
      <4>2. k > 1 => k - 1 \in 1 .. Len(translated) /\ t[k - 1] = translated[k - 1]
        BY <3>2, <1>6, <2>3
      <4>3. t[k][1] = b.id /\ t[k][2] = 1
        BY <4>1
      <4> QED BY <4>2, <4>3, <1>5
    <3>3. CASE k > Len(translated) + 1
      <4>1. /\ k - 1 \in 1 .. Len(t) /\ ~(k - 1 <= Len(translated)) /\ ~(k <= Len(translated)) /\ k > 1
            /\ (k - 1) - Len(translated) + 1 = k - Len(translated)
        BY <3>3, <1>3, <1>6, <2>3
      <4>2. t[k] = <<b.id, k - Len(translated)>> /\ t[k - 1] = <<b.id, (k - 1) - Len(translated)>>
        BY <4>1, <2>5
      <4>3. t[k - 1][1] = b.id /\ t[k - 1][2] = (k - 1) - Len(translated)
        BY <4>2
      <4> QED BY <4>1, <4>2, <4>3
    <3>4. k <= Len(translated) \/ k = Len(translated) + 1 \/ k > Len(translated) + 1
      BY <1>6
    <3> QED BY <3>1, <3>2, <3>3, <3>4
  <2>8. XlatTypes'
    BY <1>2, <1>4, <1>5, <1>6, <2>2, <2>3, <2>6 DEF XlatTypes
  <2>9. ShownInSequence'
    BY <2>2, <2>7 DEF ShownInSequence
  <2>10. ~(b.size > CHUNK_THRESHOLD)
    BY <1>3, <1>4, <1>8, EventTranslatorAssumption
  <2>11. IsIdle'
    BY <1>2, <2>2, <2>4, <2>10 DEF IsIdle
  <2> QED BY <2>8, <2>9, <2>11 DEF XlatInv
<1>9. CASE n # 0 /\ ~(n <= CHUNK_THRESHOLD)
  <2>1. /\ translated' = <<>> /\ isTranslating' = TRUE /\ listening' = b.id
        /\ toWorker' = Append(toWorker, b)
        /\ workerHealth' = IF workerHealth = "absent" THEN "loading" ELSE workerHealth
        /\ silenced' = IF workerHealth = "broken" THEN silenced \cup {b.id} ELSE silenced
    BY <1>2, <1>9 DEF NewBatch, TranslateInWorker
  <2>2. PICK s : s = Append(toWorker, b)
    OBVIOUS
  <2>3. /\ s \in Seq(PostedChunks) /\ Len(s) = Len(toWorker) + 1 /\ s[Len(toWorker) + 1] = b
        /\ \A k \in 1 .. Len(toWorker) : s[k] = toWorker[k]
    BY <1>4, <1>6, <2>2, AppendProperties
  <2>4. Len(toWorker) \in Nat
    BY <1>6, LenProperties
  <2>5. Of(b, b)
    BY <1>4 DEF Of
  <2>6. ASSUME NEW k \in 1 .. Len(s) PROVE Of(s[k], b)
    <3>1. CASE k = Len(toWorker) + 1
      BY <3>1, <2>3, <2>5
    <3>2. CASE k # Len(toWorker) + 1
      <4>1. k \in 1 .. Len(toWorker)
        BY <3>2, <2>3, <2>4
      <4> QED BY <4>1, <1>5, <2>3
    <3> QED BY <3>1, <3>2
  <2>7. translated' \in Seq(ItemsOf) /\ Len(translated') = 0
    BY <2>1
  <2>13. workerHealth' \in Healths
    BY <1>6, <2>1 DEF Healths
  <2>8. XlatTypes'
    BY <1>2, <1>4, <1>5, <1>6, <2>1, <2>2, <2>3, <2>6, <2>7, <2>13 DEF XlatTypes
  <2>9. ShownInSequence'
    BY <2>7 DEF ShownInSequence
  <2>10. Len(s) \in 1 .. Len(s) /\ s[Len(s)].id = b.id
    BY <2>3, <2>4
  <2>11. \/ b.id \in silenced'
         \/ workerHealth' \in {"loading", "ready"} /\ \E k \in 1 .. Len(s) : s[k].id = b.id
    BY <1>6, <2>1, <2>10 DEF Healths
  <2>12. IsAsked' /\ rawBatch'.size > 0
    <3>1. b.size > 0
      BY <1>3, <1>4, <1>9
    <3> QED BY <3>1, <1>2, <1>4, <2>1, <2>2, <2>11 DEF IsAsked
  <2> QED BY <2>8, <2>9, <2>12 DEF XlatInv
<1> QED BY <1>7, <1>8, <1>9

\* The worker answers the oldest chunk it was sent.
LEMMA WorkerStep == ASSUME XlatInv, NEW ok \in BOOLEAN, WorkerAnswers(ok) PROVE XlatInv'
<1>1. PICK m, h : h = Head(toWorker) /\ m = [id |-> Head(toWorker).id, size |-> Head(toWorker).size, ok |-> ok]
  OBVIOUS
<1>2. /\ workerHealth' = "ready" /\ toWorker' = Tail(toWorker) /\ fromWorker' = Append(fromWorker, m)
      /\ silenced' = (IF ok THEN silenced ELSE silenced \cup {h.id}) /\ toWorker # <<>>
      /\ UNCHANGED <<rawBatch, translated, isTranslating, listening, loaders>>
  BY <1>1 DEF WorkerAnswers
<1>3. /\ toWorker \in Seq(PostedChunks) /\ fromWorker \in Seq(WorkerMessages)
      /\ \A k \in 1 .. Len(toWorker) : Of(toWorker[k], rawBatch)
      /\ \A k \in 1 .. Len(fromWorker) : Of(fromWorker[k], rawBatch)
  BY DEF XlatInv, XlatTypes
<1>4. Len(toWorker) \in Nat \ {0} /\ Len(fromWorker) \in Nat /\ h = toWorker[1]
  BY <1>1, <1>2, <1>3, EmptySeq, LenProperties
<1>5. h \in PostedChunks /\ Of(h, rawBatch)
  <2>1. 1 \in 1 .. Len(toWorker)
    BY <1>4
  <2> QED BY <2>1, <1>3, <1>4, ElementOfSeq
<1>6. m \in WorkerMessages /\ m.id = h.id /\ m.size = h.size /\ m.ok = ok
  BY <1>1, <1>5 DEF WorkerMessages, PostedChunks
<1>7. PICK left, come : left = Tail(toWorker) /\ come = Append(fromWorker, m)
  OBVIOUS
<1>8. /\ left \in Seq(PostedChunks) /\ Len(left) = Len(toWorker) - 1
      /\ \A k \in 1 .. Len(left) : left[k] = toWorker[k + 1]
  BY <1>2, <1>3, <1>7, HeadTailProperties
<1>9. /\ come \in Seq(WorkerMessages) /\ Len(come) = Len(fromWorker) + 1 /\ come[Len(fromWorker) + 1] = m
      /\ \A k \in 1 .. Len(fromWorker) : come[k] = fromWorker[k]
  BY <1>3, <1>6, <1>7, AppendProperties
<1>10. \A k \in 1 .. Len(left) : Of(left[k], rawBatch)
  BY <1>3, <1>4, <1>8
<1>11. ASSUME NEW k \in 1 .. Len(come) PROVE Of(come[k], rawBatch)
  <2>1. CASE k = Len(fromWorker) + 1
    BY <2>1, <1>5, <1>6, <1>9 DEF Of
  <2>2. CASE k # Len(fromWorker) + 1
    <3>1. k \in 1 .. Len(fromWorker)
      BY <2>2, <1>4, <1>9
    <3> QED BY <3>1, <1>3, <1>9
  <2> QED BY <2>1, <2>2
<1>12. XlatTypes'
  BY <1>2, <1>7, <1>8, <1>9, <1>10, <1>11 DEF XlatInv, XlatTypes, Healths
<1>13. ShownInSequence'
  BY <1>2 DEF XlatInv, ShownInSequence
<1>14. CASE IsAsked /\ rawBatch.size > 0
  <2>1. \/ rawBatch.id \in silenced'
        \/ \E k \in 1 .. Len(come) : come[k].id = rawBatch.id /\ come[k].ok
        \/ \E k \in 1 .. Len(left) : left[k].id = rawBatch.id
    <3>1. CASE rawBatch.id \in silenced
      BY <3>1, <1>2
    <3>2. CASE \E k \in 1 .. Len(fromWorker) : fromWorker[k].id = rawBatch.id /\ fromWorker[k].ok
      <4>1. PICK k \in 1 .. Len(fromWorker) : fromWorker[k].id = rawBatch.id /\ fromWorker[k].ok
        BY <3>2
      <4>2. k \in 1 .. Len(come) /\ come[k] = fromWorker[k]
        BY <1>4, <1>9
      <4> QED BY <4>1, <4>2
    <3>3. CASE \E k \in 1 .. Len(toWorker) : toWorker[k].id = rawBatch.id
      <4>1. PICK k \in 1 .. Len(toWorker) : toWorker[k].id = rawBatch.id
        BY <3>3
      <4>2. CASE k = 1
        <5>1. h.id = rawBatch.id
          BY <4>1, <4>2, <1>4
        <5>2. CASE ok
          <6>1. Len(fromWorker) + 1 \in 1 .. Len(come)
            BY <1>4, <1>9
          <6> QED BY <5>1, <5>2, <6>1, <1>6, <1>9
        <5>3. CASE ~ok
          BY <5>1, <5>3, <1>2
        <5> QED BY <5>2, <5>3
      <4>3. CASE k # 1
        <5>1. k - 1 \in 1 .. Len(left) /\ (k - 1) + 1 = k
          BY <4>3, <1>4, <1>8
        <5>2. left[k - 1] = toWorker[k]
          BY <5>1, <1>8
        <5> QED BY <4>1, <5>1, <5>2
      <4> QED BY <4>2, <4>3
    <3> QED BY <1>14, <3>1, <3>2, <3>3 DEF IsAsked
  <2> QED BY <1>2, <1>7, <1>12, <1>13, <1>14, <2>1 DEF XlatInv, IsAsked
<1>15. CASE IsIdle
  BY <1>2, <1>12, <1>13, <1>15 DEF XlatInv, IsIdle
<1>16. CASE IsLoading
  BY <1>2, <1>12, <1>13, <1>16 DEF XlatInv, IsLoading
<1> QED BY <1>14, <1>15, <1>16 DEF XlatInv

\* The page takes an answer.
LEMMA MessageStep == ASSUME XlatInv, HandleMessage PROVE XlatInv'
<1>1. PICK m : m = Head(fromWorker)
  OBVIOUS
<1>2. /\ fromWorker # <<>> /\ fromWorker' = Tail(fromWorker)
      /\ UNCHANGED <<rawBatch, translated, isTranslating, toWorker, workerHealth, silenced>>
  BY DEF HandleMessage
<1>3. fromWorker \in Seq(WorkerMessages) /\ \A k \in 1 .. Len(fromWorker) : Of(fromWorker[k], rawBatch)
  BY DEF XlatInv, XlatTypes
<1>4. Len(fromWorker) \in Nat \ {0} /\ m = fromWorker[1]
  BY <1>1, <1>2, <1>3, EmptySeq, LenProperties
<1>5. Of(m, rawBatch) /\ m.id # 0
  <2>1. 1 \in 1 .. Len(fromWorker)
    BY <1>4
  <2>2. m \in WorkerMessages
    BY <2>1, <1>3, <1>4, ElementOfSeq
  <2> QED BY <2>1, <2>2, <1>3, <1>4 DEF WorkerMessages
<1>6. PICK left : left = Tail(fromWorker)
  OBVIOUS
<1>7. /\ left \in Seq(WorkerMessages) /\ Len(left) = Len(fromWorker) - 1
      /\ \A k \in 1 .. Len(left) : left[k] = fromWorker[k + 1]
  BY <1>2, <1>3, <1>6, HeadTailProperties
<1>8. \A k \in 1 .. Len(left) : Of(left[k], rawBatch)
  BY <1>3, <1>4, <1>7
<1>9. XlatTypes'
  BY <1>2, <1>6, <1>7, <1>8 DEF XlatInv, XlatTypes
<1>10. ShownInSequence'
  BY <1>2 DEF XlatInv, ShownInSequence
<1>11. CASE m.ok /\ m.id = listening
  <2>1. listening' = 0 /\ loaders' = loaders \cup {[id |-> m.id, size |-> m.size, next |-> 1]}
    BY <1>1, <1>11 DEF HandleMessage
  <2>2. CASE IsAsked /\ rawBatch.size > 0
    <3>1. m.id = rawBatch.id /\ m.size = rawBatch.size
      BY <1>5, <1>11, <2>2 DEF IsAsked, Of
    <3>2. loaders' = {[id |-> rawBatch.id, size |-> rawBatch.size, next |-> 1]}
      BY <2>1, <2>2, <3>1 DEF IsAsked
    <3>3. rawBatch.size \in Nat
      BY DEF XlatInv, XlatTypes, Batches
    <3>4. 1 \in 1 .. rawBatch.size /\ translated = <<>> /\ Len(translated) = 1 - 1 /\ CountsUp(translated, rawBatch.id)
      BY <2>2, <3>3 DEF IsAsked, CountsUp
    <3>5. IsLoading'
      BY <1>2, <2>1, <2>2, <3>2, <3>4 DEF IsLoading, IsAsked
    <3> QED BY <1>9, <1>10, <3>5 DEF XlatInv
  <2>3. CASE ~(IsAsked /\ rawBatch.size > 0)
    <3>1. listening = 0
      BY <2>3 DEF XlatInv, IsIdle, IsLoading
    <3> QED BY <3>1, <1>5, <1>11
  <2> QED BY <2>2, <2>3
<1>12. CASE ~(m.ok /\ m.id = listening)
  <2>1. UNCHANGED <<listening, loaders>>
    BY <1>1, <1>12 DEF HandleMessage
  <2>2. CASE IsAsked /\ rawBatch.size > 0
    <3>1. ASSUME \E k \in 1 .. Len(fromWorker) : fromWorker[k].id = rawBatch.id /\ fromWorker[k].ok
          PROVE  \E k \in 1 .. Len(left) : left[k].id = rawBatch.id /\ left[k].ok
      <4>1. PICK k \in 1 .. Len(fromWorker) : fromWorker[k].id = rawBatch.id /\ fromWorker[k].ok
        BY <3>1
      <4>2. k # 1
        BY <4>1, <1>4, <1>12, <2>2 DEF IsAsked
      <4>3. k - 1 \in 1 .. Len(left) /\ (k - 1) + 1 = k
        BY <4>2, <1>4, <1>7
      <4>4. left[k - 1] = fromWorker[k]
        BY <4>3, <1>7
      <4> QED BY <4>1, <4>3, <4>4
    <3> QED BY <1>2, <1>6, <1>9, <1>10, <2>1, <2>2, <3>1 DEF XlatInv, IsAsked
  <2>3. CASE IsIdle
    BY <1>2, <1>9, <1>10, <2>1, <2>3 DEF XlatInv, IsIdle
  <2>4. CASE IsLoading
    BY <1>2, <1>9, <1>10, <2>1, <2>4 DEF XlatInv, IsLoading
  <2> QED BY <2>2, <2>3, <2>4 DEF XlatInv
<1> QED BY <1>11, <1>12

\* The worker breaks.
LEMMA BreakStep == ASSUME XlatInv, WorkerBreaks PROVE XlatInv'
<1>1. /\ workerHealth' = "broken" /\ listening' = 0
      /\ UNCHANGED <<rawBatch, loaders, toWorker, fromWorker, silenced>>
  BY DEF WorkerBreaks
<1>2. rawBatch.id \in Nat /\ rawBatch.size \in Nat
  BY DEF XlatInv, XlatTypes, Batches
<1>3. CASE IsAsked /\ rawBatch.size > 0
  <2>1. PICK t : t = Items(rawBatch, 1, rawBatch.size)
    OBVIOUS
  <2>2. translated' = t /\ isTranslating' = FALSE /\ loaders' = {}
    BY <1>1, <1>3, <2>1 DEF WorkerBreaks, IsAsked
  <2>3. /\ t \in Seq(ItemsOf) /\ Len(t) = rawBatch.size
        /\ \A n \in 1 .. rawBatch.size : t[n] = <<rawBatch.id, n>>
    BY <1>2, <2>1, WholeBatch
  <2>4. EndsWith(t, rawBatch)
    <3>1. \A n \in 1 .. rawBatch.size : rawBatch.size - rawBatch.size + n = n
      BY <1>2
    <3> QED BY <1>2, <2>3, <3>1 DEF EndsWith
  <2>5. CountsUp(t, rawBatch.id)
    BY <2>3 DEF CountsUp
  <2>6. \A n \in 1 .. Len(t) :
        \/ t[n][2] = 1 /\ (n > 1 => t[n - 1][1] < t[n][1])
        \/ n > 1 /\ t[n] = <<t[n - 1][1], t[n - 1][2] + 1>>
    BY <1>2, <2>3, <2>5, CountingIsSequence
  <2>7. ShownInSequence'
    BY <2>2, <2>6 DEF ShownInSequence
  <2>8. \A n \in 1 .. Len(t) : t[n][1] <= rawBatch.id
    BY <1>2, <2>3
  <2>9. XlatTypes'
    BY <1>1, <2>2, <2>3, <2>8 DEF XlatInv, XlatTypes, Healths
  <2>10. IsIdle'
    BY <1>1, <2>2, <2>3, <2>4 DEF IsIdle
  <2> QED BY <2>7, <2>9, <2>10 DEF XlatInv
<1>4. CASE IsIdle \/ IsLoading
  <2>1. UNCHANGED <<translated, isTranslating, listening>>
    BY <1>1, <1>4 DEF WorkerBreaks, IsIdle, IsLoading
  <2>2. XlatTypes' /\ ShownInSequence'
    BY <1>1, <2>1 DEF XlatInv, XlatTypes, Healths, ShownInSequence
  <2> QED BY <1>1, <1>4, <2>1, <2>2 DEF XlatInv, IsIdle, IsLoading
<1> QED BY <1>3, <1>4 DEF XlatInv

\* A frame of the screen shows the next chunk.
LEMMA FrameStep == ASSUME XlatInv, NEW l \in loaders, AnimationFrame(l) PROVE XlatInv'
<1>1. /\ translated \in Seq(ItemsOf) /\ Len(translated) \in Nat
      /\ rawBatch.id \in Nat /\ rawBatch.size \in Nat
  BY LenProperties DEF XlatInv, XlatTypes, Batches
<1>2. IsLoading
  BY DEF XlatInv, IsIdle, IsAsked
<1>3. PICK m \in 1 .. rawBatch.size :
          /\ loaders = {[id |-> rawBatch.id, size |-> rawBatch.size, next |-> m]}
          /\ Len(translated) = m - 1 /\ CountsUp(translated, rawBatch.id)
  BY <1>2 DEF IsLoading
<1>4. l = [id |-> rawBatch.id, size |-> rawBatch.size, next |-> m]
  BY <1>3
<1>5. l.id = rawBatch.id /\ l.size = rawBatch.size /\ l.next = m
  BY <1>4
<1>6. PICK end : end = IF m + CHUNK_SIZE - 1 < rawBatch.size THEN m + CHUNK_SIZE - 1 ELSE rawBatch.size
  OBVIOUS
<1>7. end \in Nat /\ m <= end /\ end <= rawBatch.size
  BY <1>1, <1>6, EventTranslatorAssumption
<1>8. PICK t : t = translated \o Items(l, m, end)
  OBVIOUS
<1>9. /\ translated' = t
      /\ loaders' = (loaders \ {l}) \cup IF end < rawBatch.size THEN {[l EXCEPT !.next = end + 1]} ELSE {}
      /\ isTranslating' = IF end < rawBatch.size THEN isTranslating ELSE FALSE
      /\ UNCHANGED <<rawBatch, listening, toWorker, fromWorker, workerHealth, silenced>>
  BY <1>5, <1>6, <1>8 DEF AnimationFrame
<1>10. /\ t \in Seq(ItemsOf) /\ Len(t) = end /\ CountsUp(t, rawBatch.id)
  <2>1. m \in Nat \ {0} /\ m <= end + 1 /\ l.id \in Nat
    BY <1>1, <1>5, <1>7
  <2>2. /\ t \in Seq(ItemsOf) /\ Len(t) = Len(translated) + (end - m + 1)
        /\ \A n \in 1 .. Len(translated) : t[n] = translated[n]
        /\ \A n \in 1 .. end - m + 1 : t[Len(translated) + n] = <<l.id, m + n - 1>>
    <3>1. PICK add : add = Items(l, m, end)
      OBVIOUS
    <3>2. /\ add \in Seq(ItemsOf) /\ Len(add) = end - m + 1
          /\ \A n \in 1 .. end - m + 1 : add[n] = <<l.id, m + n - 1>>
      <4>1. /\ Items(l, m, end) \in Seq(ItemsOf) /\ Len(Items(l, m, end)) = end - m + 1
            /\ \A n \in 1 .. end - m + 1 : Items(l, m, end)[n] = <<l.id, m + n - 1>>
        BY <1>7, <2>1, ItemsFacts
      <4> QED BY <3>1, <4>1
    <3>3. t = translated \o add
      BY <1>8, <3>1
    <3>4. /\ t \in Seq(ItemsOf) /\ Len(t) = Len(translated) + Len(add)
          /\ \A k \in 1 .. Len(translated) : t[k] = translated[k]
          /\ \A k \in 1 .. Len(add) : t[Len(translated) + k] = add[k]
      <4>1. /\ translated \o add \in Seq(ItemsOf) /\ Len(translated \o add) = Len(translated) + Len(add)
            /\ \A k \in 1 .. Len(translated) : (translated \o add)[k] = translated[k]
            /\ \A k \in 1 .. Len(add) : (translated \o add)[Len(translated) + k] = add[k]
        <5>1. translated \in Seq(ItemsOf) /\ add \in Seq(ItemsOf)
          BY <1>1, <3>2
        <5> QED BY ONLY <5>1, BehindList
      <4> QED BY <3>3, <4>1
    <3> QED BY <3>2, <3>4
  <2>3. Len(t) = end
    BY <1>1, <1>3, <1>7, <2>2
  <2>4. ASSUME NEW n \in 1 .. end PROVE t[n] = <<rawBatch.id, n>>
    <3>1. CASE n <= m - 1
      <4>1. n \in 1 .. Len(translated)
        BY <3>1, <1>3, <1>7
      <4> QED BY <4>1, <1>3, <2>2 DEF CountsUp
    <3>2. CASE ~(n <= m - 1)
      <4>1. /\ n - (m - 1) \in 1 .. end - m + 1 /\ Len(translated) + (n - (m - 1)) = n
            /\ m + (n - (m - 1)) - 1 = n
        BY <3>2, <1>3, <1>7
      <4> QED BY <4>1, <1>5, <2>2
    <3> QED BY <3>1, <3>2
  <2> QED BY <2>2, <2>3, <2>4 DEF CountsUp
<1>11. \A n \in 1 .. Len(t) :
        \/ t[n][2] = 1 /\ (n > 1 => t[n - 1][1] < t[n][1])
        \/ n > 1 /\ t[n] = <<t[n - 1][1], t[n - 1][2] + 1>>
  BY <1>7, <1>10, CountingIsSequence
<1>12. ShownInSequence'
  BY <1>9, <1>11 DEF ShownInSequence
<1>13. \A n \in 1 .. Len(t) : t[n][1] <= rawBatch.id
  BY <1>1, <1>10 DEF CountsUp
<1>14. XlatTypes'
  BY <1>9, <1>10, <1>13 DEF XlatInv, XlatTypes
<1>15. CASE end < rawBatch.size
  <2>1. [l EXCEPT !.next = end + 1] = [id |-> rawBatch.id, size |-> rawBatch.size, next |-> end + 1]
    BY <1>4
  <2>2. loaders' = {[id |-> rawBatch.id, size |-> rawBatch.size, next |-> end + 1]}
    BY <1>3, <1>4, <1>9, <1>15, <2>1
  <2>3. PICK k : k = end + 1
    OBVIOUS
  <2>4. k \in 1 .. rawBatch.size /\ k - 1 = end
    BY <1>1, <1>7, <1>15, <2>3
  <2>5. isTranslating' = TRUE /\ listening' = 0
    BY <1>2, <1>9, <1>15 DEF IsLoading
  <2>6. /\ loaders' = {[id |-> rawBatch'.id, size |-> rawBatch'.size, next |-> k]}
        /\ Len(translated') = k - 1 /\ CountsUp(translated', rawBatch'.id) /\ k \in 1 .. rawBatch'.size
    BY <1>9, <1>10, <2>2, <2>3, <2>4
  <2>7. IsLoading'
    BY <2>5, <2>6 DEF IsLoading
  <2> QED BY <1>12, <1>14, <2>7 DEF XlatInv
<1>16. CASE ~(end < rawBatch.size)
  <2>1. end = rawBatch.size
    BY <1>1, <1>7, <1>16
  <2>2. loaders' = {} /\ isTranslating' = FALSE /\ listening' = 0
    BY <1>2, <1>3, <1>4, <1>9, <1>16 DEF IsLoading
  <2>3. EndsWith(t, rawBatch)
    <3>1. \A n \in 1 .. rawBatch.size : Len(t) - rawBatch.size + n = n
      BY <1>1, <1>10, <2>1
    <3> QED BY <1>1, <1>10, <2>1, <3>1 DEF EndsWith, CountsUp
  <2>4. IsIdle'
    BY <1>9, <1>10, <2>1, <2>2, <2>3 DEF IsIdle
  <2> QED BY <1>12, <1>14, <2>4 DEF XlatInv
<1> QED BY <1>15, <1>16

\* Every step of the translator keeps its invariant.
LEMMA XlatStep == ASSUME XlatInv, [XlatNext]_xlatvars PROVE XlatInv'
<1>1. CASE UNCHANGED xlatvars
  BY <1>1 DEF xlatvars, XlatInv, XlatTypes, ShownInSequence, IsIdle, IsAsked, IsLoading
<1> QED BY <1>1, BatchStep, WorkerStep, MessageStep, BreakStep, FrameStep DEF XlatNext

\* A batch that is done is whole at the end of the list.
LEMMA XlatFacts == XlatInv => ShownInSequence /\ DoneIsWhole /\ StuckOnlyInSilence
<1> SUFFICES ASSUME XlatInv PROVE ShownInSequence /\ DoneIsWhole /\ StuckOnlyInSilence
  OBVIOUS
<1>1. /\ translated \in Seq(ItemsOf) /\ Len(translated) \in Nat /\ DOMAIN translated = 1 .. Len(translated)
      /\ rawBatch.id \in Nat /\ rawBatch.size \in Nat
  BY LenProperties DEF XlatInv, XlatTypes, Batches
<1>2. ASSUME ~isTranslating, rawBatch.size > 0
      PROVE  /\ Len(translated) >= rawBatch.size
             /\ SubSeq(translated, Len(translated) - rawBatch.size + 1, Len(translated)) = Items(rawBatch, 1, rawBatch.size)
  <2>1. IsIdle /\ EndsWith(translated, rawBatch)
    BY <1>2 DEF XlatInv, IsIdle, IsAsked, IsLoading
  <2>2. PICK from, to, t, size : /\ from = Len(translated) - rawBatch.size + 1 /\ to = Len(translated)
                          /\ t = SubSeq(translated, from, to) /\ size = rawBatch.size
    OBVIOUS
  <2>3. /\ rawBatch.size <= Len(translated) /\ from \in Int /\ to \in Int /\ from <= to /\ to - from + 1 = size
        /\ size \in Nat /\ \A n \in from .. to : n \in 1 .. Len(translated)
    BY <1>1, <1>2, <2>1, <2>2 DEF EndsWith
  <2>4. \A n \in from .. to : translated[n] \in ItemsOf
    BY <1>1, <2>3, ElementOfSeq
  <2>5. /\ t \in Seq(ItemsOf) /\ Len(t) = size
        /\ \A n \in 1 .. size : t[n] = translated[from + n - 1]
    <3>1. /\ SubSeq(translated, from, to) \in Seq(ItemsOf)
          /\ Len(SubSeq(translated, from, to)) = IF from <= to THEN to - from + 1 ELSE 0
          /\ \A n \in 1 .. to - from + 1 : SubSeq(translated, from, to)[n] = translated[from + n - 1]
      BY <2>3, <2>4, SubSeqProperties
    <3> QED BY <2>2, <2>3, <3>1
  <2>6. PICK s : s = Items(rawBatch, 1, rawBatch.size)
    OBVIOUS
  <2>7. s \in Seq(ItemsOf) /\ Len(s) = size /\ \A n \in 1 .. size : s[n] = <<rawBatch.id, n>>
    BY <1>1, <2>2, <2>6, WholeBatch
  <2>8. ASSUME NEW n \in 1 .. size PROVE t[n] = s[n]
    <3>1. from + n - 1 = Len(translated) - rawBatch.size + n
      BY <1>1, <2>2, <2>3
    <3>2. translated[Len(translated) - rawBatch.size + n] = <<rawBatch.id, n>>
      BY <2>1, <2>2 DEF EndsWith
    <3> QED BY <2>5, <2>7, <3>1, <3>2
  <2>9. t = s
    BY <2>5, <2>7, <2>8, SeqEqual
  <2> QED BY <1>1, <2>2, <2>3, <2>6, <2>9
<1>3. ASSUME rawBatch.size > CHUNK_THRESHOLD, NEW n \in DOMAIN translated PROVE translated[n][1] = rawBatch.id
  <2>1. CASE IsIdle
    <3>1. Len(translated) - rawBatch.size + n = n
      BY <1>1, <1>3, <2>1 DEF IsIdle
    <3>2. n \in 1 .. rawBatch.size
      BY <1>1, <1>3, <2>1 DEF IsIdle
    <3>3. translated[n] = <<rawBatch.id, n>>
      BY <2>1, <3>1, <3>2 DEF IsIdle, EndsWith
    <3> QED BY <3>3
  <2>2. CASE IsAsked
    BY <1>1, <2>2 DEF IsAsked
  <2>3. CASE IsLoading
    BY <1>1, <2>3 DEF IsLoading, CountsUp
  <2> QED BY <2>1, <2>2, <2>3 DEF XlatInv
<1>4. DoneIsWhole
  BY <1>2, <1>3 DEF DoneIsWhole
<1>5. StuckOnlyInSilence
  <2>1. ASSUME isTranslating, loaders = {}, fromWorker = <<>>, toWorker = <<>> \/ workerHealth = "broken"
        PROVE  rawBatch.id \in silenced
    <3>1. IsAsked
      BY <2>1 DEF XlatInv, IsIdle, IsLoading
    <3> QED BY <2>1, <3>1 DEF IsAsked
  <2> QED BY <2>1 DEF StuckOnlyInSilence
<1> QED BY <1>4, <1>5 DEF XlatInv

\* Batches come into the list whole and in order, and the hook hangs only when the worker was silent.
THEOREM TranslatorCorrect == XlatSpec => [](ShownInSequence /\ DoneIsWhole /\ StuckOnlyInSilence)
<1> QED BY XlatInitial, XlatStep, XlatFacts, PTL DEF XlatSpec

-----------------------------------------------------------------------------
(* The search of the browser.                                            *)

Hashes == DOMAIN EventSets \cup {"none"}
CallRecords == [kind : {"build", "search", "settled"}, hash : Hashes]

SearchTypes ==
    /\ pendingCalls \in Seq(CallRecords) /\ searchCalls = Len(pendingCalls) /\ wantedHash \in Hashes
    /\ IsList(toSearch) /\ IsList(fromSearch)

\* A message is of a call that is open, and says what it is.
IsMessage(m, calls) ==
    /\ m.call \in 1 .. Len(calls)
    /\ m.kind \in {"build", "search"} /\ calls[m.call].kind = m.kind
    /\ m.kind = "build" => m.hash = calls[m.call].hash

IsReply(m, calls) == m.call \in 1 .. Len(calls) /\ calls[m.call].kind # "settled"

\* Calls that are open have one message or one answer, in the order of the calls.
SearchCarried ==
    /\ \A k \in 1 .. Len(toSearch) : IsMessage(toSearch[k], pendingCalls)
    /\ \A k \in 1 .. Len(fromSearch) : IsReply(fromSearch[k], pendingCalls)
    /\ \A j, k \in 1 .. Len(toSearch) : j < k => toSearch[j].call < toSearch[k].call
    /\ \A j, k \in 1 .. Len(fromSearch) : j < k => fromSearch[j].call < fromSearch[k].call
    /\ \A j \in 1 .. Len(fromSearch), k \in 1 .. Len(toSearch) : fromSearch[j].call < toSearch[k].call
    /\ \A n \in 1 .. Len(pendingCalls) : pendingCalls[n].kind # "settled" =>
          \/ \E k \in 1 .. Len(toSearch) : toSearch[k].call = n
          \/ \E k \in 1 .. Len(fromSearch) : fromSearch[k].call = n

NoBuildSent == \A j \in 1 .. Len(toSearch) : toSearch[j].kind # "build"
NoBuildOpen == \A n \in 1 .. Len(pendingCalls) : pendingCalls[n].kind # "build"

\* A search that waits will find the index it was asked for.
WillFind(k) ==
    toSearch[k].kind = "search" =>
        /\ (\A j \in 1 .. k - 1 : toSearch[j].kind # "build") => pendingCalls[toSearch[k].call].hash = indexed
        /\ \A j \in 1 .. k - 1 : toSearch[j].kind = "build" => pendingCalls[toSearch[k].call].hash = toSearch[j].hash

\* What the worker answered is about the index that was asked for.
HasFound(m, calls, index) ==
    /\ calls[m.call].kind = "build" => m.ok /\ calls[m.call].hash = index
    /\ calls[m.call].kind = "search" /\ m.ok => m.hash = calls[m.call].hash
    /\ calls[m.call].kind = "search" /\ ~m.ok => calls[m.call].hash = "none"

AnswerIsOwn ==
    /\ lastAnswer.kind = "search" => lastAnswer.hash = lastAnswer.asked
    /\ lastAnswer.kind = "error" => lastAnswer.asked = "none"

\* Builds that do not cross: at most one is open, and what is wanted is what it builds.
IndexIsWanted ==
    /\ \A m, n \in 1 .. Len(pendingCalls) : pendingCalls[m].kind = "build" /\ pendingCalls[n].kind = "build" => m = n
    /\ \A k \in 1 .. Len(toSearch) : WillFind(k)
    /\ NoBuildSent => wantedHash = indexed
    /\ \A j \in 1 .. Len(toSearch) : toSearch[j].kind = "build" => wantedHash = toSearch[j].hash
    /\ NoBuildOpen => builtForEventsHash = indexed
    /\ \A k \in 1 .. Len(fromSearch) : HasFound(fromSearch[k], pendingCalls, indexed)
    /\ AnswerIsOwn

SearchInv == SearchTypes /\ SearchCarried /\ (~crossedBuilds /\ ~everDestroyed => IndexIsWanted)

\* No index is built at first.
LEMMA SearchInitial == SearchInit => SearchInv
<1> SUFFICES ASSUME SearchInit PROVE SearchInv
  OBVIOUS
<1>1. /\ pendingCalls = <<>> /\ toSearch = <<>> /\ fromSearch = <<>> /\ searchCalls = 0 /\ wantedHash = "none"
      /\ builtForEventsHash = "none" /\ indexed = "none" /\ lastAnswer.kind = "none"
  BY DEF SearchInit, NoAnswer
<1>2. IsList(<<>>)
  BY EmptySeq DEF IsList
<1>3. SearchTypes
  BY <1>1, <1>2 DEF SearchTypes, Hashes
<1>4. SearchCarried
  BY <1>1 DEF SearchCarried
<1>5. IndexIsWanted
  BY <1>1 DEF IndexIsWanted, AnswerIsOwn
<1> QED BY <1>3, <1>4, <1>5 DEF SearchInv

\* A call more.
LEMMA CallAdded ==
    ASSUME SearchInv, NEW r \in CallRecords, pendingCalls' = Append(pendingCalls, r)
    PROVE  /\ pendingCalls' \in Seq(CallRecords) /\ Len(pendingCalls) \in Nat
           /\ Len(pendingCalls') = Len(pendingCalls) + 1 /\ pendingCalls'[Len(pendingCalls) + 1] = r
           /\ \A n \in 1 .. Len(pendingCalls) : pendingCalls'[n] = pendingCalls[n]
<1>1. pendingCalls \in Seq(CallRecords)
  BY DEF SearchInv, SearchTypes
<1>2. PICK u : u = Append(pendingCalls, r)
  OBVIOUS
<1>3. /\ u \in Seq(CallRecords) /\ Len(u) = Len(pendingCalls) + 1 /\ u[Len(pendingCalls) + 1] = r
      /\ \A n \in 1 .. Len(pendingCalls) : u[n] = pendingCalls[n]
  BY <1>1, <1>2, AppendProperties
<1> QED BY <1>1, <1>2, <1>3, LenProperties

\* What is under way is about calls there were.
LEMMA MessagesKeep ==
    ASSUME SearchInv, NEW len \in Nat, len = Len(pendingCalls), Len(pendingCalls') = len + 1,
           \A n \in 1 .. len : pendingCalls'[n] = pendingCalls[n]
    PROVE  /\ \A m : IsMessage(m, pendingCalls) => IsMessage(m, pendingCalls') /\ m.call \in 1 .. len
           /\ \A m : IsReply(m, pendingCalls) => IsReply(m, pendingCalls') /\ m.call \in 1 .. len
<1>1. \A n \in 1 .. len : n \in 1 .. len + 1
  OBVIOUS
<1>2. ASSUME NEW m, IsMessage(m, pendingCalls) PROVE IsMessage(m, pendingCalls') /\ m.call \in 1 .. len
  BY <1>1, <1>2 DEF IsMessage
<1>3. ASSUME NEW m, IsReply(m, pendingCalls) PROVE IsReply(m, pendingCalls') /\ m.call \in 1 .. len
  BY <1>1, <1>3 DEF IsReply
<1> QED BY <1>2, <1>3

\* A call with a message behind those there are.
LEMMA RequestCarried ==
    ASSUME SearchInv, NEW kind \in {"build", "search"}, NEW h \in Hashes, NEW q, NEW c, request(kind, h, q, c)
    PROVE  \E m, len, to :
        /\ len = Len(pendingCalls) /\ len \in Nat /\ to = Len(toSearch) /\ to \in Nat
        /\ m.call = len + 1 /\ m.kind = kind /\ m.hash = h
        /\ pendingCalls' \in Seq(CallRecords) /\ Len(pendingCalls') = len + 1 /\ searchCalls' = len + 1
        /\ pendingCalls'[len + 1].kind = kind /\ pendingCalls'[len + 1].hash = h
        /\ \A n \in 1 .. len : pendingCalls'[n] = pendingCalls[n]
        /\ IsList(toSearch') /\ Len(toSearch') = to + 1 /\ toSearch'[to + 1] = m
        /\ \A n \in 1 .. to : toSearch'[n] = toSearch[n]
        /\ UNCHANGED <<fromSearch, indexed, lastAnswer, everDestroyed>>
<1>1. PICK r, m : /\ r = [kind |-> kind, hash |-> h]
               /\ m = [call |-> searchCalls + 1, kind |-> kind, hash |-> h, query |-> q, contract |-> c]
  OBVIOUS
<1>2. /\ pendingCalls' = Append(pendingCalls, r) /\ toSearch' = Append(toSearch, m) /\ searchCalls' = searchCalls + 1
      /\ UNCHANGED <<fromSearch, indexed, lastAnswer, everDestroyed>>
  BY <1>1 DEF request
<1>3. r \in CallRecords /\ r.kind = kind /\ r.hash = h /\ m.call = searchCalls + 1 /\ m.kind = kind /\ m.hash = h
  BY <1>1 DEF CallRecords
<1>4. /\ pendingCalls' \in Seq(CallRecords) /\ Len(pendingCalls) \in Nat
      /\ Len(pendingCalls') = Len(pendingCalls) + 1 /\ pendingCalls'[Len(pendingCalls) + 1] = r
      /\ \A n \in 1 .. Len(pendingCalls) : pendingCalls'[n] = pendingCalls[n]
  BY <1>2, <1>3, CallAdded
<1>5. searchCalls = Len(pendingCalls) /\ IsList(toSearch)
  BY DEF SearchInv, SearchTypes
<1>6. /\ IsList(Append(toSearch, m)) /\ Len(Append(toSearch, m)) = Len(toSearch) + 1
      /\ Append(toSearch, m)[Len(toSearch) + 1] = m
      /\ \A n \in 1 .. Len(toSearch) : Append(toSearch, m)[n] = toSearch[n]
  BY <1>5, ListAppended
<1>7. Len(toSearch) \in Nat
  BY <1>5, ListFacts
<1>8. PICK len, to : len = Len(pendingCalls) /\ to = Len(toSearch)
  OBVIOUS
<1>9. /\ len = Len(pendingCalls) /\ len \in Nat /\ to = Len(toSearch) /\ to \in Nat
      /\ m.call = len + 1 /\ m.kind = kind /\ m.hash = h
      /\ pendingCalls' \in Seq(CallRecords) /\ Len(pendingCalls') = len + 1 /\ searchCalls' = len + 1
      /\ pendingCalls'[len + 1].kind = kind /\ pendingCalls'[len + 1].hash = h
      /\ \A n \in 1 .. len : pendingCalls'[n] = pendingCalls[n]
      /\ IsList(toSearch') /\ Len(toSearch') = to + 1 /\ toSearch'[to + 1] = m
      /\ \A n \in 1 .. to : toSearch'[n] = toSearch[n]
      /\ UNCHANGED <<fromSearch, indexed, lastAnswer, everDestroyed>>
  BY <1>2, <1>3, <1>4, <1>5, <1>6, <1>7, <1>8
<1> QED BY <1>9

\* What a request to the worker adds to what is pending.
LEMMA RequestKeeps ==
    ASSUME SearchInv, NEW kind \in {"build", "search"}, NEW h \in Hashes, NEW m, NEW len \in Nat, NEW to \in Nat,
           len = Len(pendingCalls), to = Len(toSearch),
           m.call = len + 1, m.kind = kind, m.hash = h,
           pendingCalls' \in Seq(CallRecords), Len(pendingCalls') = len + 1, searchCalls' = len + 1,
           pendingCalls'[len + 1].kind = kind, pendingCalls'[len + 1].hash = h,
           \A n \in 1 .. len : pendingCalls'[n] = pendingCalls[n],
           IsList(toSearch'), Len(toSearch') = to + 1, toSearch'[to + 1] = m,
           \A n \in 1 .. to : toSearch'[n] = toSearch[n],
           UNCHANGED fromSearch, wantedHash' \in Hashes
    PROVE  SearchTypes' /\ SearchCarried'
<1>1. SearchTypes'
  BY DEF SearchInv, SearchTypes
<1>2. \A n \in 1 .. len + 1 : n = len + 1 \/ n \in 1 .. len
  OBVIOUS
<1>3. \A n \in 1 .. to + 1 : n = to + 1 \/ n \in 1 .. to
  OBVIOUS
<1>4. IsMessage(m, pendingCalls')
  <2>1. len + 1 \in 1 .. len + 1
    OBVIOUS
  <2> QED BY <2>1 DEF IsMessage
<1>5. /\ \A x : IsMessage(x, pendingCalls) => IsMessage(x, pendingCalls') /\ x.call \in 1 .. len
      /\ \A x : IsReply(x, pendingCalls) => IsReply(x, pendingCalls') /\ x.call \in 1 .. len
  BY MessagesKeep
<1>6. SearchCarried
  BY DEF SearchInv
<1>7. \A k \in 1 .. to + 1 : IsMessage(toSearch'[k], pendingCalls')
  <2>1. ASSUME NEW k \in 1 .. to PROVE IsMessage(toSearch'[k], pendingCalls')
    <3>1. IsMessage(toSearch[k], pendingCalls) /\ toSearch'[k] = toSearch[k]
      BY <1>6 DEF SearchCarried
    <3>2. PICK x : x = toSearch[k]
      OBVIOUS
    <3>3. IsMessage(x, pendingCalls')
      BY <3>1, <3>2, <1>5
    <3> QED BY <3>1, <3>2, <3>3 DEF IsMessage
  <2> QED BY <2>1, <1>3, <1>4 DEF IsMessage
<1>8. \A k \in 1 .. Len(fromSearch) : IsReply(fromSearch[k], pendingCalls')
  <2>1. ASSUME NEW k \in 1 .. Len(fromSearch) PROVE IsReply(fromSearch[k], pendingCalls')
    <3>1. IsReply(fromSearch[k], pendingCalls)
      BY <1>6 DEF SearchCarried
    <3>2. PICK x : x = fromSearch[k]
      OBVIOUS
    <3>3. IsReply(x, pendingCalls')
      BY <3>1, <3>2, <1>5
    <3> QED BY <3>2, <3>3 DEF IsReply
  <2> QED BY <2>1
<1>9. ASSUME NEW j \in 1 .. to + 1, NEW k \in 1 .. to + 1, j < k PROVE toSearch'[j].call < toSearch'[k].call
  <2>1. j \in 1 .. to
    BY <1>9
  <2>2. toSearch'[j] = toSearch[j] /\ toSearch[j].call \in 1 .. len
    BY <2>1, <1>6 DEF SearchCarried, IsMessage
  <2>3. CASE k = to + 1
    <3>1. toSearch'[k].call = len + 1
      BY <2>3
    <3> QED BY <2>2, <3>1
  <2>4. CASE k \in 1 .. to
    BY <2>1, <2>4, <1>6, <1>9 DEF SearchCarried
  <2> QED BY <1>3, <2>3, <2>4
<1>10. ASSUME NEW j \in 1 .. Len(fromSearch), NEW k \in 1 .. to + 1 PROVE fromSearch[j].call < toSearch'[k].call
  <2>1. fromSearch[j].call \in 1 .. len
    BY <1>6 DEF SearchCarried, IsReply
  <2>2. CASE k = to + 1
    <3>1. toSearch'[k].call = len + 1
      BY <2>2
    <3> QED BY <2>1, <3>1
  <2>3. CASE k \in 1 .. to
    BY <2>3, <1>6 DEF SearchCarried
  <2> QED BY <1>3, <2>2, <2>3
<1>11. ASSUME NEW n \in 1 .. len + 1, pendingCalls'[n].kind # "settled"
       PROVE  (\E k \in 1 .. to + 1 : toSearch'[k].call = n) \/ (\E k \in 1 .. Len(fromSearch) : fromSearch[k].call = n)
  <2>1. CASE n = len + 1
    <3>1. to + 1 \in 1 .. to + 1
      OBVIOUS
    <3> QED BY <2>1, <3>1
  <2>2. CASE n \in 1 .. len
    <3>1. (\E k \in 1 .. to : toSearch[k].call = n) \/ (\E k \in 1 .. Len(fromSearch) : fromSearch[k].call = n)
      BY <2>2, <1>6, <1>11 DEF SearchCarried
    <3>2. \A k \in 1 .. to : k \in 1 .. to + 1 /\ toSearch'[k] = toSearch[k]
      OBVIOUS
    <3> QED BY <3>1, <3>2
  <2> QED BY <1>2, <2>1, <2>2
<1>12. SearchCarried'
  BY <1>6, <1>7, <1>8, <1>9, <1>10, <1>11 DEF SearchCarried
<1> QED BY <1>1, <1>12

\* A search asks the worker.
LEMMA SearchRequest == ASSUME SearchInv, NEW q, NEW c, search(q, c) PROVE SearchInv'
<1>1. request("search", wantedHash, q, c) /\ UNCHANGED <<builtForEventsHash, crossedBuilds, wantedHash>> /\ wantedHash \in Hashes
  BY DEF search, SearchInv, SearchTypes
<1>2. PICK m, len, to :
        /\ len = Len(pendingCalls) /\ len \in Nat /\ to = Len(toSearch) /\ to \in Nat
        /\ m.call = len + 1 /\ m.kind = "search" /\ m.hash = wantedHash
        /\ pendingCalls' \in Seq(CallRecords) /\ Len(pendingCalls') = len + 1 /\ searchCalls' = len + 1
        /\ pendingCalls'[len + 1].kind = "search" /\ pendingCalls'[len + 1].hash = wantedHash
        /\ \A n \in 1 .. len : pendingCalls'[n] = pendingCalls[n]
        /\ IsList(toSearch') /\ Len(toSearch') = to + 1 /\ toSearch'[to + 1] = m
        /\ \A n \in 1 .. to : toSearch'[n] = toSearch[n]
        /\ UNCHANGED <<fromSearch, indexed, lastAnswer, everDestroyed>>
  BY <1>1, RequestCarried
<1>5. wantedHash \in Hashes /\ wantedHash' \in Hashes /\ "search" \in {"build", "search"}
  BY <1>1
<1>6. SearchInv
  OBVIOUS
<1>3. SearchTypes' /\ SearchCarried'
  BY ONLY <1>2, <1>5, <1>6, RequestKeeps
<1>4. ASSUME ~crossedBuilds', ~everDestroyed' PROVE IndexIsWanted'
  <2>1. IndexIsWanted
    BY <1>1, <1>2, <1>4 DEF SearchInv
  <2>2. /\ \A n \in 1 .. len + 1 : n = len + 1 \/ n \in 1 .. len
        /\ \A n \in 1 .. to + 1 : n = to + 1 \/ n \in 1 .. to
        /\ \A n \in 1 .. to : n \in 1 .. to + 1
    BY <1>2
  <2>3. \A k \in 1 .. to : toSearch[k].call \in 1 .. len
    BY <1>2 DEF SearchInv, SearchCarried, IsMessage
  <2>4. \A k \in 1 .. Len(fromSearch) : fromSearch[k].call \in 1 .. len
    BY <1>2 DEF SearchInv, SearchCarried, IsReply
  <2>5. ASSUME NEW k \in 1 .. to PROVE WillFind(k)'
    <3>1. WillFind(k) /\ toSearch'[k] = toSearch[k] /\ pendingCalls'[toSearch[k].call] = pendingCalls[toSearch[k].call]
      BY <1>2, <2>1, <2>3 DEF IndexIsWanted
    <3>2. \A j \in 1 .. k - 1 : toSearch'[j] = toSearch[j]
      BY <1>2
    <3> QED BY <1>2, <3>1, <3>2 DEF WillFind
  <2>6. WillFind(to + 1)'
    <3>1. (to + 1) - 1 = to
      BY <1>2
    <3>2. \A j \in 1 .. to : toSearch'[j].kind = "build" => wantedHash = toSearch'[j].hash
      BY <1>2, <2>1 DEF IndexIsWanted
    <3>3. (\A j \in 1 .. to : toSearch'[j].kind # "build") => wantedHash = indexed
      BY <1>2, <2>1 DEF IndexIsWanted, NoBuildSent
    <3> QED BY <1>2, <3>1, <3>2, <3>3 DEF WillFind
  <2>7. \A m1, n1 \in 1 .. len + 1 : pendingCalls'[m1].kind = "build" /\ pendingCalls'[n1].kind = "build" => m1 = n1
    BY <1>2, <2>1, <2>2 DEF IndexIsWanted
  <2>8. NoBuildSent' => wantedHash' = indexed'
    BY <1>1, <1>2, <2>1, <2>2 DEF IndexIsWanted, NoBuildSent
  <2>9. \A j \in 1 .. to + 1 : toSearch'[j].kind = "build" => wantedHash' = toSearch'[j].hash
    BY <1>1, <1>2, <2>1, <2>2 DEF IndexIsWanted
  <2>10. NoBuildOpen' => builtForEventsHash' = indexed'
    <3>1. \A n \in 1 .. len : n \in 1 .. len + 1
      BY <1>2
    <3> QED BY <1>1, <1>2, <2>1, <3>1 DEF IndexIsWanted, NoBuildOpen
  <2>11. \A k \in 1 .. Len(fromSearch) : HasFound(fromSearch[k], pendingCalls', indexed')
    BY <1>2, <2>1, <2>4 DEF IndexIsWanted, HasFound
  <2>12. AnswerIsOwn'
    BY <1>2, <2>1 DEF IndexIsWanted, AnswerIsOwn
  <2>13. \A k \in 1 .. to + 1 : WillFind(k)'
    BY <2>2, <2>5, <2>6
  <2> QED BY <1>2, <2>7, <2>8, <2>9, <2>10, <2>11, <2>12, <2>13 DEF IndexIsWanted
<1> QED BY <1>3, <1>4 DEF SearchInv

\* An index is built of a new set of events.
LEMMA BuildRequest == ASSUME SearchInv, NEW h \in DOMAIN EventSets, buildIndex(h) PROVE SearchInv'
<1>1. /\ request("build", h, <<>>, "any") /\ UNCHANGED builtForEventsHash /\ wantedHash' = h /\ h \in Hashes
      /\ crossedBuilds' = (crossedBuilds \/ \E n \in DOMAIN pendingCalls : pendingCalls[n].kind = "build")
  BY DEF buildIndex, Hashes
<1>2. PICK m, len, to :
        /\ len = Len(pendingCalls) /\ len \in Nat /\ to = Len(toSearch) /\ to \in Nat
        /\ m.call = len + 1 /\ m.kind = "build" /\ m.hash = h
        /\ pendingCalls' \in Seq(CallRecords) /\ Len(pendingCalls') = len + 1 /\ searchCalls' = len + 1
        /\ pendingCalls'[len + 1].kind = "build" /\ pendingCalls'[len + 1].hash = h
        /\ \A n \in 1 .. len : pendingCalls'[n] = pendingCalls[n]
        /\ IsList(toSearch') /\ Len(toSearch') = to + 1 /\ toSearch'[to + 1] = m
        /\ \A n \in 1 .. to : toSearch'[n] = toSearch[n]
        /\ UNCHANGED <<fromSearch, indexed, lastAnswer, everDestroyed>>
  BY <1>1, RequestCarried
<1>5. h \in Hashes /\ wantedHash' \in Hashes /\ "build" \in {"build", "search"}
  BY <1>1
<1>6. SearchInv
  OBVIOUS
<1>3. SearchTypes' /\ SearchCarried'
  BY ONLY <1>2, <1>5, <1>6, RequestKeeps
<1>4. ASSUME ~crossedBuilds', ~everDestroyed' PROVE IndexIsWanted'
  <2>0. DOMAIN pendingCalls = 1 .. len
    BY <1>2, LenProperties DEF SearchInv, SearchTypes
  <2>1. IndexIsWanted /\ \A n \in 1 .. len : pendingCalls[n].kind # "build"
    BY <1>1, <1>2, <1>4, <2>0 DEF SearchInv
  <2>2. /\ \A n \in 1 .. len + 1 : n = len + 1 \/ n \in 1 .. len
        /\ \A n \in 1 .. to + 1 : n = to + 1 \/ n \in 1 .. to
        /\ to + 1 \in 1 .. to + 1 /\ len + 1 \in 1 .. len + 1
    BY <1>2
  <2>3. \A k \in 1 .. to : toSearch[k].call \in 1 .. len /\ toSearch[k].kind # "build"
    BY <1>2, <2>1 DEF SearchInv, SearchCarried, IsMessage
  <2>4. \A k \in 1 .. Len(fromSearch) : fromSearch[k].call \in 1 .. len
    BY <1>2 DEF SearchInv, SearchCarried, IsReply
  <2>5. ASSUME NEW k \in 1 .. to PROVE WillFind(k)'
    <3>1. WillFind(k) /\ toSearch'[k] = toSearch[k] /\ pendingCalls'[toSearch[k].call] = pendingCalls[toSearch[k].call]
      BY <1>2, <2>1, <2>3 DEF IndexIsWanted
    <3>2. \A j \in 1 .. k - 1 : toSearch'[j] = toSearch[j]
      BY <1>2
    <3> QED BY <1>2, <3>1, <3>2 DEF WillFind
  <2>6. WillFind(to + 1)'
    BY <1>2 DEF WillFind
  <2>7. \A m1, n1 \in 1 .. len + 1 : pendingCalls'[m1].kind = "build" /\ pendingCalls'[n1].kind = "build" => m1 = n1
    BY <1>2, <2>1, <2>2
  <2>8. ~NoBuildSent'
    BY <1>2, <2>2 DEF NoBuildSent
  <2>9. \A j \in 1 .. to + 1 : toSearch'[j].kind = "build" => wantedHash' = toSearch'[j].hash
    BY <1>1, <1>2, <2>2, <2>3
  <2>10. ~NoBuildOpen'
    BY <1>2, <2>2 DEF NoBuildOpen
  <2>11. \A k \in 1 .. Len(fromSearch) : HasFound(fromSearch[k], pendingCalls', indexed')
    BY <1>2, <2>1, <2>4 DEF IndexIsWanted, HasFound
  <2>12. AnswerIsOwn'
    BY <1>2, <2>1 DEF IndexIsWanted, AnswerIsOwn
  <2>13. \A k \in 1 .. to + 1 : WillFind(k)'
    BY <2>2, <2>5, <2>6
  <2> QED BY <1>2, <2>7, <2>8, <2>9, <2>10, <2>11, <2>12, <2>13 DEF IndexIsWanted
<1> QED BY <1>3, <1>4 DEF SearchInv

\* An index of the set it already has is not built again.
LEMMA BuildSkipped == ASSUME SearchInv, NEW h \in DOMAIN EventSets, buildIndexAgain(h) PROVE SearchInv'
<1>1. PICK r : r = [kind |-> "settled", hash |-> h]
  OBVIOUS
<1>2. /\ h = builtForEventsHash /\ wantedHash' = h /\ searchCalls' = searchCalls + 1
      /\ pendingCalls' = Append(pendingCalls, r)
      /\ crossedBuilds' = (crossedBuilds \/ \E n \in DOMAIN pendingCalls : pendingCalls[n].kind = "build")
      /\ UNCHANGED <<builtForEventsHash, toSearch, fromSearch, indexed, lastAnswer, everDestroyed>>
  BY <1>1 DEF buildIndexAgain
<1>3. r \in CallRecords /\ r.kind = "settled" /\ h \in Hashes
  BY <1>1 DEF CallRecords, Hashes
<1>4. PICK len : len = Len(pendingCalls)
  OBVIOUS
<1>5. /\ pendingCalls' \in Seq(CallRecords) /\ len \in Nat
      /\ Len(pendingCalls') = len + 1 /\ pendingCalls'[len + 1] = r
      /\ \A n \in 1 .. len : pendingCalls'[n] = pendingCalls[n]
  BY <1>2, <1>3, <1>4, CallAdded
<1>6. SearchTypes'
  BY <1>2, <1>3, <1>4, <1>5 DEF SearchInv, SearchTypes
<1>7. SearchCarried
  BY DEF SearchInv
<1>8. /\ \A x : IsMessage(x, pendingCalls) => IsMessage(x, pendingCalls') /\ x.call \in 1 .. len
      /\ \A x : IsReply(x, pendingCalls) => IsReply(x, pendingCalls') /\ x.call \in 1 .. len
  BY <1>4, <1>5, MessagesKeep
<1>9. \A k \in 1 .. Len(toSearch) : IsMessage(toSearch[k], pendingCalls')
  <2>1. ASSUME NEW k \in 1 .. Len(toSearch) PROVE IsMessage(toSearch[k], pendingCalls')
    <3>1. PICK x : x = toSearch[k]
      OBVIOUS
    <3>2. IsMessage(x, pendingCalls')
      BY <3>1, <1>7, <1>8 DEF SearchCarried
    <3> QED BY <1>2, <3>1, <3>2 DEF IsMessage
  <2> QED BY <2>1
<1>10. \A k \in 1 .. Len(fromSearch) : IsReply(fromSearch[k], pendingCalls')
  <2>1. ASSUME NEW k \in 1 .. Len(fromSearch) PROVE IsReply(fromSearch[k], pendingCalls')
    <3>1. PICK x : x = fromSearch[k]
      OBVIOUS
    <3>2. IsReply(x, pendingCalls')
      BY <3>1, <1>7, <1>8 DEF SearchCarried
    <3> QED BY <1>2, <3>1, <3>2 DEF IsReply
  <2> QED BY <2>1
<1>11. \A n \in 1 .. len + 1 : n = len + 1 \/ n \in 1 .. len
  BY <1>5
<1>12. \A n \in 1 .. len + 1 : pendingCalls'[n].kind # "settled" =>
          \/ \E k \in 1 .. Len(toSearch) : toSearch[k].call = n
          \/ \E k \in 1 .. Len(fromSearch) : fromSearch[k].call = n
  BY <1>3, <1>4, <1>5, <1>7, <1>11 DEF SearchCarried
<1>13. SearchCarried'
  BY <1>2, <1>5, <1>7, <1>9, <1>10, <1>12 DEF SearchCarried
<1>14. ASSUME ~crossedBuilds', ~everDestroyed' PROVE IndexIsWanted'
  <2>0. DOMAIN pendingCalls = 1 .. len
    BY <1>4, LenProperties DEF SearchInv, SearchTypes
  <2>1. IndexIsWanted /\ \A n \in 1 .. len : pendingCalls[n].kind # "build"
    BY <1>2, <1>14, <2>0 DEF SearchInv
  <2>2. builtForEventsHash = indexed
    BY <1>4, <2>1 DEF IndexIsWanted, NoBuildOpen
  <2>3. \A k \in 1 .. Len(toSearch) : toSearch[k].call \in 1 .. len /\ toSearch[k].kind # "build"
    BY <1>4, <1>7, <2>1 DEF SearchCarried, IsMessage
  <2>4. \A k \in 1 .. Len(fromSearch) : fromSearch[k].call \in 1 .. len
    BY <1>4, <1>7 DEF SearchCarried, IsReply
  <2>5. \A k \in 1 .. Len(toSearch) : WillFind(k)'
    BY <1>2, <1>5, <2>1, <2>3 DEF IndexIsWanted, WillFind
  <2>6. \A m1, n1 \in 1 .. len + 1 : pendingCalls'[m1].kind = "build" /\ pendingCalls'[n1].kind = "build" => m1 = n1
    BY <1>3, <1>5, <1>11, <2>1
  <2>7. \A k \in 1 .. Len(fromSearch) : HasFound(fromSearch[k], pendingCalls', indexed')
    BY <1>2, <1>5, <2>1, <2>4 DEF IndexIsWanted, HasFound
  <2>8. AnswerIsOwn'
    BY <1>2, <2>1 DEF IndexIsWanted, AnswerIsOwn
  <2> QED BY <1>2, <1>5, <2>2, <2>3, <2>5, <2>6, <2>7, <2>8 DEF IndexIsWanted
<1> QED BY <1>6, <1>13, <1>14 DEF SearchInv

\* The worker handles the oldest call.
LEMMA HandleCallStep == ASSUME SearchInv, WorkerHandles PROVE SearchInv'
<1>1. PICK m, ok, hits : /\ m = Head(toSearch) /\ ok = (m.kind = "build" \/ indexed # "none")
               /\ hits = IF m.kind = "search" /\ ok THEN scoreDocuments(EventSets[indexed], m.query, m.contract) ELSE <<>>
  OBVIOUS
<1>2. PICK a : a = [call |-> m.call, ok |-> ok, hash |-> indexed', query |-> m.query, contract |-> m.contract, hits |-> hits]
  OBVIOUS
<1>3. /\ toSearch # <<>> /\ toSearch' = Tail(toSearch)
      /\ indexed' = (IF m.kind = "build" THEN m.hash ELSE indexed)
      /\ fromSearch' = Append(fromSearch, a)
      /\ UNCHANGED <<builtForEventsHash, pendingCalls, lastAnswer, searchCalls, crossedBuilds, everDestroyed, wantedHash>>
  BY <1>1, <1>2 DEF WorkerHandles
<1>4. a.call = m.call /\ a.ok = ok /\ a.hash = indexed'
  BY <1>2
<1>5. IsList(toSearch) /\ IsList(fromSearch)
  BY DEF SearchInv, SearchTypes
<1>6. PICK to, from, left, come :
        to = Len(toSearch) /\ from = Len(fromSearch) /\ left = Tail(toSearch) /\ come = Append(fromSearch, a)
  OBVIOUS
<1>7. to \in Nat /\ to # 0 /\ from \in Nat
  BY <1>3, <1>5, <1>6, ListFacts
<1>8. /\ IsList(left) /\ Len(left) = to - 1 /\ m = toSearch[1]
      /\ \A n \in 1 .. to - 1 : left[n] = toSearch[n + 1]
  BY <1>1, <1>3, <1>5, <1>6, ListTail
<1>9. /\ IsList(come) /\ Len(come) = from + 1 /\ come[from + 1] = a
      /\ \A n \in 1 .. from : come[n] = fromSearch[n]
  BY <1>5, <1>6, ListAppended
<1>10. toSearch' = left /\ fromSearch' = come
  BY <1>3, <1>6
<1>11. SearchTypes'
  BY <1>3, <1>8, <1>9, <1>10 DEF SearchInv, SearchTypes
<1>12. SearchCarried
  BY DEF SearchInv
<1>13. /\ \A n \in 1 .. from + 1 : n = from + 1 \/ n \in 1 .. from
       /\ \A n \in 1 .. to - 1 : n + 1 \in 1 .. to /\ n + 1 # 1
       /\ \A n \in 1 .. to : n # 1 => n - 1 \in 1 .. to - 1 /\ (n - 1) + 1 = n
       /\ 1 \in 1 .. to /\ from + 1 \in 1 .. from + 1 /\ \A n \in 1 .. from : n \in 1 .. from + 1
  BY <1>7
<1>14. IsMessage(m, pendingCalls) /\ m.kind \in {"build", "search"} /\ IsReply(a, pendingCalls)
  <2>1. IsMessage(m, pendingCalls)
    BY <1>6, <1>8, <1>12, <1>13 DEF SearchCarried
  <2> QED BY <2>1, <1>4 DEF IsMessage, IsReply
<1>15. \A k \in 1 .. to - 1 : IsMessage(left[k], pendingCalls)
  BY <1>6, <1>8, <1>12, <1>13 DEF SearchCarried
<1>16. \A k \in 1 .. from + 1 : IsReply(come[k], pendingCalls)
  BY <1>6, <1>9, <1>12, <1>13, <1>14 DEF SearchCarried
<1>17. \A j, k \in 1 .. to - 1 : j < k => left[j].call < left[k].call
  <2>1. ASSUME NEW j \in 1 .. to - 1, NEW k \in 1 .. to - 1, j < k PROVE left[j].call < left[k].call
    <3>1. j + 1 < k + 1 /\ left[j] = toSearch[j + 1] /\ left[k] = toSearch[k + 1]
      BY <2>1, <1>7, <1>8
    <3> QED BY <3>1, <1>6, <1>12, <1>13 DEF SearchCarried
  <2> QED BY <2>1
<1>18. \A j \in 1 .. from : fromSearch[j].call < m.call
  BY <1>6, <1>8, <1>12, <1>13 DEF SearchCarried
<1>19. \A k \in 1 .. to - 1 : m.call < left[k].call
  <2>1. ASSUME NEW k \in 1 .. to - 1 PROVE m.call < left[k].call
    <3>1. 1 < k + 1 /\ left[k] = toSearch[k + 1]
      BY <1>7, <1>8
    <3> QED BY <3>1, <1>6, <1>8, <1>12, <1>13 DEF SearchCarried
  <2> QED BY <2>1
<1>20. \A j, k \in 1 .. from + 1 : j < k => come[j].call < come[k].call
  <2>1. ASSUME NEW j \in 1 .. from + 1, NEW k \in 1 .. from + 1, j < k PROVE come[j].call < come[k].call
    <3>1. j \in 1 .. from /\ come[j] = fromSearch[j]
      BY <2>1, <1>7, <1>9
    <3>2. CASE k = from + 1
      BY <3>1, <3>2, <1>4, <1>9, <1>18
    <3>3. CASE k \in 1 .. from
      BY <2>1, <3>1, <3>3, <1>6, <1>9, <1>12 DEF SearchCarried
    <3> QED BY <3>2, <3>3, <1>13
  <2> QED BY <2>1
<1>21. \A j \in 1 .. from + 1, k \in 1 .. to - 1 : come[j].call < left[k].call
  BY <1>4, <1>6, <1>8, <1>9, <1>12, <1>13, <1>19 DEF SearchCarried
<1>22. \A n \in 1 .. Len(pendingCalls) : pendingCalls[n].kind # "settled" =>
          (\E k \in 1 .. to - 1 : left[k].call = n) \/ (\E k \in 1 .. from + 1 : come[k].call = n)
  <2>1. ASSUME NEW n \in 1 .. Len(pendingCalls), pendingCalls[n].kind # "settled"
        PROVE  (\E k \in 1 .. to - 1 : left[k].call = n) \/ (\E k \in 1 .. from + 1 : come[k].call = n)
    <3>1. CASE \E k \in 1 .. to : toSearch[k].call = n
      <4>1. PICK k \in 1 .. to : toSearch[k].call = n
        BY <3>1
      <4>2. CASE k = 1
        BY <4>1, <4>2, <1>4, <1>8, <1>9, <1>13
      <4>3. CASE k # 1
        BY <4>1, <4>3, <1>8, <1>13
      <4> QED BY <4>2, <4>3
    <3>2. CASE \E k \in 1 .. from : fromSearch[k].call = n
      BY <3>2, <1>9, <1>13
    <3> QED BY <2>1, <3>1, <3>2, <1>6, <1>12 DEF SearchCarried
  <2> QED BY <2>1
<1>23. SearchCarried'
  <2>2. \A k \in 1 .. to - 1 : IsMessage(left[k], pendingCalls')
    <3>1. ASSUME NEW k \in 1 .. to - 1 PROVE IsMessage(left[k], pendingCalls')
      <4>1. IsMessage(left[k], pendingCalls)
        BY <1>15
      <4> QED BY <4>1, <1>3 DEF IsMessage
    <3> QED BY <3>1
  <2>3. \A k \in 1 .. from + 1 : IsReply(come[k], pendingCalls')
    <3>1. ASSUME NEW k \in 1 .. from + 1 PROVE IsReply(come[k], pendingCalls')
      <4>1. IsReply(come[k], pendingCalls)
        BY <1>16
      <4> QED BY <4>1, <1>3 DEF IsReply
    <3> QED BY <3>1
  <2> QED BY <1>3, <1>8, <1>9, <1>10, <1>17, <1>20, <1>21, <1>22, <2>2, <2>3 DEF SearchCarried
<1>24. ASSUME ~crossedBuilds', ~everDestroyed' PROVE IndexIsWanted'
  <2>1. IndexIsWanted
    BY <1>3, <1>24 DEF SearchInv
  <2>2. AnswerIsOwn'
    BY <1>3, <2>1 DEF IndexIsWanted, AnswerIsOwn
  <2>3. CASE m.kind = "search"
    <3>1. indexed' = indexed
      BY <1>3, <2>3
    <3>2. WillFind(1)
      BY <1>6, <1>13, <2>1 DEF IndexIsWanted
    <3>3. pendingCalls[m.call].hash = indexed
      <4>1. \A j \in 1 .. 1 - 1 : toSearch[j].kind # "build"
        OBVIOUS
      <4> QED BY <3>2, <4>1, <1>8, <2>3 DEF WillFind
    <3>4. HasFound(a, pendingCalls', indexed')
      <4>1. pendingCalls'[a.call].kind = "search" /\ pendingCalls'[a.call].hash = indexed
        BY <1>3, <1>4, <1>14, <2>3, <3>3 DEF IsMessage
      <4>2. a.hash = indexed /\ (a.ok <=> indexed # "none")
        BY <1>1, <1>4, <2>3, <3>1
      <4> QED BY <4>1, <4>2 DEF HasFound
    <3>5. ASSUME NEW k \in 1 .. from PROVE HasFound(fromSearch[k], pendingCalls', indexed')
      BY <1>3, <1>6, <2>1, <3>1 DEF IndexIsWanted, HasFound
    <3>6. \A k \in 1 .. from + 1 : HasFound(come[k], pendingCalls', indexed')
      BY <3>4, <3>5, <1>9, <1>13 DEF HasFound
    <3>7. ASSUME NEW k \in 1 .. to - 1 PROVE WillFind(k)'
      <4>1. WillFind(k + 1) /\ left[k] = toSearch[k + 1] /\ (k + 1) - 1 = k
        BY <1>6, <1>7, <1>8, <1>13, <2>1 DEF IndexIsWanted
      <4>2. \A j \in 1 .. k - 1 : left[j] = toSearch[j + 1] /\ j + 1 \in 1 .. k
        BY <1>7, <1>8
      <4>3. ASSUME left[k].kind = "search", \A j \in 1 .. k - 1 : left[j].kind # "build"
            PROVE  pendingCalls[left[k].call].hash = indexed
        <5>1. ASSUME NEW j \in 1 .. k PROVE toSearch[j].kind # "build"
          <6>1. CASE j = 1
            BY <6>1, <1>8, <2>3
          <6>2. CASE j # 1
            <7>1. j - 1 \in 1 .. k - 1 /\ (j - 1) + 1 = j
              BY <6>2, <1>7
            <7> QED BY <7>1, <4>2, <4>3
          <6> QED BY <6>1, <6>2
        <5> QED BY <5>1, <4>1, <4>3 DEF WillFind
      <4>4. ASSUME left[k].kind = "search", NEW j \in 1 .. k - 1, left[j].kind = "build"
            PROVE  pendingCalls[left[k].call].hash = left[j].hash
        BY <4>1, <4>2, <4>4 DEF WillFind
      <4> QED BY <1>3, <1>10, <3>1, <4>3, <4>4 DEF WillFind
    <3>8. NoBuildSent' => wantedHash' = indexed'
      <4>1. ASSUME NoBuildSent' PROVE NoBuildSent
        <5>1. ASSUME NEW j \in 1 .. to PROVE toSearch[j].kind # "build"
          <6>1. CASE j = 1
            BY <6>1, <1>8, <2>3
          <6>2. CASE j # 1
            <7>1. j - 1 \in 1 .. to - 1 /\ (j - 1) + 1 = j
              BY <6>2, <1>13
            <7> QED BY <7>1, <1>8, <1>10, <4>1 DEF NoBuildSent
          <6> QED BY <6>1, <6>2
        <5> QED BY <5>1, <1>6 DEF NoBuildSent
      <4> QED BY <4>1, <1>3, <2>1, <3>1 DEF IndexIsWanted
    <3>9. \A j \in 1 .. to - 1 : left[j].kind = "build" => wantedHash = left[j].hash
      BY <1>6, <1>8, <1>13, <2>1 DEF IndexIsWanted
    <3>10. NoBuildOpen' => builtForEventsHash' = indexed'
      BY <1>3, <2>1, <3>1 DEF IndexIsWanted, NoBuildOpen
    <3>11. \A m1, n1 \in 1 .. Len(pendingCalls') :
             pendingCalls'[m1].kind = "build" /\ pendingCalls'[n1].kind = "build" => m1 = n1
      BY <1>3, <2>1 DEF IndexIsWanted
    <3> QED BY <1>3, <1>8, <1>9, <1>10, <2>2, <3>6, <3>7, <3>8, <3>9, <3>10, <3>11 DEF IndexIsWanted
  <2>4. CASE m.kind = "build"
    <3>1. /\ indexed' = m.hash /\ m.hash = pendingCalls[m.call].hash /\ pendingCalls[m.call].kind = "build"
          /\ m.call \in 1 .. Len(pendingCalls) /\ ok
      BY <1>1, <1>3, <1>14, <2>4 DEF IsMessage
    <3>2. \A n \in 1 .. Len(pendingCalls) : pendingCalls[n].kind = "build" => n = m.call
      BY <2>1, <3>1 DEF IndexIsWanted
    <3>3. HasFound(a, pendingCalls', indexed')
      <4>1. pendingCalls'[a.call].kind = "build" /\ pendingCalls'[a.call].hash = indexed' /\ a.ok
        BY <1>3, <1>4, <3>1
      <4> QED BY <4>1 DEF HasFound
    <3>4. ASSUME NEW k \in 1 .. from PROVE HasFound(fromSearch[k], pendingCalls', indexed')
      <4>1. fromSearch[k].call # m.call /\ fromSearch[k].call \in 1 .. Len(pendingCalls)
        <5>1. /\ fromSearch[k].call < m.call /\ fromSearch[k].call \in 1 .. Len(pendingCalls)
              /\ Len(pendingCalls) \in Nat
          BY <1>6, <1>12, <1>18, LenProperties DEF SearchCarried, IsReply, SearchInv, SearchTypes
        <5> QED BY <5>1, <3>1
      <4>2. pendingCalls[fromSearch[k].call].kind # "build" /\ HasFound(fromSearch[k], pendingCalls, indexed)
        BY <4>1, <3>2, <1>6, <2>1 DEF IndexIsWanted
      <4> QED BY <4>2, <1>3 DEF HasFound
    <3>5. \A k \in 1 .. from + 1 : HasFound(come[k], pendingCalls', indexed')
      BY <3>3, <3>4, <1>9, <1>13 DEF HasFound
    <3>6. ASSUME NEW k \in 1 .. to - 1 PROVE left[k].kind # "build"
      <4>1. /\ m.call < left[k].call /\ left[k].call \in 1 .. Len(pendingCalls)
            /\ pendingCalls[left[k].call].kind = left[k].kind /\ Len(pendingCalls) \in Nat
        BY <1>15, <1>19, LenProperties DEF IsMessage, SearchInv, SearchTypes
      <4>2. left[k].call # m.call
        BY <4>1, <3>1
      <4> QED BY <4>1, <4>2, <3>2
    <3>7. ASSUME NEW k \in 1 .. to - 1 PROVE WillFind(k)'
      <4>1. WillFind(k + 1) /\ left[k] = toSearch[k + 1] /\ (k + 1) - 1 = k /\ 1 \in 1 .. k
        BY <1>6, <1>7, <1>8, <1>13, <2>1 DEF IndexIsWanted
      <4>2. left[k].kind = "search" => pendingCalls[left[k].call].hash = m.hash
        BY <4>1, <1>8, <2>4 DEF WillFind
      <4>3. \A j \in 1 .. k - 1 : left[j].kind # "build"
        BY <1>7, <3>6
      <4> QED BY <1>3, <1>10, <3>1, <4>2, <4>3 DEF WillFind
    <3>8. wantedHash' = indexed'
      BY <1>3, <1>6, <1>8, <1>13, <2>1, <2>4, <3>1 DEF IndexIsWanted
    <3>9. ~NoBuildOpen'
      BY <1>3, <3>1 DEF NoBuildOpen
    <3>10. \A m1, n1 \in 1 .. Len(pendingCalls') :
             pendingCalls'[m1].kind = "build" /\ pendingCalls'[n1].kind = "build" => m1 = n1
      BY <1>3, <2>1 DEF IndexIsWanted
    <3> QED BY <1>3, <1>8, <1>9, <1>10, <2>2, <3>5, <3>6, <3>7, <3>8, <3>9, <3>10 DEF IndexIsWanted
  <2> QED BY <1>14, <2>3, <2>4
<1> QED BY <1>11, <1>23, <1>24 DEF SearchInv

\* A call is settled.
LEMMA CallSettled ==
    ASSUME NEW calls \in Seq(CallRecords), NEW c \in 1 .. Len(calls)
    PROVE  \E u \in Seq(CallRecords) :
              /\ u = [calls EXCEPT ![c].kind = "settled"] /\ Len(u) = Len(calls)
              /\ u[c].kind = "settled" /\ u[c].hash = calls[c].hash
              /\ \A n \in 1 .. Len(calls) : n # c => u[n] = calls[n]
<1>1. PICK r, s : r = calls[c] /\ s = [r EXCEPT !.kind = "settled"]
  OBVIOUS
<1>2. r \in CallRecords
  BY <1>1, ElementOfSeq
<1>3. s \in CallRecords /\ s.kind = "settled" /\ s.hash = r.hash
  BY <1>1, <1>2 DEF CallRecords
<1>4. PICK u : u = [calls EXCEPT ![c] = s]
  OBVIOUS
<1>5. calls \in Seq(CallRecords) /\ c \in 1 .. Len(calls) /\ s \in CallRecords
  BY <1>3
<1>6. /\ [calls EXCEPT ![c] = s] \in Seq(CallRecords) /\ Len([calls EXCEPT ![c] = s]) = Len(calls)
      /\ \A n \in 1 .. Len(calls) : [calls EXCEPT ![c] = s][n] = IF n = c THEN s ELSE calls[n]
  BY ONLY <1>5, ExceptSeq
<1>7. /\ u \in Seq(CallRecords) /\ Len(u) = Len(calls)
      /\ \A n \in 1 .. Len(calls) : u[n] = IF n = c THEN s ELSE calls[n]
  BY ONLY <1>4, <1>6
<1>8. u[c] = s /\ \A n \in 1 .. Len(calls) : n # c => u[n] = calls[n]
  BY ONLY <1>5, <1>7
<1>9. u = [calls EXCEPT ![c].kind = "settled"]
  BY ONLY <1>1, <1>4
<1>10. u[c].kind = "settled" /\ u[c].hash = calls[c].hash
  BY ONLY <1>1, <1>3, <1>8
<1> QED BY <1>7, <1>8, <1>9, <1>10

\* The page settles the call an answer is for.
LEMMA SettleStep == ASSUME SearchInv, Settle PROVE SearchInv'
<1>1. PICK m, c, p : m = Head(fromSearch) /\ c = m.call /\ p = pendingCalls[m.call]
  OBVIOUS
<1>2. /\ fromSearch # <<>> /\ fromSearch' = Tail(fromSearch)
      /\ pendingCalls' = [pendingCalls EXCEPT ![c].kind = "settled"]
      /\ builtForEventsHash' = (IF p.kind = "build" THEN p.hash ELSE builtForEventsHash)
      /\ lastAnswer' = [call |-> c, kind |-> IF m.ok THEN p.kind ELSE "error", asked |-> p.hash,
                        hash |-> m.hash, query |-> m.query, contract |-> m.contract, hits |-> m.hits]
      /\ UNCHANGED <<toSearch, indexed, searchCalls, crossedBuilds, everDestroyed, wantedHash>>
  BY <1>1 DEF Settle
<1>3. IsList(fromSearch) /\ pendingCalls \in Seq(CallRecords) /\ SearchCarried
  BY DEF SearchInv, SearchTypes
<1>4. PICK from, left, len : from = Len(fromSearch) /\ left = Tail(fromSearch) /\ len = Len(pendingCalls)
  OBVIOUS
<1>5. from \in Nat /\ from # 0 /\ len \in Nat
  BY <1>2, <1>3, <1>4, ListFacts, LenProperties
<1>6. /\ IsList(left) /\ Len(left) = from - 1 /\ m = fromSearch[1]
      /\ \A n \in 1 .. from - 1 : left[n] = fromSearch[n + 1]
  BY <1>1, <1>2, <1>3, <1>4, ListTail
<1>7. /\ \A n \in 1 .. from - 1 : n + 1 \in 1 .. from /\ 1 < n + 1
      /\ \A n \in 1 .. from : n # 1 => n - 1 \in 1 .. from - 1 /\ (n - 1) + 1 = n
      /\ 1 \in 1 .. from
  BY <1>5
<1>8. IsReply(m, pendingCalls) /\ c \in 1 .. len /\ p.kind # "settled"
  <2>1. IsReply(m, pendingCalls)
    BY <1>3, <1>4, <1>6, <1>7 DEF SearchCarried
  <2> QED BY <2>1, <1>1, <1>4 DEF IsReply
<1>9. /\ pendingCalls' \in Seq(CallRecords) /\ Len(pendingCalls') = len
      /\ pendingCalls'[c].kind = "settled"
      /\ \A n \in 1 .. len : n # c => pendingCalls'[n] = pendingCalls[n]
  <2>1. pendingCalls \in Seq(CallRecords) /\ c \in 1 .. Len(pendingCalls)
    BY <1>3, <1>4, <1>8
  <2>2. PICK u \in Seq(CallRecords) :
              /\ u = [pendingCalls EXCEPT ![c].kind = "settled"] /\ Len(u) = Len(pendingCalls)
              /\ u[c].kind = "settled" /\ u[c].hash = pendingCalls[c].hash
              /\ \A n \in 1 .. Len(pendingCalls) : n # c => u[n] = pendingCalls[n]
    BY ONLY <2>1, CallSettled
  <2> QED BY <2>2, <1>2, <1>4
<1>10. p \in CallRecords
  BY <1>1, <1>3, <1>4, <1>8, ElementOfSeq
<1>11. SearchTypes'
  BY <1>2, <1>4, <1>6, <1>9 DEF SearchInv, SearchTypes
<1>12. ASSUME NEW k \in 1 .. Len(toSearch)
       PROVE  /\ IsMessage(toSearch[k], pendingCalls') /\ toSearch[k].call # c /\ toSearch[k].call \in 1 .. len
              /\ pendingCalls'[toSearch[k].call] = pendingCalls[toSearch[k].call]
  <2>1. IsMessage(toSearch[k], pendingCalls) /\ c < toSearch[k].call
    BY <1>1, <1>3, <1>4, <1>6, <1>7 DEF SearchCarried
  <2>2. toSearch[k].call # c /\ toSearch[k].call \in 1 .. len
    BY <2>1, <1>4, <1>5, <1>8 DEF IsMessage
  <2>3. pendingCalls'[toSearch[k].call] = pendingCalls[toSearch[k].call]
    BY <2>2, <1>9
  <2> QED BY <2>1, <2>2, <2>3, <1>2, <1>4, <1>9 DEF IsMessage
<1>13. ASSUME NEW k \in 1 .. from - 1
       PROVE  /\ IsReply(left[k], pendingCalls') /\ left[k].call # c /\ left[k].call \in 1 .. len
              /\ pendingCalls'[left[k].call] = pendingCalls[left[k].call] /\ left[k] = fromSearch[k + 1]
  <2>1. IsReply(fromSearch[k + 1], pendingCalls) /\ c < fromSearch[k + 1].call /\ left[k] = fromSearch[k + 1]
    BY <1>1, <1>3, <1>4, <1>6, <1>7 DEF SearchCarried
  <2>2. left[k].call # c /\ left[k].call \in 1 .. len
    BY <2>1, <1>4, <1>5, <1>8 DEF IsReply
  <2>3. pendingCalls'[left[k].call] = pendingCalls[left[k].call]
    BY <2>2, <1>9
  <2> QED BY <2>1, <2>2, <2>3, <1>4, <1>9 DEF IsReply
<1>14. \A j, k \in 1 .. from - 1 : j < k => left[j].call < left[k].call
  <2>1. ASSUME NEW j \in 1 .. from - 1, NEW k \in 1 .. from - 1, j < k PROVE left[j].call < left[k].call
    <3>1. j + 1 < k + 1 /\ left[j] = fromSearch[j + 1] /\ left[k] = fromSearch[k + 1]
      BY <2>1, <1>5, <1>6
    <3> QED BY <3>1, <1>3, <1>4, <1>7 DEF SearchCarried
  <2> QED BY <2>1
<1>15. \A j \in 1 .. from - 1, k \in 1 .. Len(toSearch) : left[j].call < toSearch[k].call
  BY <1>3, <1>4, <1>6, <1>7 DEF SearchCarried
<1>16. ASSUME NEW n \in 1 .. len, pendingCalls'[n].kind # "settled"
       PROVE  (\E k \in 1 .. Len(toSearch) : toSearch[k].call = n) \/ (\E k \in 1 .. from - 1 : left[k].call = n)
  <2>1. n # c /\ pendingCalls'[n] = pendingCalls[n]
    BY <1>9, <1>16
  <2>2. CASE \E k \in 1 .. from : fromSearch[k].call = n
    <3>1. PICK k \in 1 .. from : fromSearch[k].call = n
      BY <2>2
    <3>2. k # 1
      BY <2>1, <3>1, <1>1, <1>6
    <3> QED BY <3>1, <3>2, <1>6, <1>7
  <2> QED BY <2>1, <2>2, <1>3, <1>4, <1>16 DEF SearchCarried
<1>17. SearchCarried'
  <2>1. \A k \in 1 .. Len(toSearch') : IsMessage(toSearch'[k], pendingCalls')
    BY <1>2, <1>12 DEF IsMessage
  <2>2. \A k \in 1 .. Len(fromSearch') : IsReply(fromSearch'[k], pendingCalls')
    BY <1>2, <1>4, <1>6, <1>13 DEF IsReply
  <2>3. \A j, k \in 1 .. Len(toSearch') : j < k => toSearch'[j].call < toSearch'[k].call
    BY <1>2, <1>3 DEF SearchCarried
  <2> QED BY <1>2, <1>4, <1>6, <1>9, <1>14, <1>15, <1>16, <2>1, <2>2, <2>3 DEF SearchCarried
<1>18. ASSUME ~crossedBuilds', ~everDestroyed' PROVE IndexIsWanted'
  <2>1. IndexIsWanted
    BY <1>2, <1>18 DEF SearchInv
  <2>2. HasFound(m, pendingCalls, indexed)
    BY <1>4, <1>6, <1>7, <2>1 DEF IndexIsWanted
  <2>3. AnswerIsOwn'
    <3>1. PICK kind : kind = IF m.ok THEN p.kind ELSE "error"
      OBVIOUS
    <3>2. lastAnswer'.kind = kind /\ lastAnswer'.asked = p.hash /\ lastAnswer'.hash = m.hash
      BY <1>2, <3>1
    <3>3. ASSUME kind = "search" PROVE m.hash = p.hash
      <4>1. m.ok /\ p.kind = "search"
        BY <3>1, <3>3
      <4> QED BY <4>1, <2>2, <1>1 DEF HasFound
    <3>4. ASSUME kind = "error" PROVE p.hash = "none"
      <4>1. p.kind \in {"build", "search"}
        BY <1>8, <1>10 DEF CallRecords
      <4>2. ~m.ok
        BY <3>1, <3>4, <4>1
      <4> QED BY <4>1, <4>2, <2>2, <1>1 DEF HasFound
    <3> QED BY <3>2, <3>3, <3>4 DEF AnswerIsOwn
  <2>4. \A k \in 1 .. Len(toSearch) : WillFind(k)'
    BY <1>2, <1>12, <2>1 DEF IndexIsWanted, WillFind
  <2>5. \A k \in 1 .. from - 1 : HasFound(left[k], pendingCalls', indexed')
    <3>1. ASSUME NEW k \in 1 .. from - 1 PROVE HasFound(left[k], pendingCalls', indexed')
      <4>1. HasFound(fromSearch[k + 1], pendingCalls, indexed)
        BY <1>4, <1>7, <2>1 DEF IndexIsWanted
      <4>2. HasFound(left[k], pendingCalls, indexed) /\ pendingCalls'[left[k].call] = pendingCalls[left[k].call]
        BY <4>1, <1>13
      <4> QED BY <4>2, <1>2 DEF HasFound
    <3> QED BY <3>1
  <2>6. \A m1, n1 \in 1 .. len : pendingCalls'[m1].kind = "build" /\ pendingCalls'[n1].kind = "build" => m1 = n1
    BY <1>4, <1>9, <2>1 DEF IndexIsWanted
  <2>7. NoBuildOpen' => builtForEventsHash' = indexed'
    <3>1. CASE p.kind = "build"
      BY <3>1, <1>1, <1>2, <2>2 DEF HasFound
    <3>2. CASE p.kind # "build"
      <4>1. ASSUME NoBuildOpen' PROVE NoBuildOpen
        <5>1. ASSUME NEW n \in 1 .. len PROVE pendingCalls[n].kind # "build"
          <6>1. CASE n = c
            BY <6>1, <3>2, <1>1
          <6>2. CASE n # c
            BY <6>2, <4>1, <1>9 DEF NoBuildOpen
          <6> QED BY <6>1, <6>2
        <5> QED BY <5>1, <1>4 DEF NoBuildOpen
      <4> QED BY <4>1, <3>2, <1>2, <2>1 DEF IndexIsWanted
    <3> QED BY <3>1, <3>2
  <2>8. NoBuildSent' => wantedHash' = indexed'
    BY <1>2, <2>1 DEF IndexIsWanted, NoBuildSent
  <2>9. \A j \in 1 .. Len(toSearch) : toSearch[j].kind = "build" => wantedHash = toSearch[j].hash
    BY <2>1 DEF IndexIsWanted
  <2>10. \A k \in 1 .. Len(fromSearch') : HasFound(fromSearch'[k], pendingCalls', indexed')
    BY <1>2, <1>4, <1>6, <2>5 DEF HasFound
  <2> QED BY <1>2, <1>9, <2>3, <2>4, <2>6, <2>7, <2>8, <2>9, <2>10 DEF IndexIsWanted
<1> QED BY <1>11, <1>17, <1>18 DEF SearchInv

\* The client is destroyed with its worker.
LEMMA DestroyStep == ASSUME SearchInv, destroy PROVE SearchInv'
<1>1. PICK calls, r : /\ calls = [n \in DOMAIN pendingCalls |-> [pendingCalls[n] EXCEPT !.kind = "settled"]]
                   /\ r = [kind |-> "settled", hash |-> "none"]
  OBVIOUS
<1>2. /\ toSearch' = <<>> /\ fromSearch' = <<>> /\ everDestroyed' = TRUE /\ searchCalls' = searchCalls + 1
      /\ pendingCalls' = Append(calls, r) /\ wantedHash' = wantedHash
  BY <1>1 DEF destroy
<1>3. /\ pendingCalls \in Seq(CallRecords) /\ searchCalls = Len(pendingCalls) /\ wantedHash \in Hashes
      /\ Len(pendingCalls) \in Nat /\ DOMAIN pendingCalls = 1 .. Len(pendingCalls)
  BY LenProperties DEF SearchInv, SearchTypes
<1>4. r \in CallRecords /\ r.kind = "settled"
  BY <1>1 DEF CallRecords, Hashes
<1>5. ASSUME NEW n \in 1 .. Len(pendingCalls) PROVE calls[n] \in CallRecords /\ calls[n].kind = "settled"
  <2>1. PICK p, s : p = pendingCalls[n] /\ s = [p EXCEPT !.kind = "settled"]
    OBVIOUS
  <2>2. p \in CallRecords
    BY <2>1, <1>3, ElementOfSeq
  <2>3. s \in CallRecords /\ s.kind = "settled"
    BY <2>1, <2>2 DEF CallRecords
  <2>4. calls[n] = s
    BY <1>1, <1>3, <2>1
  <2> QED BY <2>3, <2>4
<1>6. calls \in Seq(CallRecords) /\ Len(calls) = Len(pendingCalls)
  <2>1. DOMAIN calls = 1 .. Len(pendingCalls) /\ calls = [n \in 1 .. Len(pendingCalls) |-> calls[n]]
    BY <1>1, <1>3
  <2>2. calls \in [1 .. Len(pendingCalls) -> CallRecords]
    BY ONLY <2>1, <1>5
  <2>3. calls \in Seq(CallRecords)
    BY <1>3, <2>2, SeqDef
  <2> QED BY <1>3, <2>1, <2>3, LenProperties
<1>7. PICK u : u = Append(calls, r)
  OBVIOUS
<1>8. /\ u \in Seq(CallRecords) /\ Len(u) = Len(pendingCalls) + 1 /\ u[Len(pendingCalls) + 1] = r
      /\ \A n \in 1 .. Len(pendingCalls) : u[n] = calls[n]
  BY <1>4, <1>6, <1>7, AppendProperties
<1>9. ASSUME NEW n \in 1 .. Len(u) PROVE u[n].kind = "settled"
  <2>1. CASE n = Len(pendingCalls) + 1
    BY <2>1, <1>4, <1>8
  <2>2. CASE n # Len(pendingCalls) + 1
    <3>1. n \in 1 .. Len(pendingCalls)
      BY <2>2, <1>3, <1>8
    <3> QED BY <3>1, <1>5, <1>8
  <2> QED BY <2>1, <2>2
<1>10. IsList(<<>>)
  BY EmptySeq DEF IsList
<1>11. SearchTypes'
  BY <1>2, <1>3, <1>7, <1>8, <1>10 DEF SearchTypes
<1>12. SearchCarried'
  <2>1. Len(toSearch') = 0 /\ Len(fromSearch') = 0
    BY <1>2
  <2> QED BY <1>2, <1>7, <1>9, <2>1 DEF SearchCarried
<1> QED BY <1>2, <1>11, <1>12 DEF SearchInv

\* Every step of the search keeps its invariant.
LEMMA SearchStep == ASSUME SearchInv, [SearchNext]_searchvars PROVE SearchInv'
<1>1. CASE UNCHANGED searchvars
  BY <1>1 DEF searchvars, SearchInv, SearchTypes, SearchCarried, IsMessage, IsReply, IndexIsWanted, WillFind, HasFound,
              AnswerIsOwn, NoBuildSent, NoBuildOpen
<1> QED BY <1>1, SearchRequest, BuildRequest, BuildSkipped, HandleCallStep, SettleStep, DestroyStep DEF SearchNext

\* A promise that is open has one message or one answer.
LEMMA SearchFacts == SearchInv => AnsweredFromOwnIndex /\ PendingIsOnItsWay
<1> SUFFICES ASSUME SearchInv PROVE AnsweredFromOwnIndex /\ PendingIsOnItsWay
  OBVIOUS
<1>1. AnsweredFromOwnIndex
  BY DEF SearchInv, IndexIsWanted, AnswerIsOwn, AnsweredFromOwnIndex
<1>2. /\ DOMAIN pendingCalls = 1 .. Len(pendingCalls) /\ DOMAIN toSearch = 1 .. Len(toSearch)
      /\ DOMAIN fromSearch = 1 .. Len(fromSearch) /\ Len(toSearch) \in Nat /\ Len(fromSearch) \in Nat
      /\ Len(pendingCalls) \in Nat
  BY LenProperties, ListFacts DEF SearchInv, SearchTypes
<1>3. SearchCarried
  BY DEF SearchInv
<1>4. /\ \A k \in 1 .. Len(toSearch) : toSearch[k].call \in Nat
      /\ \A k \in 1 .. Len(fromSearch) : fromSearch[k].call \in Nat
  BY <1>2, <1>3 DEF SearchCarried, IsMessage, IsReply
<1>5. ASSUME NEW n \in DOMAIN pendingCalls, OpenSearch(n)
      PROVE  Cardinality({k \in DOMAIN toSearch : toSearch[k].call = n})
               + Cardinality({k \in DOMAIN fromSearch : fromSearch[k].call = n}) = 1
  <2>1. (\E k \in 1 .. Len(toSearch) : toSearch[k].call = n) \/ (\E k \in 1 .. Len(fromSearch) : fromSearch[k].call = n)
    BY <1>2, <1>3, <1>5 DEF SearchCarried, OpenSearch
  <2>2. PICK A, B : /\ A = {k \in DOMAIN toSearch : toSearch[k].call = n}
                 /\ B = {k \in DOMAIN fromSearch : fromSearch[k].call = n}
    OBVIOUS
  <2>3. CASE \E k \in 1 .. Len(toSearch) : toSearch[k].call = n
    <3>1. PICK k \in 1 .. Len(toSearch) : toSearch[k].call = n
      BY <2>3
    <3>2. \A j \in 1 .. Len(toSearch) : toSearch[j].call = n => j = k
      <4>1. ASSUME NEW j \in 1 .. Len(toSearch), toSearch[j].call = n, j # k PROVE FALSE
        <5>1. j < k \/ k < j
          BY <1>2, <4>1
        <5>2. toSearch[j].call < toSearch[k].call \/ toSearch[k].call < toSearch[j].call
          BY <5>1, <1>3 DEF SearchCarried
        <5> QED BY <5>2, <3>1, <4>1, <1>4
      <4> QED BY <4>1
    <3>3. \A j \in 1 .. Len(fromSearch) : fromSearch[j].call # n
      <4>1. ASSUME NEW j \in 1 .. Len(fromSearch) PROVE fromSearch[j].call # n
        <5>1. fromSearch[j].call < toSearch[k].call
          BY <1>3 DEF SearchCarried
        <5> QED BY <5>1, <3>1, <1>4
      <4> QED BY <4>1
    <3>4. A = {k} /\ B = {}
      BY <1>2, <2>2, <3>1, <3>2, <3>3
    <3>5. Cardinality(A) = 1 /\ Cardinality(B) = 0
      BY <3>4, FS_Singleton, FS_EmptySet
    <3> QED BY <2>2, <3>5
  <2>4. CASE \E k \in 1 .. Len(fromSearch) : fromSearch[k].call = n
    <3>1. PICK k \in 1 .. Len(fromSearch) : fromSearch[k].call = n
      BY <2>4
    <3>2. \A j \in 1 .. Len(fromSearch) : fromSearch[j].call = n => j = k
      <4>1. ASSUME NEW j \in 1 .. Len(fromSearch), fromSearch[j].call = n, j # k PROVE FALSE
        <5>1. j < k \/ k < j
          BY <1>2, <4>1
        <5>2. fromSearch[j].call < fromSearch[k].call \/ fromSearch[k].call < fromSearch[j].call
          BY <5>1, <1>3 DEF SearchCarried
        <5> QED BY <5>2, <3>1, <4>1, <1>4
      <4> QED BY <4>1
    <3>3. \A j \in 1 .. Len(toSearch) : toSearch[j].call # n
      <4>1. ASSUME NEW j \in 1 .. Len(toSearch) PROVE toSearch[j].call # n
        <5>1. fromSearch[k].call < toSearch[j].call
          BY <1>3 DEF SearchCarried
        <5> QED BY <5>1, <3>1, <1>4
      <4> QED BY <4>1
    <3>4. A = {} /\ B = {k}
      BY <1>2, <2>2, <3>1, <3>2, <3>3
    <3>5. Cardinality(A) = 0 /\ Cardinality(B) = 1
      BY <3>4, FS_Singleton, FS_EmptySet
    <3> QED BY <2>2, <3>5
  <2> QED BY <2>1, <2>3, <2>4
<1>6. PendingIsOnItsWay
  BY <1>5 DEF PendingIsOnItsWay
<1> QED BY <1>1, <1>6

\* A search is answered from the events that were wanted, and no promise is lost or answered twice.
THEOREM SearchCorrect == SearchSpec => [](AnsweredFromOwnIndex /\ PendingIsOnItsWay)
<1> QED BY SearchInitial, SearchStep, SearchFacts, PTL DEF SearchSpec

-----------------------------------------------------------------------------
(* The list of cross-chain matches.                                      *)

\* A page holds rows asked for, newest first, and all those down to its last one; when it
\* is not full it holds all there are.
LEMMA PageHolds ==
    ASSUME NEW found, IsFiniteSet(found), found \subseteq Nat
    PROVE  \E page \in Seq(Nat) :
             /\ page = PageRows(found)
             /\ \A n \in 1 .. Len(page) : page[n] \in found
             /\ \A j, k \in 1 .. Len(page) : j < k => page[j] > page[k]
             /\ \A r \in found : Len(page) # 0 /\ r >= page[Len(page)] => \E n \in 1 .. Len(page) : page[n] = r
<1> DEFINE Above(r) == Cardinality({s \in found : s > r})
           Pick(n) == CHOOSE r \in found : Above(r) = n - 1
<1>0. MatchLimit \in Nat /\ \A r \in found : r \in Nat
  BY BridgeFeedAssumption
<1>1. /\ Cardinality(found) \in Nat
      /\ \A r, t \in found : r > t => Above(r) < Above(t)
      /\ \A n \in 1 .. Cardinality(found) : \E r \in found : Above(r) = n - 1
  BY RowsRanked
<1>2. ASSUME NEW r \in found PROVE Above(r) \in Nat
  <2>1. {s \in found : s > r} \in SUBSET found
    OBVIOUS
  <2> QED BY <2>1, FS_Subset, FS_CardinalityType
<1>3. PICK size : size = IF Cardinality(found) < MatchLimit THEN Cardinality(found) ELSE MatchLimit
  OBVIOUS
<1>4. size \in Nat /\ size <= Cardinality(found)
  BY <1>0, <1>1, <1>3
<1>5. PICK page : page = [n \in 1 .. size |-> Pick(n)]
  OBVIOUS
<1>6. page = PageRows(found)
  BY <1>3, <1>5 DEF PageRows
<1> HIDE DEF Above
<1>7. ASSUME NEW n \in 1 .. size PROVE page[n] \in found /\ Above(page[n]) = n - 1
  <2>1. n \in 1 .. Cardinality(found)
    BY <1>1, <1>4
  <2>2. \E r \in found : Above(r) = n - 1
    BY <1>1, <2>1
  <2>3. Pick(n) \in found /\ Above(Pick(n)) = n - 1
    BY <2>2
  <2> QED BY <1>5, <2>3
<1>8. page \in Seq(Nat) /\ Len(page) = size
  <2>1. page \in [1 .. size -> Nat]
    BY <1>5, <1>7
  <2>2. page \in Seq(Nat)
    BY <1>4, <2>1, SeqDef
  <2> QED BY <1>4, <2>1, <2>2, LenProperties
<1>9. ASSUME NEW j \in 1 .. size, NEW k \in 1 .. size, j < k PROVE page[j] > page[k]
  <2>0. Above(page[j]) = j - 1 /\ Above(page[k]) = k - 1 /\ page[j] \in found /\ page[k] \in found
    BY <1>7
  <2>1. Above(page[j]) < Above(page[k]) /\ page[j] \in Nat /\ page[k] \in Nat
    <3>1. j - 1 < k - 1
      BY <1>4, <1>9
    <3> QED BY <1>0, <2>0, <3>1
  <2>2. Above(page[j]) \in Nat /\ Above(page[k]) \in Nat
    BY <1>2, <1>7
  <2>3. ~(page[k] > page[j])
    BY <1>1, <1>7, <2>1, <2>2
  <2>4. page[k] # page[j]
    BY <2>1, <2>2
  <2> QED BY <2>1, <2>3, <2>4
<1>10. ASSUME NEW r \in found, size # 0, r >= page[size] PROVE \E n \in 1 .. size : page[n] = r
  <2>1. size \in 1 .. size /\ page[size] \in found /\ Above(page[size]) = size - 1
    BY <1>4, <1>7, <1>10
  <2>2. r = page[size] \/ Above(r) < Above(page[size])
    <3>1. r \in Nat /\ page[size] \in Nat
      BY <1>0, <2>1
    <3>2. r = page[size] \/ r > page[size]
      BY <1>10, <3>1
    <3> QED BY <1>1, <2>1, <3>2
  <2>3. Above(r) + 1 \in 1 .. size
    BY <1>2, <1>4, <2>1, <2>2
  <2>4. PICK n \in 1 .. size : n = Above(r) + 1
    BY <2>3
  <2>5. page[n] \in found /\ Above(page[n]) = Above(r) /\ Above(r) \in Nat
    BY <1>2, <1>7, <2>4
  <2>6. ~(page[n] > r) /\ ~(r > page[n]) /\ r \in Nat /\ page[n] \in Nat
    <3>1. \A x, y \in found : Above(x) = Above(y) => ~(x > y)
      BY <1>1, <1>2
    <3> QED BY <1>0, <2>5, <3>1
  <2> QED BY <2>5, <2>6
<1> QED BY <1>6, <1>7, <1>8, <1>9, <1>10

ListTypes ==
    /\ created \in Nat /\ created <= Len(createdAt) /\ matches \in Seq(Nat) /\ hasMore \in BOOLEAN
    /\ crossed \in BOOLEAN
    /\ \A q \in asked : \E append \in BOOLEAN : q = FeedRequest(q.status, append, q.cursor)

\* A row the filter lets through.
Wants(s, r) == s \in {"any", statusOf[r]}

\* A list of rows for a filter, newest first, in which only rows of an instant that is listed are missing.
IsListing(found, s, top) ==
    /\ \A n \in 1 .. Len(found) : found[n] \in 1 .. top /\ Wants(s, found[n])
    /\ \A j, k \in 1 .. Len(found) : j < k => found[j] > found[k]
    /\ \A r \in 1 .. top :
          Wants(s, r) /\ Len(found) # 0 /\ found[Len(found)] <= r /\ r <= found[1]
              => \E n \in 1 .. Len(found) : createdAt[found[n]] = createdAt[r]

\* The cursor is the time of the last row listed, or there is none.
CursorIsLast(found, c, more) ==
    /\ c # 0 => Len(found) # 0 /\ c = createdAt[found[Len(found)]]
    /\ more /\ c = 0 => Len(found) = 0

\* The request there is asks for what is shown, or for what follows it.
AskedIsNext ==
    /\ \A p, q \in asked : p = q
    /\ \A q \in asked : /\ q.status = status
                        /\ ~q.append => q.cursor = 0
                        /\ q.append => q.cursor = cursor /\ (q.cursor = 0 => Len(matches) = 0)

ListInv ==
    /\ ListTypes
    /\ ~crossed => IsListing(matches, status, created) /\ CursorIsLast(matches, cursor, hasMore) /\ AskedIsNext

\* What a request is answered with.
LEMMA AnswerHolds ==
    ASSUME NEW q, created \in Nat
    PROVE  \E page \in Seq(Nat) :
             /\ MatchesPage(q) = [data |-> page, next |-> IF Len(page) = MatchLimit THEN createdAt[page[Len(page)]] ELSE 0]
             /\ \A n \in 1 .. Len(page) : /\ page[n] \in 1 .. created /\ Wants(q.status, page[n])
                                          /\ q.cursor = 0 \/ createdAt[page[n]] < q.cursor
             /\ \A j, k \in 1 .. Len(page) : j < k => page[j] > page[k]
             /\ \A r \in 1 .. created :
                   Wants(q.status, r) /\ (q.cursor = 0 \/ createdAt[r] < q.cursor) /\ Len(page) # 0 /\ r >= page[Len(page)]
                       => \E n \in 1 .. Len(page) : page[n] = r
<1>1. PICK found : found = {r \in 1 .. created : q.status \in {"any", statusOf[r]} /\ (q.cursor = 0 \/ createdAt[r] < q.cursor)}
  OBVIOUS
<1>2. found \in SUBSET (1 .. created) /\ IsFiniteSet(1 .. created) /\ \A r \in 1 .. created : r \in Nat
  BY <1>1, FS_Interval
<1>3. IsFiniteSet(found) /\ found \subseteq Nat
  BY <1>2, FS_Subset
<1>4. PICK page \in Seq(Nat) :
             /\ page = PageRows(found)
             /\ \A n \in 1 .. Len(page) : page[n] \in found
             /\ \A j, k \in 1 .. Len(page) : j < k => page[j] > page[k]
             /\ \A r \in found : Len(page) # 0 /\ r >= page[Len(page)] => \E n \in 1 .. Len(page) : page[n] = r
  BY <1>3, PageHolds
<1>5. MatchesPage(q) = PageOf(found)
  BY <1>1 DEF MatchesPage
<1>6. PageOf(found) = [data |-> page, next |-> IF Len(page) = MatchLimit THEN createdAt[page[Len(page)]] ELSE 0]
  BY <1>4 DEF PageOf, Last
<1>7. \A r \in found : r \in 1 .. created /\ Wants(q.status, r) /\ (q.cursor = 0 \/ createdAt[r] < q.cursor)
  BY <1>1 DEF Wants
<1>8. \A r \in 1 .. created : Wants(q.status, r) /\ (q.cursor = 0 \/ createdAt[r] < q.cursor) => r \in found
  BY <1>1 DEF Wants
<1> QED BY <1>4, <1>5, <1>6, <1>7, <1>8

\* A page is a listing.
LEMMA PageIsListing ==
    ASSUME NEW page \in Seq(Nat), NEW s, NEW top \in Nat,
           \A n \in 1 .. Len(page) : page[n] \in 1 .. top /\ Wants(s, page[n]),
           \A j, k \in 1 .. Len(page) : j < k => page[j] > page[k],
           \A r \in 1 .. top : Wants(s, r) /\ Len(page) # 0 /\ r >= page[Len(page)] => \E n \in 1 .. Len(page) : page[n] = r
    PROVE  IsListing(page, s, top)
<1>1. ASSUME NEW r \in 1 .. top, Wants(s, r), Len(page) # 0, page[Len(page)] <= r, r <= page[1]
      PROVE  \E n \in 1 .. Len(page) : createdAt[page[n]] = createdAt[r]
  <2>1. Len(page) \in 1 .. Len(page)
    BY <1>1, LenProperties
  <2>2. page[Len(page)] \in Nat /\ r \in Nat
    BY <2>1, ElementOfSeq
  <2>3. r >= page[Len(page)]
    BY <1>1, <2>2
  <2>4. PICK n \in 1 .. Len(page) : page[n] = r
    BY <1>1, <2>3
  <2> QED BY <2>4
<1> QED BY <1>1 DEF IsListing

\* A listing goes on with the page before its last row's time.
LEMMA ListingGoesOn ==
    ASSUME NEW found \in Seq(Nat), NEW page \in Seq(Nat), NEW s, NEW top \in Nat, top <= Len(createdAt),
           IsListing(found, s, top), Len(found) # 0, NEW c, c = createdAt[found[Len(found)]],
           \A n \in 1 .. Len(page) : page[n] \in 1 .. top /\ Wants(s, page[n]) /\ createdAt[page[n]] < c,
           \A j, k \in 1 .. Len(page) : j < k => page[j] > page[k],
           \A r \in 1 .. top :
                Wants(s, r) /\ createdAt[r] < c /\ Len(page) # 0 /\ r >= page[Len(page)]
                    => \E n \in 1 .. Len(page) : page[n] = r
    PROVE  IsListing(found \o page, s, top)
<1>1. PICK m, n, both : m = Len(found) /\ n = Len(page) /\ both = found \o page
  OBVIOUS
<1>2. m \in Nat /\ m # 0 /\ n \in Nat
  BY <1>1, LenProperties
<1>3. Len(both) = m + n /\ (\A k \in 1 .. m : both[k] = found[k]) /\ \A k \in 1 .. n : both[m + k] = page[k]
  <2>1. found \in Seq(Nat) /\ page \in Seq(Nat)
    OBVIOUS
  <2>2. /\ Len(found \o page) = Len(found) + Len(page)
        /\ \A k \in 1 .. Len(found) : (found \o page)[k] = found[k]
        /\ \A k \in 1 .. Len(page) : (found \o page)[Len(found) + k] = page[k]
    BY ONLY <2>1, BehindList
  <2> QED BY ONLY <1>1, <2>2
<1>4. \A k \in 1 .. m + n : k \in 1 .. m \/ (k - m \in 1 .. n /\ m + (k - m) = k)
  BY <1>2
<1>5. /\ \A k \in 1 .. m : found[k] \in 1 .. top /\ Wants(s, found[k])
      /\ \A j, k \in 1 .. m : j < k => found[j] > found[k]
      /\ \A r \in 1 .. top : Wants(s, r) /\ found[m] <= r /\ r <= found[1]
                                 => \E k \in 1 .. m : createdAt[found[k]] = createdAt[r]
  BY <1>1 DEF IsListing
<1>6. /\ \A k \in 1 .. n : page[k] \in 1 .. top /\ Wants(s, page[k]) /\ createdAt[page[k]] < c
      /\ \A j, k \in 1 .. n : j < k => page[j] > page[k]
      /\ \A r \in 1 .. top : Wants(s, r) /\ createdAt[r] < c /\ n # 0 /\ r >= page[n] => \E k \in 1 .. n : page[k] = r
  BY <1>1
<1>7. /\ createdAt \in Seq(Nat) /\ DOMAIN createdAt = 1 .. Len(createdAt)
      /\ \A r, t \in DOMAIN createdAt : r <= t => createdAt[r] <= createdAt[t]
  BY BridgeFeedAssumption, LenProperties
<1>8. \A r \in 1 .. top : r \in DOMAIN createdAt /\ r \in Nat /\ createdAt[r] \in Nat
  <2>1. Len(createdAt) \in Nat
    BY <1>7, LenProperties
  <2>2. \A r \in 1 .. top : r \in 1 .. Len(createdAt) /\ r \in Nat
    BY <2>1
  <2> QED BY <1>7, <2>2, ElementOfSeq
<1>9. m \in 1 .. m /\ 1 \in 1 .. m /\ found[m] \in 1 .. top /\ c = createdAt[found[m]] /\ c \in Nat
  BY <1>1, <1>2, <1>5, <1>8
<1>16. (\A k \in 1 .. m : found[k] \in Nat) /\ \A k \in 1 .. n : page[k] \in Nat
  BY <1>1, ElementOfSeq
<1>10. ASSUME NEW k \in 1 .. n PROVE page[k] < found[m]
  <2>1. page[k] \in 1 .. top /\ createdAt[page[k]] < c /\ page[k] \in Nat /\ found[m] \in Nat
    BY <1>6, <1>9, <1>16
  <2>2. /\ page[k] \in DOMAIN createdAt /\ found[m] \in DOMAIN createdAt
        /\ createdAt[page[k]] \in Nat
    BY <1>8, <1>9, <2>1
  <2>3. found[m] <= page[k] => c <= createdAt[page[k]]
    BY <1>7, <1>9, <2>2
  <2>4. ~(found[m] <= page[k])
    BY <1>9, <2>1, <2>2, <2>3
  <2> QED BY <2>1, <2>4
<1>11. ASSUME NEW k \in 1 .. m PROVE found[m] <= found[k]
  <2>1. CASE k = m
    BY <1>9, <1>16, <2>1
  <2>2. CASE k # m
    <3>1. k < m
      BY <1>2, <2>2
    <3>2. found[k] > found[m]
      BY <1>5, <1>9, <3>1
    <3> QED BY <1>9, <1>16, <3>2
  <2> QED BY <2>1, <2>2
<1>12. \A k \in 1 .. m + n : both[k] \in 1 .. top /\ Wants(s, both[k])
  <2>1. ASSUME NEW k \in 1 .. m + n PROVE both[k] \in 1 .. top /\ Wants(s, both[k])
    <3>1. CASE k \in 1 .. m
      BY <1>3, <1>5, <3>1
    <3>2. CASE k - m \in 1 .. n /\ m + (k - m) = k
      <4>1. both[k] = page[k - m]
        BY <1>3, <3>2
      <4> QED BY <1>6, <3>2, <4>1
    <3> QED BY <1>4, <3>1, <3>2
  <2> QED BY <2>1
<1>13. ASSUME NEW j \in 1 .. m + n, NEW k \in 1 .. m + n, j < k PROVE both[j] > both[k]
  <2>1. CASE j \in 1 .. m /\ k \in 1 .. m
    BY <1>3, <1>5, <1>13, <2>1
  <2>2. CASE j \in 1 .. m /\ k - m \in 1 .. n /\ m + (k - m) = k
    <3>1. both[j] = found[j] /\ both[k] = page[k - m]
      BY <1>3, <2>2
    <3>2. page[k - m] < found[m] /\ found[m] <= found[j]
      BY <1>10, <1>11, <2>2
    <3>3. page[k - m] \in Nat /\ found[m] \in Nat /\ found[j] \in Nat
      BY <1>9, <1>16, <2>2
    <3>4. found[j] > page[k - m]
      BY ONLY <3>2, <3>3
    <3> QED BY ONLY <3>1, <3>4
  <2>3. CASE j - m \in 1 .. n /\ m + (j - m) = j /\ k - m \in 1 .. n /\ m + (k - m) = k
    <3>1. j - m < k - m
      BY <1>2, <1>13
    <3>2. both[j] = page[j - m] /\ both[k] = page[k - m]
      BY <1>3, <2>3
    <3> QED BY <1>6, <2>3, <3>1, <3>2
  <2>4. CASE j - m \in 1 .. n /\ k \in 1 .. m
    <3>1. FALSE
      BY <1>2, <1>13, <2>4
    <3> QED BY <3>1
  <2> QED BY <1>4, <2>1, <2>2, <2>3, <2>4
<1>14. ASSUME NEW r \in 1 .. top, Wants(s, r), both[m + n] <= r, r <= both[1]
       PROVE  \E k \in 1 .. m + n : createdAt[both[k]] = createdAt[r]
  <2>0. both[1] = found[1] /\ \A k \in 1 .. m : k \in 1 .. m + n
    BY <1>2, <1>3, <1>9
  <2>1. CASE found[m] <= r
    <3>1. PICK k \in 1 .. m : createdAt[found[k]] = createdAt[r]
      BY <1>5, <1>14, <2>0, <2>1
    <3> QED BY <1>3, <2>0, <3>1
  <2>2. CASE ~(found[m] <= r)
    <3>0. r \in Nat /\ found[m] \in Nat /\ r < found[m] /\ createdAt[r] \in Nat
      <4>1. r \in Nat /\ found[m] \in Nat /\ createdAt[r] \in Nat
        BY <1>8, <1>9, <1>16
      <4> QED BY <2>2, <4>1
    <3>1. n # 0 /\ n \in 1 .. n /\ both[m + n] = page[n]
      <4>1. n # 0
        <5>1. ASSUME n = 0 PROVE FALSE
          <6>1. both[m + n] = found[m]
            BY <1>2, <1>3, <1>9, <5>1
          <6> QED BY <6>1, <1>14, <2>2
        <5> QED BY <5>1
      <4> QED BY <1>2, <1>3, <4>1
    <3>2. CASE createdAt[r] < c
      <4>1. page[n] \in Nat /\ r >= page[n]
        <5>1. page[n] \in Nat
          BY <1>6, <1>8, <3>1
        <5>2. page[n] <= r
          BY <1>14, <3>1
        <5> QED BY <3>0, <5>1, <5>2
      <4>2. PICK k \in 1 .. n : page[k] = r
        BY <1>6, <1>14, <3>1, <3>2, <4>1
      <4>3. m + k \in 1 .. m + n
        BY <1>2
      <4> QED BY <1>3, <4>2, <4>3
    <3>3. CASE ~(createdAt[r] < c)
      <4>1. createdAt[r] <= c
        <5>1. r \in DOMAIN createdAt /\ found[m] \in DOMAIN createdAt
          BY <1>8, <1>9
        <5>2. r <= found[m]
          BY ONLY <3>0
        <5> QED BY <1>7, <1>9, <5>1, <5>2
      <4>2. createdAt[r] = createdAt[found[m]]
        BY <1>9, <3>0, <3>3, <4>1
      <4> QED BY <1>3, <1>9, <2>0, <4>2
    <3> QED BY <3>2, <3>3
  <2> QED BY <2>1, <2>2
<1>15. IsListing(both, s, top)
  BY <1>3, <1>12, <1>13, <1>14 DEF IsListing
<1> QED BY <1>1, <1>15

\* The first page is asked for at once.
LEMMA ListInitial == ListInit => ListInv
<1> SUFFICES ASSUME ListInit PROVE ListInv
  OBVIOUS
<1>1. /\ created = RowsAtStart /\ status = "any" /\ matches = <<>> /\ cursor = 0 /\ hasMore = FALSE
      /\ asked = {FeedRequest("any", FALSE, 0)} /\ crossed = FALSE
  BY DEF ListInit
<1>2. PICK q : q = FeedRequest("any", FALSE, 0)
  OBVIOUS
<1>3. q.status = "any" /\ q.append = FALSE /\ q.cursor = 0 /\ asked = {q}
  BY <1>1, <1>2 DEF FeedRequest
<1>4. ListTypes
  BY <1>1, <1>2, <1>3, BridgeFeedAssumption, EmptySeq DEF ListTypes
<1>5. Len(matches) = 0
  BY <1>1
<1>6. IsListing(matches, status, created) /\ CursorIsLast(matches, cursor, hasMore)
  BY <1>1, <1>5 DEF IsListing, CursorIsLast
<1>7. AskedIsNext
  BY <1>1, <1>3 DEF AskedIsNext
<1> QED BY <1>4, <1>6, <1>7 DEF ListInv

\* A request more: if none was under way, it is the only one.
LEMMA RequestAdded ==
    ASSUME ListInv, NEW s, NEW append \in BOOLEAN, NEW c, fetchMatches(FeedRequest(s, append, c))
    PROVE  \E q :
             /\ q = FeedRequest(s, append, c) /\ q.status = s /\ q.append = append /\ q.cursor = c
             /\ \A p \in asked' : \E more \in BOOLEAN : p = FeedRequest(p.status, more, p.cursor)
             /\ crossed' \in BOOLEAN
             /\ ~crossed' => ~crossed /\ asked' = {q}
<1>1. PICK q : q = FeedRequest(s, append, c)
  OBVIOUS
<1>2. q.status = s /\ q.append = append /\ q.cursor = c
  BY <1>1 DEF FeedRequest
<1>3. asked' = asked \cup {q} /\ crossed' = (crossed \/ asked # {})
  BY <1>1 DEF fetchMatches
<1>4. \A p \in asked' : \E more \in BOOLEAN : p = FeedRequest(p.status, more, p.cursor)
  BY <1>1, <1>2, <1>3 DEF ListInv, ListTypes
<1>5. crossed' \in BOOLEAN
  BY <1>3
<1>6. ~crossed' => ~crossed /\ asked' = {q}
  BY <1>3
<1> QED BY <1>1, <1>2, <1>4, <1>5, <1>6

\* Another status starts the list anew.
LEMMA StatusChanged == ASSUME ListInv, NEW s, ChangeStatus(s) PROVE ListInv'
<1>1. /\ status' = s /\ matches' = <<>> /\ cursor' = 0 /\ fetchMatches(FeedRequest(s, FALSE, 0))
      /\ UNCHANGED <<created, hasMore>>
  BY DEF ChangeStatus
<1>2. PICK q :
             /\ q = FeedRequest(s, FALSE, 0) /\ q.status = s /\ q.append = FALSE /\ q.cursor = 0
             /\ \A p \in asked' : \E more \in BOOLEAN : p = FeedRequest(p.status, more, p.cursor)
             /\ crossed' \in BOOLEAN
             /\ ~crossed' => ~crossed /\ asked' = {q}
  BY <1>1, RequestAdded
<1>3. Len(matches') = 0
  BY <1>1
<1>4. ListTypes'
  BY <1>1, <1>2, EmptySeq DEF ListInv, ListTypes
<1>5. IsListing(matches', status', created') /\ CursorIsLast(matches', cursor', hasMore')
  BY <1>1, <1>3 DEF IsListing, CursorIsLast
<1>6. ~crossed' => AskedIsNext'
  BY <1>1, <1>2 DEF AskedIsNext
<1> QED BY <1>4, <1>5, <1>6 DEF ListInv

\* A request leaves, whatever it asks for.
LEMMA MoreAsked ==
    ASSUME ListInv, NEW append \in BOOLEAN, NEW c, fetchMatches(FeedRequest(status, append, c)),
           UNCHANGED <<created, status, matches, cursor, hasMore>>,
           ~append => c = 0, append => c = cursor /\ hasMore
    PROVE  ListInv'
<1>1. /\ fetchMatches(FeedRequest(status, append, c)) /\ UNCHANGED <<created, status, matches, cursor, hasMore>>
      /\ ~append => c = 0
      /\ append => c = cursor /\ hasMore
  OBVIOUS
<1>2. PICK q :
             /\ q = FeedRequest(status, append, c) /\ q.status = status /\ q.append = append /\ q.cursor = c
             /\ \A p \in asked' : \E more \in BOOLEAN : p = FeedRequest(p.status, more, p.cursor)
             /\ crossed' \in BOOLEAN
             /\ ~crossed' => ~crossed /\ asked' = {q}
  BY <1>1, RequestAdded
<1>3. ListTypes'
  BY <1>1, <1>2 DEF ListInv, ListTypes
<1>4. ASSUME ~crossed' PROVE IsListing(matches', status', created') /\ CursorIsLast(matches', cursor', hasMore') /\ AskedIsNext'
  <2>1. ~crossed /\ asked' = {q}
    BY <1>2, <1>4
  <2>2. IsListing(matches, status, created) /\ CursorIsLast(matches, cursor, hasMore)
    BY <2>1 DEF ListInv
  <2>3. AskedIsNext'
    BY <1>1, <1>2, <2>1, <2>2 DEF AskedIsNext, CursorIsLast
  <2> QED BY <1>1, <2>2, <2>3
<1> QED BY <1>3, <1>4 DEF ListInv

\* A row is created above all others.
LEMMA RowMore == ASSUME ListInv, RowCreated PROVE ListInv'
<1>1. created < Len(createdAt) /\ created' = created + 1 /\ UNCHANGED <<status, matches, cursor, hasMore, asked, crossed>>
  BY DEF RowCreated
<1>2. created \in Nat /\ matches \in Seq(Nat) /\ Len(createdAt) \in Nat
  BY BridgeFeedAssumption, LenProperties DEF ListInv, ListTypes
<1>3. PICK n : n = created + 1
  OBVIOUS
<1>4. n \in Nat /\ n <= Len(createdAt) /\ created < n /\ created' = n /\ \A r \in 1 .. n : r \in 1 .. created \/ r = n
  BY <1>1, <1>2, <1>3
<1>5. ListTypes'
  BY <1>1, <1>4 DEF ListInv, ListTypes
<1>6. ASSUME ~crossed PROVE IsListing(matches, status, n)
  <2>1. IsListing(matches, status, created)
    BY <1>6 DEF ListInv
  <2>2. \A k \in 1 .. Len(matches) : matches[k] \in 1 .. n
    <3>1. \A r \in 1 .. created : r \in 1 .. n
      BY <1>2, <1>4
    <3> QED BY <2>1, <3>1 DEF IsListing
  <2>3. Len(matches) # 0 => ~(n <= matches[1])
    <3>1. ASSUME Len(matches) # 0 PROVE matches[1] \in 1 .. created
      <4>1. 1 \in 1 .. Len(matches)
        BY <1>2, <3>1, LenProperties
      <4> QED BY <2>1, <4>1 DEF IsListing
    <3>2. \A r \in 1 .. created : ~(n <= r)
      BY <1>2, <1>4
    <3> QED BY <3>1, <3>2
  <2> QED BY <1>4, <2>1, <2>2, <2>3 DEF IsListing
<1>7. ~crossed => AskedIsNext'
  BY <1>1 DEF ListInv, AskedIsNext
<1> QED BY <1>1, <1>4, <1>5, <1>6, <1>7 DEF ListInv

\* A request fails.
LEMMA ListRequestFails == ASSUME ListInv, NEW q \in asked, PageFails(q) PROVE ListInv'
<1>1. asked' = asked \ {q} /\ UNCHANGED <<created, status, matches, cursor, hasMore, crossed>>
  BY DEF PageFails
<1>2. ListTypes'
  BY <1>1 DEF ListInv, ListTypes
<1>3. ~crossed => AskedIsNext'
  BY <1>1 DEF ListInv, AskedIsNext
<1> QED BY <1>1, <1>2, <1>3 DEF ListInv

\* A page arrives.
LEMMA PageComes == ASSUME ListInv, NEW q \in asked, ReceivePage(q) PROVE ListInv'
<1>1. created \in Nat /\ created <= Len(createdAt) /\ matches \in Seq(Nat)
  BY DEF ListInv, ListTypes
<1>2. PICK page \in Seq(Nat) :
             /\ MatchesPage(q) = [data |-> page, next |-> IF Len(page) = MatchLimit THEN createdAt[page[Len(page)]] ELSE 0]
             /\ \A n \in 1 .. Len(page) : /\ page[n] \in 1 .. created /\ Wants(q.status, page[n])
                                          /\ q.cursor = 0 \/ createdAt[page[n]] < q.cursor
             /\ \A j, k \in 1 .. Len(page) : j < k => page[j] > page[k]
             /\ \A r \in 1 .. created :
                   Wants(q.status, r) /\ (q.cursor = 0 \/ createdAt[r] < q.cursor) /\ Len(page) # 0 /\ r >= page[Len(page)]
                       => \E n \in 1 .. Len(page) : page[n] = r
  BY <1>1, AnswerHolds
<1>3. PICK next : next = IF Len(page) = MatchLimit THEN createdAt[page[Len(page)]] ELSE 0
  OBVIOUS
<1>4. /\ asked' = asked \ {q} /\ cursor' = next /\ hasMore' = (next # 0)
      /\ matches' = (IF q.append THEN matches \o page ELSE page)
      /\ UNCHANGED <<created, status, crossed>>
  BY <1>2, <1>3 DEF ReceivePage
<1>5. q.append \in BOOLEAN
  <2>1. PICK more \in BOOLEAN : q = FeedRequest(q.status, more, q.cursor)
    BY DEF ListInv, ListTypes
  <2>2. PICK s, c : s = q.status /\ c = q.cursor
    OBVIOUS
  <2>3. q = [status |-> s, append |-> more, cursor |-> c]
    BY <2>1, <2>2 DEF FeedRequest
  <2> QED BY <2>3
<1>6. matches' \in Seq(Nat)
  <2>1. CASE q.append
    BY <1>1, <1>4, <2>1, ConcatProperties
  <2>2. CASE ~q.append
    BY <1>4, <2>2
  <2> QED BY <2>1, <2>2
<1>7. ListTypes'
  BY <1>1, <1>4, <1>6 DEF ListInv, ListTypes
<1>8. ASSUME ~crossed
      PROVE  IsListing(matches', status, created) /\ CursorIsLast(matches', next, next # 0) /\ asked' = {}
  <2>1. /\ IsListing(matches, status, created) /\ q.status = status /\ asked' = {}
        /\ CursorIsLast(matches, cursor, hasMore)
        /\ ~q.append => q.cursor = 0
        /\ q.append => q.cursor = cursor /\ (q.cursor = 0 => Len(matches) = 0)
    BY <1>4, <1>8 DEF ListInv, AskedIsNext
  <2>2. ASSUME q.cursor = 0 PROVE IsListing(page, status, created)
    BY <1>1, <1>2, <2>1, <2>2, PageIsListing
  <2>3. Len(page) \in Nat /\ Len(matches) \in Nat /\ MatchLimit # 0
    BY <1>1, LenProperties, BridgeFeedAssumption
  <2>4. CASE ~q.append \/ q.cursor = 0
    <3>1. q.cursor = 0 /\ matches' = page
      <4>1. CASE ~q.append
        BY <1>4, <2>1, <4>1
      <4>2. CASE q.append
        <5>1. Len(matches) = 0 /\ q.cursor = 0
          BY <2>1, <2>4, <4>2
        <5>2. matches = <<>>
          BY <1>1, <5>1, EmptySeq
        <5>3. <<>> \o page = page
          BY ConcatEmptySeq
        <5> QED BY <1>4, <4>2, <5>1, <5>2, <5>3
      <4> QED BY <1>5, <4>1, <4>2
    <3>2. CursorIsLast(page, next, next # 0)
      BY <1>3, <2>3 DEF CursorIsLast
    <3> QED BY <2>1, <2>2, <3>1, <3>2
  <2>5. CASE q.append /\ q.cursor # 0
    <3>1. Len(matches) # 0 /\ q.cursor = createdAt[matches[Len(matches)]] /\ matches' = matches \o page
      BY <1>4, <2>1, <2>5 DEF CursorIsLast
    <3>2. IsListing(matches \o page, status, created)
      BY <1>1, <1>2, <2>1, <2>5, <3>1, ListingGoesOn
    <3>3. CursorIsLast(matches \o page, next, next # 0)
      <4>1. CASE Len(page) = MatchLimit
        <5>1. PICK both, m, n : both = matches \o page /\ m = Len(matches) /\ n = Len(page)
          OBVIOUS
        <5>2. matches \in Seq(Nat) /\ page \in Seq(Nat)
          BY <1>1
        <5>3. /\ Len(matches \o page) = Len(matches) + Len(page)
              /\ \A k \in 1 .. Len(page) : (matches \o page)[Len(matches) + k] = page[k]
          BY ONLY <5>2, BehindList
        <5>4. Len(both) = m + n /\ n \in 1 .. n /\ m + n # 0
          BY <2>3, <4>1, <5>1, <5>3
        <5>5. both[m + n] = page[n]
          BY <5>1, <5>3, <5>4
        <5>6. next = createdAt[page[n]]
          BY <1>3, <4>1, <5>1
        <5> QED BY <5>1, <5>4, <5>5, <5>6 DEF CursorIsLast
      <4>2. CASE Len(page) # MatchLimit
        BY <1>3, <4>2 DEF CursorIsLast
      <4> QED BY <4>1, <4>2
    <3> QED BY <2>1, <3>1, <3>2, <3>3
  <2> QED BY <1>5, <2>4, <2>5
<1>9. ASSUME ~crossed PROVE AskedIsNext'
  BY <1>8, <1>9 DEF AskedIsNext
<1> QED BY <1>4, <1>7, <1>8, <1>9 DEF ListInv

\* Every step of the list keeps its invariant.
LEMMA ListStep == ASSUME ListInv, [ListNext]_listvars PROVE ListInv'
<1>1. CASE UNCHANGED listvars
  BY <1>1 DEF listvars, ListInv, ListTypes, AskedIsNext
<1>2. CASE refresh
  <2>1. fetchMatches(FeedRequest(status, FALSE, 0)) /\ UNCHANGED <<created, status, matches, cursor, hasMore>>
    BY <1>2 DEF refresh
  <2> QED BY <2>1, MoreAsked
<1>3. CASE loadMore
  <2>1. fetchMatches(FeedRequest(status, TRUE, cursor)) /\ UNCHANGED <<created, status, matches, cursor, hasMore>> /\ hasMore
    BY <1>3 DEF loadMore
  <2> QED BY <2>1, MoreAsked
<1> QED BY <1>1, <1>2, <1>3, StatusChanged, RowMore, ListRequestFails, PageComes DEF ListNext

\* The properties follow from the invariant.
LEMMA ListingFacts == ListInv => ListedOnce /\ MissingAreTies
<1> SUFFICES ASSUME ListInv, ~crossed
    PROVE  /\ \A n \in 1 .. Len(matches) - 1 : matches[n] > matches[n + 1]
           /\ \A r \in Range(matches) : status \in {"any", statusOf[r]}
           /\ matches # <<>> => \A r \in Last(matches) .. matches[1] :
                 status \in {"any", statusOf[r]} /\ r \notin Range(matches) =>
                    \E k \in Range(matches) : createdAt[k] = createdAt[r]
  BY DEF ListedOnce, MissingAreTies
<1>1. matches \in Seq(Nat) /\ created \in Nat /\ IsListing(matches, status, created)
  BY DEF ListInv, ListTypes
<1>2. PICK m : m = Len(matches)
  OBVIOUS
<1>3. m \in Nat /\ DOMAIN matches = 1 .. m
  BY <1>1, <1>2, LenProperties
<1>4. \A n \in 1 .. m - 1 : n \in 1 .. m /\ n + 1 \in 1 .. m /\ n < n + 1
  BY <1>3
<1>5. \A n \in 1 .. m - 1 : matches[n] > matches[n + 1]
  BY <1>1, <1>2, <1>4 DEF IsListing
<1>6. \A r \in Range(matches) : status \in {"any", statusOf[r]}
  BY <1>1, <1>2, <1>3 DEF IsListing, Range, Wants
<1>7. ASSUME matches # <<>>, NEW r \in Last(matches) .. matches[1], status \in {"any", statusOf[r]}
      PROVE  \E k \in Range(matches) : createdAt[k] = createdAt[r]
  <2>1. m # 0 /\ 1 \in 1 .. m /\ m \in 1 .. m
    BY <1>1, <1>2, <1>3, <1>7, EmptySeq
  <2>2. matches[1] \in 1 .. created /\ matches[m] \in 1 .. created
    BY <1>1, <1>2, <2>1 DEF IsListing
  <2>3. r \in matches[m] .. matches[1]
    BY <1>2 DEF Last
  <2>4. r \in 1 .. created /\ matches[m] <= r /\ r <= matches[1]
    BY <1>1, <2>2, <2>3
  <2>5. PICK k \in 1 .. m : createdAt[matches[k]] = createdAt[r]
    BY <1>1, <1>2, <1>7, <2>1, <2>4 DEF IsListing, Wants
  <2> QED BY <1>3, <2>5 DEF Range
<1> QED BY <1>2, <1>5, <1>6, <1>7

\* As long as no requests cross, the list has every row once, newest first, and misses only
\* rows that share their time with one that is listed.
THEOREM ListCorrect == ListSpec => [](ListedOnce /\ MissingAreTies)
<1> QED BY ListInitial, ListStep, ListingFacts, PTL DEF ListSpec
-----------------------------------------------------------------------------
(* The parts together.                                                   *)

\* Work a page hands to its workers comes back whole, in order and for what was asked.
THEOREM BrowserWorkCorrect == XlatSpec /\ SearchSpec => []BrowserWorkSafety
BY TranslatorCorrect, SearchCorrect, PTL DEF BrowserWorkSafety

\* A page shows what its URL, its filters and its user's last choice ask for, whatever
\* requests cross.
THEOREM PagesCorrect == DashSpec /\ ListSpec /\ IpfsSpec /\ DagPanelSpec /\ ToastSpec => []PagesSafety
BY DashboardCorrect, ListCorrect, IpfsCorrect, DagPanelCorrect, ToastsGo, PTL DEF PagesSafety

\* Nothing leaves the screen before its time without being closed, and a filter's pages
\* start anew with it.
THEOREM CausesCorrect == ToastSpec /\ DashSpec => StepsHaveCause
BY ToastsGoForCause, FiltersRestart DEF StepsHaveCause
=============================================================================
