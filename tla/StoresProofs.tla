---------------------------- MODULE StoresProofs ----------------------------
(* Proofs about the stores behind the API: the columns a back-fill writes,   *)
(* the GraphQL endpoint with its pool of addresses, and the blueprints of    *)
(* users in localStorage.  Each part is proved by itself, from its inductive *)
(* invariant; the last section joins them.                                   *)
EXTENDS PagesProofs


-----------------------------------------------------------------------------
(* Back-fills into ClickHouse.                                           *)

AllRows == UNION {RowsOf(p) : p \in Backfills}
BackfillStates == {"fetch", "batch", "rest", "cursor", "success", "failed"}
BackfillRecords == [at : BackfillStates, chunk : Nat \ {0}, batch : Seq(AllRows)]

\* The chunks of the constants: sequences of rows, each row in one place of one of them.
LEMMA ChunkFacts ==
    ASSUME NEW p \in Backfills
    PROVE  /\ Len(chunksOf[p]) \in Nat /\ DOMAIN chunksOf[p] = 1 .. Len(chunksOf[p])
           /\ \A n \in DOMAIN chunksOf[p] : chunksOf[p][n] \in Seq(AllRows)
<1>1. PICK chunks, S : chunks = chunksOf[p] /\ S = RowsOf(p)
  OBVIOUS
<1>2. chunks \in Seq(Seq(S)) /\ S \subseteq AllRows
  BY <1>1, ColumnStoreAssumption DEF AllRows
<1>3. Len(chunks) \in Nat /\ DOMAIN chunks = 1 .. Len(chunks)
  BY <1>2, LenProperties
<1>4. ASSUME NEW n \in 1 .. Len(chunks) PROVE chunks[n] \in Seq(AllRows)
  <2>1. PICK s : s = chunks[n]
    OBVIOUS
  <2>2. s \in Seq(S)
    BY <1>2, <2>1, ElementOfSeq
  <2>3. Len(s) \in Nat /\ s \in [1 .. Len(s) -> S]
    BY <2>2, LenProperties
  <2>4. s \in [1 .. Len(s) -> AllRows]
    BY <1>2, <2>3
  <2> QED BY <2>1, <2>3, <2>4, SeqDef
<1> QED BY <1>1, <1>3, <1>4

\* The elements of a sequence, and of two in a row.
LEMMA ElementsOf ==
    ASSUME NEW T, NEW s \in Seq(T)
    PROVE  Range(s) = {s[n] : n \in 1 .. Len(s)} /\ Range(s) \subseteq T
<1>1. DOMAIN s = 1 .. Len(s) /\ \A n \in 1 .. Len(s) : s[n] \in T
  BY LenProperties, ElementOfSeq
<1>2. Range(s) = {s[n] : n \in 1 .. Len(s)}
  BY <1>1 DEF Range
<1>3. Range(s) \subseteq T
  BY <1>1, <1>2
<1> QED BY <1>2, <1>3

\* What is in two lists, one behind the other.
LEMMA RangeOfBoth ==
    ASSUME NEW T, NEW s \in Seq(T), NEW t \in Seq(T)
    PROVE  s \o t \in Seq(T) /\ Range(s \o t) = Range(s) \cup Range(t)
<1>1. PICK u, m, n : u = s \o t /\ m = Len(s) /\ n = Len(t)
  OBVIOUS
<1>2. s \in Seq(T) /\ t \in Seq(T)
  OBVIOUS
<1>3. /\ s \o t \in Seq(T) /\ Len(s \o t) = Len(s) + Len(t)
      /\ \A k \in 1 .. Len(s) : (s \o t)[k] = s[k]
      /\ \A k \in 1 .. Len(t) : (s \o t)[Len(s) + k] = t[k]
  BY ONLY <1>2, BehindList
<1>4. /\ u \in Seq(T) /\ Len(u) = m + n /\ m \in Nat /\ n \in Nat
      /\ \A k \in 1 .. m : u[k] = s[k]
      /\ \A k \in 1 .. n : u[m + k] = t[k]
  BY <1>1, <1>2, <1>3, LenProperties
<1>5. /\ \A k \in 1 .. m + n : k \in 1 .. m \/ (k - m \in 1 .. n /\ m + (k - m) = k)
      /\ \A k \in 1 .. m : k \in 1 .. m + n
      /\ \A k \in 1 .. n : m + k \in 1 .. m + n
  BY <1>4
<1>6. Range(u) = {u[k] : k \in 1 .. m + n} /\ Range(s) = {s[k] : k \in 1 .. m} /\ Range(t) = {t[k] : k \in 1 .. n}
  <2>1. u \in Seq(T) /\ s \in Seq(T) /\ t \in Seq(T)
    BY <1>4
  <2>2. Range(u) = {u[k] : k \in 1 .. Len(u)} /\ Range(s) = {s[k] : k \in 1 .. Len(s)} /\ Range(t) = {t[k] : k \in 1 .. Len(t)}
    BY ONLY <2>1, ElementsOf
  <2> QED BY <1>1, <1>4, <2>2
<1>7. ASSUME NEW x \in Range(u) PROVE x \in Range(s) \cup Range(t)
  <2>1. PICK k \in 1 .. m + n : x = u[k]
    BY <1>6
  <2>2. CASE k \in 1 .. m
    BY <1>4, <1>6, <2>1, <2>2
  <2>3. CASE k - m \in 1 .. n /\ m + (k - m) = k
    <3>1. u[k] = t[k - m]
      BY <1>4, <2>3
    <3> QED BY <1>6, <2>1, <2>3, <3>1
  <2> QED BY <1>5, <2>2, <2>3
<1>8. ASSUME NEW x \in Range(s) \cup Range(t) PROVE x \in Range(u)
  <2>1. CASE x \in Range(s)
    <3>1. PICK k \in 1 .. m : x = s[k]
      BY <1>6, <2>1
    <3> QED BY <1>4, <1>5, <1>6, <3>1
  <2>2. CASE x \in Range(t)
    <3>1. PICK k \in 1 .. n : x = t[k]
      BY <1>6, <2>2
    <3>2. x = u[m + k] /\ m + k \in 1 .. m + n
      BY <1>4, <1>5, <3>1
    <3> QED BY <1>6, <3>2
  <2> QED BY <2>1, <2>2
<1>9. Range(u) = Range(s) \cup Range(t)
  BY <1>7, <1>8
<1> QED BY <1>1, <1>4, <1>9

\* Sequences without repetition: two in a row that share nothing, and the ends of one cut in two.
LEMMA InjectiveOfBoth ==
    ASSUME NEW T, NEW s \in Seq(T), NEW t \in Seq(T), IsInjective(s), IsInjective(t), Range(s) \cap Range(t) = {}
    PROVE  IsInjective(s \o t)
<1>1. PICK u, m, n : u = s \o t /\ m = Len(s) /\ n = Len(t)
  OBVIOUS
<1>2. s \in Seq(T) /\ t \in Seq(T)
  OBVIOUS
<1>3. /\ s \o t \in Seq(T) /\ Len(s \o t) = Len(s) + Len(t)
      /\ \A k \in 1 .. Len(s) : (s \o t)[k] = s[k]
      /\ \A k \in 1 .. Len(t) : (s \o t)[Len(s) + k] = t[k]
  BY ONLY <1>2, BehindList
<1>4. /\ DOMAIN u = 1 .. m + n /\ DOMAIN s = 1 .. m /\ DOMAIN t = 1 .. n /\ m \in Nat /\ n \in Nat
      /\ \A k \in 1 .. m : u[k] = s[k] /\ u[k] \in Range(s)
      /\ \A k \in 1 .. n : u[m + k] = t[k] /\ u[m + k] \in Range(t)
  BY <1>1, <1>2, <1>3, LenProperties DEF Range
<1>5. \A k \in 1 .. m + n : k \in 1 .. m \/ (k - m \in 1 .. n /\ m + (k - m) = k)
  BY <1>4
<1>6. ASSUME NEW j \in 1 .. m + n, NEW k \in 1 .. m + n, u[j] = u[k] PROVE j = k
  <2>1. CASE j \in 1 .. m /\ k \in 1 .. m
    <3>1. s[j] = s[k]
      BY <1>4, <1>6, <2>1
    <3> QED BY <1>4, <2>1, <3>1 DEF IsInjective
  <2>2. CASE j - m \in 1 .. n /\ m + (j - m) = j /\ k - m \in 1 .. n /\ m + (k - m) = k
    <3>1. u[j] = t[j - m] /\ u[k] = t[k - m]
      BY <1>4, <2>2
    <3>2. t[j - m] = t[k - m]
      BY <1>6, <3>1
    <3>3. j - m = k - m
      BY <1>4, <2>2, <3>2 DEF IsInjective
    <3> QED BY <2>2, <3>3
  <2>3. CASE j \in 1 .. m /\ k - m \in 1 .. n /\ m + (k - m) = k
    <3>1. u[j] \in Range(s)
      BY <1>4, <2>3
    <3>2. u[k] \in Range(t)
      <4>1. u[m + (k - m)] \in Range(t)
        BY <1>4, <2>3
      <4> QED BY <2>3, <4>1
    <3> QED BY <1>6, <3>1, <3>2
  <2>4. CASE k \in 1 .. m /\ j - m \in 1 .. n /\ m + (j - m) = j
    <3>1. u[k] \in Range(s)
      BY <1>4, <2>4
    <3>2. u[j] \in Range(t)
      <4>1. u[m + (j - m)] \in Range(t)
        BY <1>4, <2>4
      <4> QED BY <2>4, <4>1
    <3> QED BY <1>6, <3>1, <3>2
  <2> QED BY <1>5, <2>1, <2>2, <2>3, <2>4
<1>7. IsInjective(u)
  BY <1>4, <1>6 DEF IsInjective
<1> QED BY <1>1, <1>7

\* A sequence without repetition cut in two.
CutInto(buffer, batch, rest) ==
    /\ IsInjective(rest)
    /\ Range(batch) \cup Range(rest) = Range(buffer) /\ Range(batch) \cap Range(rest) = {}

\* A list without repetitions, cut, leaves two parts that share nothing.
LEMMA CutInTwo ==
    ASSUME NEW T, NEW s \in Seq(T), IsInjective(s), NEW n \in 0 .. Len(s)
    PROVE  \E a, b \in Seq(T) :
             /\ a = SubSeq(s, 1, n) /\ b = SubSeq(s, n + 1, Len(s)) /\ Len(b) = Len(s) - n
             /\ IsInjective(a) /\ CutInto(s, a, b)
<1>0. Len(s) \in Nat
  BY LenProperties
<1>1. PICK a, b : a = SubSeq(s, 1, n) /\ b = SubSeq(s, n + 1, Len(s))
  OBVIOUS
<1>2. a \in Seq(T) /\ Len(a) = n /\ \A k \in 1 .. n : a[k] = s[k]
  BY <1>0, <1>1
<1>3. b \in Seq(T) /\ Len(b) = Len(s) - n /\ \A k \in 1 .. Len(s) - n : b[k] = s[n + k]
  BY <1>0, <1>1
<1>4. PICK m : m = Len(s) - n
  OBVIOUS
<1>5. /\ m \in Nat /\ n \in Nat /\ DOMAIN s = 1 .. n + m /\ DOMAIN a = 1 .. n /\ DOMAIN b = 1 .. m
      /\ Len(a) = n /\ Len(b) = m /\ Len(s) = n + m
      /\ (\A k \in 1 .. n : a[k] = s[k]) /\ \A k \in 1 .. m : b[k] = s[n + k]
  BY <1>0, <1>2, <1>3, <1>4, LenProperties
<1>6. /\ \A k \in 1 .. n + m : k \in 1 .. n \/ (k - n \in 1 .. m /\ n + (k - n) = k)
      /\ \A k \in 1 .. n : k \in 1 .. n + m
      /\ \A k \in 1 .. m : n + k \in 1 .. n + m
      /\ \A j \in 1 .. n, k \in 1 .. m : j # n + k
      /\ \A j, k \in 1 .. m : n + j = n + k => j = k
  BY <1>5
<1>7. \A j, k \in 1 .. n + m : s[j] = s[k] => j = k
  BY <1>5 DEF IsInjective
<1>8. IsInjective(a)
  BY <1>5, <1>6, <1>7 DEF IsInjective
<1>9. IsInjective(b)
  BY <1>5, <1>6, <1>7 DEF IsInjective
<1>10. Range(s) = {s[k] : k \in 1 .. n + m} /\ Range(a) = {a[k] : k \in 1 .. n} /\ Range(b) = {b[k] : k \in 1 .. m}
  BY <1>2, <1>3, <1>5, ElementsOf
<1>11. Range(a) \cap Range(b) = {}
  <2>1. ASSUME NEW j \in 1 .. n, NEW k \in 1 .. m, a[j] = b[k] PROVE FALSE
    BY <1>5, <1>6, <1>7, <2>1
  <2> QED BY <1>10, <2>1
<1>12. ASSUME NEW x \in Range(s) PROVE x \in Range(a) \cup Range(b)
  <2>1. PICK k \in 1 .. n + m : x = s[k]
    BY <1>10
  <2>2. CASE k \in 1 .. n
    BY <1>5, <1>10, <2>1, <2>2
  <2>3. CASE k - n \in 1 .. m /\ n + (k - n) = k
    <3>1. b[k - n] = s[k]
      BY <1>5, <2>3
    <3> QED BY <1>10, <2>1, <2>3, <3>1
  <2> QED BY <1>6, <2>2, <2>3
<1>13. ASSUME NEW x \in Range(a) \cup Range(b) PROVE x \in Range(s)
  <2>1. CASE x \in Range(a)
    <3>1. PICK k \in 1 .. n : x = a[k]
      BY <1>10, <2>1
    <3> QED BY <1>5, <1>6, <1>10, <3>1
  <2>2. CASE x \in Range(b)
    <3>1. PICK k \in 1 .. m : x = b[k]
      BY <1>10, <2>2
    <3>2. x = s[n + k] /\ n + k \in 1 .. n + m
      BY <1>5, <1>6, <3>1
    <3> QED BY <1>10, <3>2
  <2> QED BY <2>1, <2>2
<1>14. Range(a) \cup Range(b) = Range(s)
  BY <1>12, <1>13
<1>15. CutInto(s, a, b)
  BY <1>9, <1>11, <1>14 DEF CutInto
<1> QED BY <1>1, <1>2, <1>3, <1>8, <1>15

\* Rows in one place each: the buffer, the insert of one request, ClickHouse, or lost.
Tidy(buffer, ins, inTable, gone) ==
    /\ IsInjective(buffer)
    /\ \A p, q \in Backfills : p # q => ins[p] \cap ins[q] = {}
    /\ \A p \in Backfills : ins[p] \cap Range(buffer) = {} /\ ins[p] \cap inTable = {} /\ ins[p] \cap gone = {}
    /\ Range(buffer) \cap inTable = {} /\ Range(buffer) \cap gone = {} /\ inTable \cap gone = {}

Inserting(ins) == UNION {ins[p] : p \in Backfills}

Everywhere(buffer, ins, inTable, gone) == Range(buffer) \cup Inserting(ins) \cup inTable \cup gone

\* What is being inserted, row by row.
LEMMA InsertingHas == ASSUME NEW ins, NEW x PROVE x \in Inserting(ins) <=> \E p \in Backfills : x \in ins[p]
<1>1. ASSUME x \in Inserting(ins) PROVE \E p \in Backfills : x \in ins[p]
  <2>1. PICK S \in {ins[p] : p \in Backfills} : x \in S
    BY <1>1 DEF Inserting
  <2> QED BY <2>1
<1>2. ASSUME NEW p \in Backfills, x \in ins[p] PROVE x \in Inserting(ins)
  <2>1. ins[p] \in {ins[q] : q \in Backfills}
    OBVIOUS
  <2> QED BY <1>2, <2>1 DEF Inserting
<1> QED BY <1>1, <1>2

\* The rows are tidy, and they are those of before with some more.
Spreads(E, buffer, ins, inTable, gone, more) ==
    Tidy(buffer, ins, inTable, gone) /\ Everywhere(buffer, ins, inTable, gone) = E \cup more

\* p inserts no more, and inserts other rows; the others insert what they did.
EndsAt(ins, next, p, found) == ins[p] = found /\ next[p] = {} /\ \A q \in Backfills : q # p => next[q] = ins[q]

BeginsAt(ins, next, p, found) == ins[p] = {} /\ next[p] = found /\ \A q \in Backfills : q # p => next[q] = ins[q]

\* Rows come into the buffer that were nowhere.
LEMMA TidyMore ==
    ASSUME NEW T, NEW buffer \in Seq(T), NEW chunk \in Seq(T), IsInjective(chunk), NEW ins, NEW inTable, NEW gone,
           Tidy(buffer, ins, inTable, gone), Range(chunk) \cap Everywhere(buffer, ins, inTable, gone) = {}
    PROVE  /\ Tidy(buffer \o chunk, ins, inTable, gone)
           /\ Everywhere(buffer \o chunk, ins, inTable, gone) = Everywhere(buffer, ins, inTable, gone) \cup Range(chunk)
<1>1. PICK u : u = buffer \o chunk
  OBVIOUS
<1>2. Range(u) = Range(buffer) \cup Range(chunk)
  BY <1>1, RangeOfBoth
<1>3. Range(chunk) \cap Range(buffer) = {} /\ Range(chunk) \cap inTable = {} /\ Range(chunk) \cap gone = {}
  <2>1. PICK C, W : C = Range(chunk) /\ W = Everywhere(buffer, ins, inTable, gone)
    OBVIOUS
  <2>2. C \cap W = {}
    BY <2>1
  <2>3. Range(buffer) \subseteq W /\ inTable \subseteq W /\ gone \subseteq W
    BY <2>1 DEF Everywhere
  <2>4. C \cap Range(buffer) = {} /\ C \cap inTable = {} /\ C \cap gone = {}
    BY ONLY <2>2, <2>3
  <2> QED BY <2>1, <2>4
<1>4. ASSUME NEW p \in Backfills PROVE Range(chunk) \cap ins[p] = {}
  <2>1. ASSUME NEW x, x \in Range(chunk), x \in ins[p] PROVE FALSE
    <3>1. x \in Inserting(ins)
      BY <2>1, InsertingHas
    <3> QED BY <2>1, <3>1 DEF Everywhere
  <2> QED BY <2>1
<1>5. IsInjective(u)
  BY <1>1, <1>3, InjectiveOfBoth DEF Tidy
<1>6. Tidy(u, ins, inTable, gone)
  BY <1>2, <1>3, <1>4, <1>5 DEF Tidy
<1>7. Everywhere(u, ins, inTable, gone) = Everywhere(buffer, ins, inTable, gone) \cup Range(chunk)
  BY <1>2 DEF Everywhere
<1> QED BY <1>1, <1>6, <1>7

\* A batch is cut off the buffer and inserted, or lost.
LEMMA TidyCut ==
    ASSUME NEW buffer, NEW batch, NEW rest, NEW ins, NEW inTable, NEW gone, NEW next, NEW p \in Backfills,
           Tidy(buffer, ins, inTable, gone), CutInto(buffer, batch, rest), BeginsAt(ins, next, p, Range(batch))
    PROVE  /\ Spreads(Everywhere(buffer, ins, inTable, gone), rest, next, inTable, gone, {})
           /\ Spreads(Everywhere(buffer, ins, inTable, gone), rest, ins, inTable, gone \cup Range(batch), {})
<1>0. ins[p] = {} /\ next[p] = Range(batch) /\ IsInjective(rest)
  BY DEF BeginsAt, CutInto
<1>1. \A q \in Backfills : next[q] = ins[q] \/ q = p
  BY DEF BeginsAt
<1>2. PICK B, A : B = Range(batch) /\ A = Range(rest)
  OBVIOUS
<1>3. Range(buffer) = B \cup A /\ B \cap A = {} /\ next[p] = B
  BY <1>0, <1>2 DEF CutInto
<1>4. /\ \A q, r \in Backfills : q # r => ins[q] \cap ins[r] = {}
      /\ \A q \in Backfills : ins[q] \cap (B \cup A) = {} /\ ins[q] \cap inTable = {} /\ ins[q] \cap gone = {}
      /\ (B \cup A) \cap inTable = {} /\ (B \cup A) \cap gone = {} /\ inTable \cap gone = {}
  BY <1>3 DEF Tidy
<1>5. \A q, r \in Backfills : q # r => next[q] \cap next[r] = {}
  <2>1. ASSUME NEW q \in Backfills, NEW r \in Backfills, q # r PROVE next[q] \cap next[r] = {}
    <3>1. CASE q = p
      BY <1>1, <1>3, <1>4, <2>1, <3>1
    <3>2. CASE r = p
      BY <1>1, <1>3, <1>4, <2>1, <3>2
    <3>3. CASE q # p /\ r # p
      BY <1>1, <1>4, <2>1, <3>3
    <3> QED BY <3>1, <3>2, <3>3
  <2> QED BY <2>1
<1>6. \A q \in Backfills : next[q] \cap A = {} /\ next[q] \cap inTable = {} /\ next[q] \cap gone = {}
  BY <1>1, <1>3, <1>4
<1>7. Tidy(rest, next, inTable, gone)
  BY <1>0, <1>2, <1>4, <1>5, <1>6 DEF Tidy
<1>8. Tidy(rest, ins, inTable, gone \cup Range(batch))
  BY <1>0, <1>2, <1>3, <1>4 DEF Tidy
<1>9. Inserting(next) = Inserting(ins) \cup B
  <2>1. ASSUME NEW x \in Inserting(next) PROVE x \in Inserting(ins) \cup B
    <3>1. PICK q \in Backfills : x \in next[q]
      BY <2>1, InsertingHas
    <3>2. CASE q = p
      BY <1>3, <3>1, <3>2
    <3>3. CASE q # p
      <4>1. x \in ins[q]
        BY <1>1, <3>1, <3>3
      <4> QED BY <4>1, InsertingHas
    <3> QED BY <3>2, <3>3
  <2>2. ASSUME NEW x \in Inserting(ins) PROVE x \in Inserting(next)
    <3>1. PICK q \in Backfills : x \in ins[q]
      BY <2>2, InsertingHas
    <3>2. q # p
      BY <1>0, <3>1
    <3>3. x \in next[q]
      BY <1>1, <3>1, <3>2
    <3> QED BY <3>3, InsertingHas
  <2>3. ASSUME NEW x \in B PROVE x \in Inserting(next)
    BY <1>3, <2>3, InsertingHas
  <2> QED BY <2>1, <2>2, <2>3
<1>10. Everywhere(rest, next, inTable, gone) = Everywhere(buffer, ins, inTable, gone)
  BY <1>2, <1>3, <1>9 DEF Everywhere
<1>11. Everywhere(rest, ins, inTable, gone \cup Range(batch)) = Everywhere(buffer, ins, inTable, gone)
  <2>1. PICK W : W = Inserting(ins)
    OBVIOUS
  <2>2. A \cup W \cup inTable \cup (gone \cup B) = (B \cup A) \cup W \cup inTable \cup gone
    OBVIOUS
  <2> QED BY <1>2, <1>3, <2>1, <2>2 DEF Everywhere
<1> QED BY <1>7, <1>8, <1>10, <1>11 DEF Spreads

\* An insert ends: its rows are stored, or lost.
LEMMA TidyEnd ==
    ASSUME NEW buffer, NEW ins, NEW inTable, NEW gone, NEW next, NEW p \in Backfills, NEW found,
           Tidy(buffer, ins, inTable, gone), EndsAt(ins, next, p, found)
    PROVE  /\ Spreads(Everywhere(buffer, ins, inTable, gone), buffer, next, inTable \cup found, gone, {})
           /\ Spreads(Everywhere(buffer, ins, inTable, gone), buffer, next, inTable, gone \cup found, {})
<1>0. ins[p] = found
  BY DEF EndsAt
<1>1. \A q \in Backfills : (q # p /\ next[q] = ins[q]) \/ (q = p /\ next[q] = {})
  BY DEF EndsAt
<1>2. /\ \A q, r \in Backfills : q # r => ins[q] \cap ins[r] = {}
      /\ \A q \in Backfills : ins[q] \cap Range(buffer) = {} /\ ins[q] \cap inTable = {} /\ ins[q] \cap gone = {}
      /\ Range(buffer) \cap inTable = {} /\ Range(buffer) \cap gone = {} /\ inTable \cap gone = {} /\ IsInjective(buffer)
  BY DEF Tidy
<1>3. \A q, r \in Backfills : q # r => next[q] \cap next[r] = {}
  BY <1>0, <1>1, <1>2
<1>4. \A q \in Backfills : /\ next[q] \cap Range(buffer) = {} /\ next[q] \cap inTable = {} /\ next[q] \cap gone = {}
                           /\ next[q] \cap found = {}
  BY <1>0, <1>1, <1>2
<1>5. Tidy(buffer, next, inTable \cup found, gone)
  BY <1>0, <1>2, <1>3, <1>4 DEF Tidy
<1>6. Tidy(buffer, next, inTable, gone \cup found)
  BY <1>0, <1>2, <1>3, <1>4 DEF Tidy
<1>7. Inserting(next) \cup found = Inserting(ins)
  <2>1. ASSUME NEW x \in Inserting(ins) PROVE x \in Inserting(next) \cup found
    <3>1. PICK q \in Backfills : x \in ins[q]
      BY <2>1, InsertingHas
    <3>2. CASE q = p
      BY <1>0, <3>1, <3>2
    <3>3. CASE q # p
      <4>1. x \in next[q]
        BY <1>1, <3>1, <3>3
      <4> QED BY <4>1, InsertingHas
    <3> QED BY <3>2, <3>3
  <2>2. ASSUME NEW x \in Inserting(next) PROVE x \in Inserting(ins)
    <3>1. PICK q \in Backfills : x \in next[q]
      BY <2>2, InsertingHas
    <3>2. x \in ins[q]
      BY <1>1, <3>1
    <3> QED BY <3>2, InsertingHas
  <2>3. ASSUME NEW x \in found PROVE x \in Inserting(ins)
    BY <1>0, <2>3, InsertingHas
  <2> QED BY <2>1, <2>2, <2>3
<1>8. Everywhere(buffer, next, inTable \cup found, gone) = Everywhere(buffer, ins, inTable, gone)
  BY <1>7 DEF Everywhere
<1>9. Everywhere(buffer, next, inTable, gone \cup found) = Everywhere(buffer, ins, inTable, gone)
  BY <1>7 DEF Everywhere
<1> QED BY <1>5, <1>6, <1>8, <1>9 DEF Spreads

\* A state of the store, by the values of its variables: where the rows are, and where the requests.
Inserts(b) == [p \in Backfills |-> Range(b[p].batch)]

HasGiven(r, n) == n < r.chunk \/ (n = r.chunk /\ r.at \in {"batch", "failed"})

GivenBy(p, r) == UNION {Range(chunksOf[p][n]) : n \in {m \in DOMAIN chunksOf[p] : HasGiven(r, m)}}

AloneIn(p, b) == \A q \in Backfills \ {p} : b[q].chunk = 1 /\ b[q].at = "fetch"

Late == {"rest", "cursor", "success"}

RowsSound(buffer, b, inTable, gone) ==
    /\ buffer \in Seq(AllRows) /\ b \in [Backfills -> BackfillRecords]
    /\ Tidy(buffer, Inserts(b), inTable, gone)
    /\ \A x \in Everywhere(buffer, Inserts(b), inTable, gone) : \E q \in Backfills : x \in GivenBy(q, b[q])
    /\ \A q \in Backfills : b[q].at # "failed" => GivenBy(q, b[q]) \subseteq Everywhere(buffer, Inserts(b), inTable, gone)

FlowSound(buffer, b, gone, told) ==
    /\ Len(buffer) >= BATCH_SIZE => \E q \in Backfills : b[q].at \in {"batch", "failed"}
    /\ \A q \in Backfills : b[q].at \notin {"batch", "rest"} => b[q].batch = <<>>
    /\ \A q \in Backfills : b[q].at \in Late => \A n \in DOMAIN chunksOf[q] : n < b[q].chunk
    /\ \A q \in Backfills : b[q].at \in Late /\ AloneIn(q, b) => buffer = <<>>
    /\ (\A q \in Backfills : b[q].at # "failed") => gone = {}
    /\ \A q \in Backfills : b[q].at = "success" /\ AloneIn(q, b) => q \in told

StoreSound(buffer, b, inTable, gone, told) == RowsSound(buffer, b, inTable, gone) /\ FlowSound(buffer, b, gone, told)

\* What ClickHouse has answered for: rows, and the ends of requests.
TakenOut == unflushed \cup columns \cup droppedRows
Ended == {p \in Backfills : cursorRow[p] # "none"}

ServerSound ==
    /\ unflushed \cap columns = {} /\ unflushed \cap droppedRows = {} /\ columns \cap droppedRows = {}
    /\ cursorRow \in [Backfills -> {"none", "queued", "stored", "dropped"}]
    /\ \A p \in Ended : backfill[p].at = "success"

ColumnInv == StoreSound(rowBuffer, backfill, TakenOut, lostRows, Ended) /\ ServerSound

\* Only one request moves.
MovesTo(b, next, p, at, chunk, batch) ==
    /\ next \in [Backfills -> BackfillRecords]
    /\ next[p].at = at /\ next[p].chunk = chunk /\ next[p].batch = batch
    /\ \A q \in Backfills : q # p => next[q] = b[q]

\* What a back-fill was given, row by row.
LEMMA GivenHas ==
    ASSUME NEW p, NEW r, NEW x
    PROVE  x \in GivenBy(p, r) <=> \E n \in DOMAIN chunksOf[p] : HasGiven(r, n) /\ x \in Range(chunksOf[p][n])
<1>1. ASSUME x \in GivenBy(p, r) PROVE \E n \in DOMAIN chunksOf[p] : HasGiven(r, n) /\ x \in Range(chunksOf[p][n])
  <2>1. PICK S \in {Range(chunksOf[p][n]) : n \in {m \in DOMAIN chunksOf[p] : HasGiven(r, m)}} : x \in S
    BY <1>1 DEF GivenBy
  <2> QED BY <2>1
<1>2. ASSUME NEW n \in DOMAIN chunksOf[p], HasGiven(r, n), x \in Range(chunksOf[p][n]) PROVE x \in GivenBy(p, r)
  <2>1. Range(chunksOf[p][n]) \in {Range(chunksOf[p][k]) : k \in {m \in DOMAIN chunksOf[p] : HasGiven(r, m)}}
    BY <1>2
  <2> QED BY <1>2, <2>1 DEF GivenBy
<1> QED BY <1>1, <1>2

\* A row in two chunks is in one chunk.
LEMMA ChunkOfRow ==
    ASSUME NEW p \in Backfills, NEW q \in Backfills, NEW m \in DOMAIN chunksOf[p], NEW n \in DOMAIN chunksOf[q], NEW x,
           x \in Range(chunksOf[p][m]), x \in Range(chunksOf[q][n])
    PROVE  p = q /\ m = n
<1>1. PICK j \in DOMAIN chunksOf[p][m] : x = chunksOf[p][m][j]
  BY DEF Range
<1>2. PICK k \in DOMAIN chunksOf[q][n] : x = chunksOf[q][n][k]
  BY DEF Range
<1>3. \A c \in DOMAIN chunksOf[p][m], d \in DOMAIN chunksOf[q][n] :
          chunksOf[p][m][c] = chunksOf[q][n][d] => <<p, m, c>> = <<q, n, d>>
  BY ColumnStoreAssumption
<1>4. chunksOf[p][m][j] = chunksOf[q][n][k]
  BY <1>1, <1>2
<1>5. <<p, m, j>> = <<q, n, k>>
  BY <1>3, <1>4
<1> QED BY <1>5

\* A chunk names no row twice.
LEMMA ChunkInjective == ASSUME NEW p \in Backfills, NEW m \in DOMAIN chunksOf[p] PROVE IsInjective(chunksOf[p][m])
<1>1. ASSUME NEW j \in DOMAIN chunksOf[p][m], NEW k \in DOMAIN chunksOf[p][m], chunksOf[p][m][j] = chunksOf[p][m][k] PROVE j = k
  <2>1. <<p, m, j>> = <<p, m, k>>
    BY <1>1, ColumnStoreAssumption
  <2> QED BY <2>1
<1> QED BY <1>1 DEF IsInjective

\* What a move does to the inserts, to who is alone and to what was given.
LEMMA MoveFacts ==
    ASSUME NEW b \in [Backfills -> BackfillRecords], NEW next, NEW p \in Backfills, NEW at, NEW chunk, NEW batch,
           MovesTo(b, next, p, at, chunk, batch)
    PROVE  /\ Inserts(next)[p] = Range(batch) /\ Inserts(b)[p] = Range(b[p].batch)
           /\ \A q \in Backfills : q # p => Inserts(next)[q] = Inserts(b)[q] /\ GivenBy(q, next[q]) = GivenBy(q, b[q])
           /\ \A q \in Backfills : q # p /\ AloneIn(q, next) => at = "fetch" /\ chunk = 1
           /\ AloneIn(p, next) <=> AloneIn(p, b)
<1>1. Inserts(next)[p] = Range(batch) /\ Inserts(b)[p] = Range(b[p].batch)
  BY DEF Inserts, MovesTo
<1>2. \A q \in Backfills : q # p => Inserts(next)[q] = Inserts(b)[q] /\ GivenBy(q, next[q]) = GivenBy(q, b[q])
  BY DEF Inserts, MovesTo
<1>3. \A q \in Backfills : q # p /\ AloneIn(q, next) => at = "fetch" /\ chunk = 1
  BY DEF AloneIn, MovesTo
<1>4. AloneIn(p, next) <=> AloneIn(p, b)
  BY DEF AloneIn, MovesTo
<1> QED BY <1>1, <1>2, <1>3, <1>4

\* What p gave before is given still, with the rows that are new.
Keeps(b, next, p, at, more) ==
    /\ GivenBy(p, b[p]) \cup more \subseteq GivenBy(p, next[p])
    /\ at # "failed" => b[p].at # "failed" /\ GivenBy(p, next[p]) \subseteq GivenBy(p, b[p]) \cup more

\* The rows stay sound when one request moves, what it gave before is given still and the
\* rows that are new are its own.
LEMMA RowsStaySound ==
    ASSUME NEW b, NEW next, NEW p \in Backfills, NEW at, NEW chunk, NEW batch,
           NEW buffer, NEW inTable, NEW gone, NEW buffer2 \in Seq(AllRows), NEW stored2, NEW lost2, NEW more,
           RowsSound(buffer, b, inTable, gone), MovesTo(b, next, p, at, chunk, batch),
           Spreads(Everywhere(buffer, Inserts(b), inTable, gone), buffer2, Inserts(next), stored2, lost2, more),
           Keeps(b, next, p, at, more)
    PROVE  RowsSound(buffer2, next, stored2, lost2)
<1>1. PICK E, E2 : E = Everywhere(buffer, Inserts(b), inTable, gone) /\ E2 = Everywhere(buffer2, Inserts(next), stored2, lost2)
  OBVIOUS
<1>0. /\ GivenBy(p, b[p]) \cup more \subseteq GivenBy(p, next[p])
      /\ at # "failed" => b[p].at # "failed" /\ GivenBy(p, next[p]) \subseteq GivenBy(p, b[p]) \cup more
  BY DEF Keeps
<1>2. E2 = E \cup more /\ Tidy(buffer2, Inserts(next), stored2, lost2)
  BY <1>1 DEF Spreads
<1>3. /\ b \in [Backfills -> BackfillRecords]
      /\ \A x \in E : \E q \in Backfills : x \in GivenBy(q, b[q])
      /\ \A q \in Backfills : b[q].at # "failed" => GivenBy(q, b[q]) \subseteq E
  BY <1>1 DEF RowsSound
<1>4. \A q \in Backfills : q # p => GivenBy(q, next[q]) = GivenBy(q, b[q]) /\ next[q] = b[q]
  BY <1>3, MoveFacts DEF MovesTo
<1>5. ASSUME NEW x \in E2 PROVE \E q \in Backfills : x \in GivenBy(q, next[q])
  <2>1. CASE x \in more
    BY <1>0, <2>1
  <2>2. CASE x \in E
    <3>1. PICK q \in Backfills : x \in GivenBy(q, b[q])
      BY <1>3, <2>2
    <3>2. x \in GivenBy(q, next[q])
      BY <1>0, <1>4, <3>1
    <3> QED BY <3>2
  <2> QED BY <1>2, <2>1, <2>2
<1>6. ASSUME NEW q \in Backfills, next[q].at # "failed" PROVE GivenBy(q, next[q]) \subseteq E2
  <2>1. CASE q = p
    <3>1. at # "failed"
      BY <1>6, <2>1 DEF MovesTo
    <3>2. GivenBy(p, b[p]) \subseteq E /\ GivenBy(p, next[p]) \subseteq GivenBy(p, b[p]) \cup more
      BY <1>0, <1>3, <3>1
    <3> QED BY <1>2, <2>1, <3>2
  <2>2. CASE q # p
    BY <1>2, <1>3, <1>4, <1>6, <2>2
  <2> QED BY <2>1, <2>2
<1>7. next \in [Backfills -> BackfillRecords]
  BY DEF MovesTo
<1> QED BY <1>1, <1>2, <1>5, <1>6, <1>7 DEF RowsSound

\* The flow stays sound when one request moves.
LEMMA FlowStaysSound ==
    ASSUME NEW b \in [Backfills -> BackfillRecords], NEW next, NEW p \in Backfills, NEW at, NEW chunk, NEW batch,
           NEW buffer, NEW gone, NEW told, NEW buffer2, NEW lost2, NEW told2,
           FlowSound(buffer, b, gone, told), MovesTo(b, next, p, at, chunk, batch),
           Len(buffer2) >= BATCH_SIZE => \/ at \in {"batch", "failed"}
                                         \/ buffer2 = buffer /\ b[p].at \notin {"batch", "failed"},
           at \notin {"batch", "rest"} => batch = <<>>,
           at \in Late => \A n \in DOMAIN chunksOf[p] : n < chunk,
           at \in Late /\ AloneIn(p, b) => buffer2 = <<>>,
           at # "failed" => b[p].at # "failed" /\ lost2 = gone,
           at = "success" /\ AloneIn(p, b) => p \in told2,
           at # "fetch" \/ chunk # 1
    PROVE  FlowSound(buffer2, next, lost2, told2)
<1>0. /\ next[p].at = at /\ next[p].chunk = chunk /\ next[p].batch = batch
      /\ \A q \in Backfills : q # p => next[q] = b[q]
  BY DEF MovesTo
<1>1. /\ AloneIn(p, next) <=> AloneIn(p, b)
      /\ \A q \in Backfills : q # p => ~AloneIn(q, next)
  <2>1. \A q \in Backfills : q # p /\ AloneIn(q, next) => at = "fetch" /\ chunk = 1
    BY <1>0 DEF AloneIn
  <2>2. AloneIn(p, next) <=> AloneIn(p, b)
    BY MoveFacts
  <2> QED BY <2>1, <2>2
<1>2. Len(buffer2) >= BATCH_SIZE => \E q \in Backfills : next[q].at \in {"batch", "failed"}
  <2>1. CASE at \in {"batch", "failed"}
    BY <1>0, <2>1
  <2>2. CASE buffer2 = buffer /\ b[p].at \notin {"batch", "failed"} /\ Len(buffer) >= BATCH_SIZE
    <3>1. PICK q \in Backfills : b[q].at \in {"batch", "failed"}
      BY <2>2 DEF FlowSound
    <3>2. q # p
      BY <2>2, <3>1
    <3> QED BY <1>0, <3>1, <3>2
  <2> QED BY <2>1, <2>2
<1>3. ASSUME NEW q \in Backfills, next[q].at \notin {"batch", "rest"} PROVE next[q].batch = <<>>
  BY <1>0, <1>3 DEF FlowSound
<1>4. ASSUME NEW q \in Backfills, next[q].at \in Late PROVE \A n \in DOMAIN chunksOf[q] : n < next[q].chunk
  <2>1. CASE q = p
    BY <1>0, <1>4, <2>1
  <2>2. CASE q # p
    BY <1>0, <1>4, <2>2 DEF FlowSound
  <2> QED BY <2>1, <2>2
<1>5. ASSUME NEW q \in Backfills, next[q].at \in Late, AloneIn(q, next) PROVE buffer2 = <<>>
  <2>1. q = p
    BY <1>1, <1>5
  <2> QED BY <1>0, <1>1, <1>5, <2>1
<1>6. ASSUME \A q \in Backfills : next[q].at # "failed" PROVE lost2 = {}
  <2>1. at # "failed"
    BY <1>0, <1>6
  <2>2. \A q \in Backfills : b[q].at # "failed"
    BY <1>0, <1>6, <2>1
  <2> QED BY <2>1, <2>2 DEF FlowSound
<1>7. ASSUME NEW q \in Backfills, next[q].at = "success", AloneIn(q, next) PROVE q \in told2
  <2>1. q = p
    BY <1>1, <1>7
  <2> QED BY <1>0, <1>1, <1>7, <2>1
<1> QED BY <1>2, <1>3, <1>4, <1>5, <1>6, <1>7 DEF FlowSound

\* What the assignments of the handlers do.
LEMMA MovesOf ==
    ASSUME NEW b \in [Backfills -> BackfillRecords], NEW p \in Backfills, NEW at \in BackfillStates, NEW batch \in Seq(AllRows)
    PROVE  /\ MovesTo(b, [b EXCEPT ![p].at = at, ![p].batch = batch], p, at, b[p].chunk, batch)
           /\ MovesTo(b, [b EXCEPT ![p].at = at], p, at, b[p].chunk, b[p].batch)
           /\ MovesTo(b, [b EXCEPT ![p] = [at |-> "fetch", chunk |-> @.chunk + 1, batch |-> <<>>]], p, "fetch", b[p].chunk + 1, <<>>)
<1>1. b[p].at \in BackfillStates /\ b[p].chunk \in Nat \ {0} /\ b[p].batch \in Seq(AllRows)
  BY DEF BackfillRecords
<1>2. MovesTo(b, [b EXCEPT ![p].at = at, ![p].batch = batch], p, at, b[p].chunk, batch)
  BY <1>1 DEF MovesTo, BackfillRecords
<1>3. MovesTo(b, [b EXCEPT ![p].at = at], p, at, b[p].chunk, b[p].batch)
  BY <1>1 DEF MovesTo, BackfillRecords
<1>4. MovesTo(b, [b EXCEPT ![p] = [at |-> "fetch", chunk |-> @.chunk + 1, batch |-> <<>>]], p, "fetch", b[p].chunk + 1, <<>>)
  <2>1. PICK r : r = [at |-> "fetch", chunk |-> b[p].chunk + 1, batch |-> <<>>]
    OBVIOUS
  <2>2. r \in BackfillRecords /\ r.at = "fetch" /\ r.chunk = b[p].chunk + 1 /\ r.batch = <<>>
    <3>1. <<>> \in Seq(AllRows)
      BY EmptySeq
    <3>2. b[p].chunk + 1 \in Nat \ {0} /\ "fetch" \in BackfillStates
      BY <1>1 DEF BackfillStates
    <3> QED BY <2>1, <3>1, <3>2 DEF BackfillRecords
  <2>3. [b EXCEPT ![p] = [at |-> "fetch", chunk |-> @.chunk + 1, batch |-> <<>>]] = [b EXCEPT ![p] = r]
    BY <2>1
  <2> QED BY <2>2, <2>3 DEF MovesTo
<1> QED BY <1>2, <1>3, <1>4

\* What a request has given, by where it is.
LEMMA GivenFacts ==
    ASSUME NEW b \in [Backfills -> BackfillRecords], NEW next, NEW p \in Backfills, NEW at, NEW batch
    PROVE  /\ MovesTo(b, next, p, at, b[p].chunk, batch) /\ (at \in {"batch", "failed"} <=> b[p].at \in {"batch", "failed"})
                => GivenBy(p, next[p]) = GivenBy(p, b[p])
           /\ MovesTo(b, next, p, at, b[p].chunk + 1, batch) /\ at \notin {"batch", "failed"} /\ b[p].at \in {"batch", "failed"}
                => GivenBy(p, next[p]) = GivenBy(p, b[p])
           /\ MovesTo(b, next, p, at, b[p].chunk, batch) /\ at \in {"batch", "failed"}
                => GivenBy(p, b[p]) \subseteq GivenBy(p, next[p])
<1>1. b[p].chunk \in Nat \ {0}
  BY DEF BackfillRecords
<1>2. DOMAIN chunksOf[p] \subseteq Nat
  BY ChunkFacts
<1>3. ASSUME NEW r, NEW s, \A n \in DOMAIN chunksOf[p] : HasGiven(r, n) <=> HasGiven(s, n)
      PROVE  GivenBy(p, r) = GivenBy(p, s)
  <2>1. {m \in DOMAIN chunksOf[p] : HasGiven(r, m)} = {m \in DOMAIN chunksOf[p] : HasGiven(s, m)}
    BY <1>3
  <2> QED BY <2>1 DEF GivenBy
<1>4. ASSUME MovesTo(b, next, p, at, b[p].chunk, batch), at \in {"batch", "failed"} <=> b[p].at \in {"batch", "failed"}
      PROVE  GivenBy(p, next[p]) = GivenBy(p, b[p])
  <2>1. next[p].at = at /\ next[p].chunk = b[p].chunk
    BY <1>4 DEF MovesTo
  <2>2. \A n \in DOMAIN chunksOf[p] : HasGiven(next[p], n) <=> HasGiven(b[p], n)
    BY <1>4, <2>1 DEF HasGiven
  <2> QED BY <1>3, <2>2
<1>5. ASSUME MovesTo(b, next, p, at, b[p].chunk + 1, batch), at \notin {"batch", "failed"}, b[p].at \in {"batch", "failed"}
      PROVE  GivenBy(p, next[p]) = GivenBy(p, b[p])
  <2>1. next[p].at = at /\ next[p].chunk = b[p].chunk + 1
    BY <1>5 DEF MovesTo
  <2>2. \A n \in Nat : n < b[p].chunk + 1 <=> n < b[p].chunk \/ n = b[p].chunk
    BY <1>1
  <2>3. \A n \in DOMAIN chunksOf[p] : HasGiven(next[p], n) <=> HasGiven(b[p], n)
    BY <1>2, <1>5, <2>1, <2>2 DEF HasGiven
  <2> QED BY <1>3, <2>3
<1>6. ASSUME MovesTo(b, next, p, at, b[p].chunk, batch), at \in {"batch", "failed"}
      PROVE  GivenBy(p, b[p]) \subseteq GivenBy(p, next[p])
  <2>1. next[p].at = at /\ next[p].chunk = b[p].chunk
    BY <1>6 DEF MovesTo
  <2>2. \A n \in DOMAIN chunksOf[p] : HasGiven(b[p], n) => HasGiven(next[p], n)
    BY <1>6, <2>1 DEF HasGiven
  <2>3. ASSUME NEW x \in GivenBy(p, b[p]) PROVE x \in GivenBy(p, next[p])
    BY <2>2, GivenHas
  <2> QED BY <2>3
<1> QED BY <1>4, <1>5, <1>6

\* onChunkComplete(), up to its loop: the chunk comes into the buffer.
LEMMA ChunkComes ==
    ASSUME NEW b, NEW next, NEW p \in Backfills, NEW buffer, NEW inTable, NEW gone, NEW told,
           StoreSound(buffer, b, inTable, gone, told), b[p].at = "fetch", b[p].chunk <= Len(chunksOf[p]),
           MovesTo(b, next, p, "batch", b[p].chunk, <<>>)
    PROVE  StoreSound(buffer \o chunksOf[p][b[p].chunk], next, inTable, gone, told)
<1>0. b \in [Backfills -> BackfillRecords] /\ buffer \in Seq(AllRows)
  BY DEF StoreSound, RowsSound
<1>1. PICK c, found : c = b[p].chunk /\ found = chunksOf[p][c]
  OBVIOUS
<1>2. c \in DOMAIN chunksOf[p] /\ c \in Nat
  <2>1. c \in Nat \ {0}
    BY <1>0, <1>1 DEF BackfillRecords
  <2>2. Len(chunksOf[p]) \in Nat /\ DOMAIN chunksOf[p] = 1 .. Len(chunksOf[p])
    BY ChunkFacts
  <2> QED BY <1>1, <2>1, <2>2
<1>3. found \in Seq(AllRows) /\ IsInjective(found)
  BY <1>1, <1>2, ChunkFacts, ChunkInjective
<1>4. Inserts(next) = Inserts(b)
  <2>1. b[p].batch = <<>>
    BY DEF StoreSound, FlowSound
  <2>2. \A q \in Backfills : next[q].batch = b[q].batch
    BY <2>1 DEF MovesTo
  <2> QED BY <2>2 DEF Inserts
<1>5. PICK E : E = Everywhere(buffer, Inserts(b), inTable, gone)
  OBVIOUS
<1>6. Range(found) \cap E = {}
  <2>1. ASSUME NEW x, x \in Range(found), x \in E PROVE FALSE
    <3>1. PICK q \in Backfills : x \in GivenBy(q, b[q])
      BY <1>5, <2>1 DEF StoreSound, RowsSound
    <3>2. PICK n \in DOMAIN chunksOf[q] : HasGiven(b[q], n) /\ x \in Range(chunksOf[q][n])
      BY <3>1, GivenHas
    <3>3. q = p /\ n = c
      <4>1. /\ p \in Backfills /\ q \in Backfills /\ c \in DOMAIN chunksOf[p] /\ n \in DOMAIN chunksOf[q]
            /\ x \in Range(chunksOf[p][c]) /\ x \in Range(chunksOf[q][n])
        BY <1>1, <1>2, <2>1, <3>2
      <4> QED BY ONLY <4>1, ChunkOfRow
    <3>4. ~HasGiven(b[p], c)
      BY <1>1, <1>2 DEF HasGiven
    <3> QED BY <3>2, <3>3, <3>4
  <2> QED BY <2>1
<1>7. PICK more : more = buffer \o found
  OBVIOUS
<1>8. more \in Seq(AllRows)
  BY <1>0, <1>3, <1>7, ConcatProperties
<1>9. /\ Tidy(more, Inserts(next), inTable, gone)
      /\ Everywhere(more, Inserts(next), inTable, gone) = Everywhere(buffer, Inserts(b), inTable, gone) \cup Range(found)
  <2>1. PICK ins : ins = Inserts(b)
    OBVIOUS
  <2>2. /\ buffer \in Seq(AllRows) /\ found \in Seq(AllRows) /\ IsInjective(found)
        /\ Tidy(buffer, ins, inTable, gone) /\ Range(found) \cap Everywhere(buffer, ins, inTable, gone) = {}
    BY <1>0, <1>3, <1>5, <1>6, <2>1 DEF StoreSound, RowsSound
  <2>3. /\ Tidy(buffer \o found, ins, inTable, gone)
        /\ Everywhere(buffer \o found, ins, inTable, gone) = Everywhere(buffer, ins, inTable, gone) \cup Range(found)
    BY ONLY <2>2, TidyMore
  <2> QED BY <1>4, <1>7, <2>1, <2>3
<1>10. /\ GivenBy(p, b[p]) \cup Range(found) \subseteq GivenBy(p, next[p])
       /\ GivenBy(p, next[p]) \subseteq GivenBy(p, b[p]) \cup Range(found)
  <2>1. \A n \in DOMAIN chunksOf[p] : HasGiven(next[p], n) <=> HasGiven(b[p], n) \/ n = c
    BY <1>1 DEF HasGiven, MovesTo
  <2>2. ASSUME NEW x \in GivenBy(p, next[p]) PROVE x \in GivenBy(p, b[p]) \cup Range(found)
    BY <1>1, <2>1, GivenHas
  <2>3. ASSUME NEW x \in GivenBy(p, b[p]) \cup Range(found) PROVE x \in GivenBy(p, next[p])
    BY <1>1, <1>2, <2>1, GivenHas
  <2> QED BY <2>2, <2>3
<1>11. RowsSound(more, next, inTable, gone)
  <2>1. RowsSound(buffer, b, inTable, gone) /\ b[p].at # "failed"
    BY DEF StoreSound
  <2>2. /\ p \in Backfills /\ more \in Seq(AllRows) /\ RowsSound(buffer, b, inTable, gone)
        /\ MovesTo(b, next, p, "batch", b[p].chunk, <<>>)
    BY <1>8, <2>1
  <2>3. Spreads(Everywhere(buffer, Inserts(b), inTable, gone), more, Inserts(next), inTable, gone, Range(found))
    BY <1>9 DEF Spreads
  <2>4. Keeps(b, next, p, "batch", Range(found))
    BY <1>10, <2>1 DEF Keeps
  <2> QED BY ONLY <2>2, <2>3, <2>4, RowsStaySound
<1>12. FlowSound(more, next, gone, told)
  <2>1. FlowSound(buffer, b, gone, told) /\ b[p].at # "failed"
    BY DEF StoreSound
  <2> QED BY <1>0, <2>1, FlowStaysSound DEF Late
<1> QED BY <1>1, <1>7, <1>11, <1>12 DEF StoreSound

\* The insert of a batch returns, up to the loop; that of the rest: to the cursor.
LEMMA InsertEnds ==
    ASSUME NEW b, NEW next, NEW p \in Backfills, NEW at, NEW buffer, NEW inTable, NEW gone, NEW told,
           StoreSound(buffer, b, inTable, gone, told),
           \/ b[p].at = "batch" /\ at = "batch"
           \/ b[p].at = "rest" /\ at = "cursor",
           MovesTo(b, next, p, at, b[p].chunk, <<>>)
    PROVE  StoreSound(buffer, next, inTable \cup Range(b[p].batch), gone, told)
<1>0. b \in [Backfills -> BackfillRecords] /\ buffer \in Seq(AllRows) /\ at # "failed" /\ b[p].at # "failed" /\ at # "fetch" /\ at # "success"
  BY DEF StoreSound, RowsSound
<1>1. /\ Inserts(next)[p] = {} /\ Inserts(b)[p] = Range(b[p].batch)
      /\ \A q \in Backfills : q # p => Inserts(next)[q] = Inserts(b)[q]
  <2>1. Range(<<>>) = {}
    BY DEF Range
  <2>2. MovesTo(b, next, p, at, b[p].chunk, <<>>)
    OBVIOUS
  <2>3. Inserts(next)[p] = Range(<<>>) /\ Inserts(b)[p] = Range(b[p].batch)
    BY <2>2 DEF Inserts, MovesTo
  <2>4. \A q \in Backfills : q # p => Inserts(next)[q] = Inserts(b)[q]
    BY <2>2 DEF Inserts, MovesTo
  <2> QED BY <2>1, <2>3, <2>4
<1>2. PICK ins, ins2 : ins = Inserts(b) /\ ins2 = Inserts(next)
  OBVIOUS
<1>3. PICK found : found = Range(b[p].batch)
  OBVIOUS
<1>8. Spreads(Everywhere(buffer, ins, inTable, gone), buffer, ins2, inTable \cup found, gone, {})
  <2>1. p \in Backfills /\ Tidy(buffer, ins, inTable, gone)
    BY <1>2 DEF StoreSound, RowsSound
  <2>2. EndsAt(ins, ins2, p, found)
    BY <1>1, <1>2, <1>3 DEF EndsAt
  <2> QED BY ONLY <2>1, <2>2, TidyEnd
<1>4. GivenBy(p, next[p]) = GivenBy(p, b[p])
  BY <1>0, GivenFacts
<1>5. PICK stored2 : stored2 = inTable \cup Range(b[p].batch)
  OBVIOUS
<1>6. RowsSound(buffer, next, stored2, gone)
  <2>1. RowsSound(buffer, b, inTable, gone)
    BY DEF StoreSound
  <2>2. Spreads(Everywhere(buffer, Inserts(b), inTable, gone), buffer, Inserts(next), stored2, gone, {})
    BY <1>2, <1>3, <1>8, <1>5
  <2>3. Keeps(b, next, p, at, {})
    BY <1>0, <1>4 DEF Keeps
  <2> QED BY <1>0, <2>1, <2>2, <2>3, RowsStaySound
<1>7. FlowSound(buffer, next, gone, told)
  <2>1. FlowSound(buffer, b, gone, told)
    BY DEF StoreSound
  <2>2. Len(buffer) >= BATCH_SIZE => at \in {"batch", "failed"} \/ (buffer = buffer /\ b[p].at \notin {"batch", "failed"})
    OBVIOUS
  <2>3. at \in Late => \A n \in DOMAIN chunksOf[p] : n < b[p].chunk
    BY <2>1 DEF FlowSound, Late
  <2>4. at \in Late /\ AloneIn(p, b) => buffer = <<>>
    BY <2>1 DEF FlowSound, Late
  <2> QED BY <1>0, <2>1, <2>2, <2>3, <2>4, FlowStaysSound
<1> QED BY <1>5, <1>6, <1>7 DEF StoreSound

\* The loop is left: to the next chunk.
LEMMA LoopLeft ==
    ASSUME NEW b, NEW next, NEW p \in Backfills, NEW buffer, NEW inTable, NEW gone, NEW told,
           StoreSound(buffer, b, inTable, gone, told), b[p].at = "batch", b[p].batch = <<>>, ~(Len(buffer) >= BATCH_SIZE),
           MovesTo(b, next, p, "fetch", b[p].chunk + 1, <<>>)
    PROVE  StoreSound(buffer, next, inTable, gone, told)
<1>0. b \in [Backfills -> BackfillRecords] /\ buffer \in Seq(AllRows)
  BY DEF StoreSound, RowsSound
<1>1. Inserts(next) = Inserts(b)
  <2>1. \A q \in Backfills : next[q].batch = b[q].batch
    BY DEF MovesTo
  <2> QED BY <2>1 DEF Inserts
<1>2. GivenBy(p, next[p]) = GivenBy(p, b[p])
  <2>1. /\ b \in [Backfills -> BackfillRecords] /\ p \in Backfills
        /\ MovesTo(b, next, p, "fetch", b[p].chunk + 1, <<>>) /\ "fetch" \notin {"batch", "failed"} /\ b[p].at \in {"batch", "failed"}
    BY <1>0
  <2> QED BY ONLY <2>1, GivenFacts
<1>3. RowsSound(buffer, next, inTable, gone)
  <2>1. RowsSound(buffer, b, inTable, gone) /\ Tidy(buffer, Inserts(next), inTable, gone)
    BY <1>1 DEF StoreSound, RowsSound
  <2>2. Spreads(Everywhere(buffer, Inserts(b), inTable, gone), buffer, Inserts(next), inTable, gone, {})
    BY <1>1, <2>1 DEF Spreads
  <2>3. Keeps(b, next, p, "fetch", {})
    BY <1>2 DEF Keeps
  <2>4. /\ p \in Backfills /\ buffer \in Seq(AllRows) /\ MovesTo(b, next, p, "fetch", b[p].chunk + 1, <<>>)
    BY <1>0
  <2> QED BY ONLY <2>1, <2>2, <2>3, <2>4, RowsStaySound
<1>4. FlowSound(buffer, next, gone, told)
  <2>1. FlowSound(buffer, b, gone, told) /\ "fetch" \notin Late
    BY DEF StoreSound, Late
  <2>2. b[p].chunk + 1 # 1
    <3>1. b[p].chunk \in Nat \ {0}
      BY <1>0 DEF BackfillRecords
    <3> QED BY <3>1
  <2> QED BY <1>0, <2>1, <2>2, FlowStaysSound
<1> QED BY <1>3, <1>4 DEF StoreSound

\* A batch has left the buffer: it is inserted, or lost.
LeavesBatch(at, ins2, batch, back, gone, lost2) ==
    \/ at = "failed" /\ ins2 = <<>> /\ lost2 = gone \cup Range(batch)
    \/ at = back /\ ins2 = batch /\ lost2 = gone

\* From where: in the loop, or with all there is when the chunks are done.
MayLeave(b, p, at, rest) ==
    /\ b[p].batch = <<>>
    /\ \/ b[p].at = "batch" /\ at # "rest"
       \/ b[p].at = "fetch" /\ at # "batch"
    /\ at = "rest" => rest = <<>> /\ \A n \in DOMAIN chunksOf[p] : n < b[p].chunk

\* A batch is cut off the buffer, to be inserted or, where toRow() throws, lost.
LEMMA BatchLeaves ==
    ASSUME NEW b, NEW next, NEW p \in Backfills, NEW at, NEW ins2, NEW lost2, NEW back \in {"batch", "rest"},
           NEW buffer, NEW batch, NEW rest \in Seq(AllRows), NEW inTable, NEW gone, NEW told,
           StoreSound(buffer, b, inTable, gone, told),
           CutInto(buffer, batch, rest),
           LeavesBatch(at, ins2, batch, back, gone, lost2),
           MayLeave(b, p, at, rest),
           MovesTo(b, next, p, at, b[p].chunk, ins2)
    PROVE  StoreSound(rest, next, inTable, lost2, told)
<1>0. b \in [Backfills -> BackfillRecords] /\ at \in {"batch", "rest", "failed"} /\ b[p].at # "failed"
  BY DEF StoreSound, RowsSound, LeavesBatch, MayLeave
<1>10. /\ b[p].batch = <<>> /\ b[p].at \in {"fetch", "batch"}
       /\ b[p].at = "batch" => at # "rest"
       /\ b[p].at = "fetch" => at # "batch"
       /\ at = "rest" => rest = <<>> /\ \A n \in DOMAIN chunksOf[p] : n < b[p].chunk
  BY DEF MayLeave
<1>9. \/ at = "failed" /\ ins2 = <<>> /\ lost2 = gone \cup Range(batch)
      \/ at \in {"batch", "rest"} /\ ins2 = batch /\ lost2 = gone
  BY DEF LeavesBatch
<1>1. PICK ins, next2, mid : ins = Inserts(b) /\ next2 = Inserts(next) /\ mid = [ins EXCEPT ![p] = Range(batch)]
  OBVIOUS
<1>2. ins[p] = {} /\ mid[p] = Range(batch) /\ \A q \in Backfills : q # p => mid[q] = ins[q]
  <2>1. Range(<<>>) = {}
    BY DEF Range
  <2>2. Inserts(b)[p] = {} /\ DOMAIN Inserts(b) = Backfills
    BY <1>10, <2>1 DEF Inserts
  <2>3. ins[p] = {} /\ DOMAIN ins = Backfills
    BY <1>1, <2>2
  <2> QED BY <1>1, <2>3
<1>3. /\ Spreads(Everywhere(buffer, ins, inTable, gone), rest, mid, inTable, gone, {})
      /\ Spreads(Everywhere(buffer, ins, inTable, gone), rest, ins, inTable, gone \cup Range(batch), {})
  <2>1. p \in Backfills /\ Tidy(buffer, ins, inTable, gone)
    BY <1>1 DEF StoreSound, RowsSound
  <2>2. CutInto(buffer, batch, rest) /\ BeginsAt(ins, mid, p, Range(batch))
    BY <1>2 DEF BeginsAt
  <2> QED BY ONLY <2>1, <2>2, TidyCut
<1>4. /\ next2[p] = Range(ins2)
      /\ \A q \in Backfills : q # p => next2[q] = ins[q]
      /\ next2 = [q \in Backfills |-> next2[q]] /\ ins = [q \in Backfills |-> ins[q]] /\ mid = [q \in Backfills |-> mid[q]]
  <2>1. Inserts(next)[p] = Range(ins2) /\ \A q \in Backfills : q # p => Inserts(next)[q] = Inserts(b)[q]
    BY <1>0, MoveFacts
  <2>2. /\ Inserts(next) = [q \in Backfills |-> Inserts(next)[q]]
        /\ Inserts(b) = [q \in Backfills |-> Inserts(b)[q]]
    BY DEF Inserts
  <2>3. ins = [q \in Backfills |-> ins[q]] /\ next2 = [q \in Backfills |-> next2[q]]
    BY <1>1, <2>2
  <2>4. mid = [q \in Backfills |-> mid[q]]
    BY <1>1, <2>3
  <2> QED BY <1>1, <2>1, <2>3, <2>4
<1>5. Spreads(Everywhere(buffer, ins, inTable, gone), rest, next2, inTable, lost2, {})
  <2>1. CASE at = "failed" /\ ins2 = <<>> /\ lost2 = gone \cup Range(batch)
    <3>1. Range(ins2) = {}
      BY <2>1 DEF Range
    <3>2. \A q \in Backfills : next2[q] = ins[q]
      BY <1>2, <1>4, <3>1
    <3>3. next2 = ins
      BY <1>4, <3>2
    <3> QED BY <1>3, <2>1, <3>3
  <2>2. CASE at \in {"batch", "rest"} /\ ins2 = batch /\ lost2 = gone
    <3>1. \A q \in Backfills : next2[q] = mid[q]
      BY <1>2, <1>4, <2>2
    <3>2. next2 = mid
      BY <1>4, <3>1
    <3> QED BY <1>3, <2>2, <3>2
  <2> QED BY <1>9, <2>1, <2>2
<1>6. GivenBy(p, b[p]) \subseteq GivenBy(p, next[p]) /\ (at # "failed" => GivenBy(p, next[p]) \subseteq GivenBy(p, b[p]))
  <2>1. ASSUME at = "rest" PROVE GivenBy(p, next[p]) = GivenBy(p, b[p])
    <3>1. b[p].at \notin {"batch", "failed"}
      BY <1>0, <1>10, <2>1
    <3> QED BY <1>0, <1>10, <2>1, <3>1, GivenFacts
  <2>2. ASSUME at = "batch" PROVE GivenBy(p, next[p]) = GivenBy(p, b[p])
    <3>1. b[p].at \in {"batch", "failed"}
      BY <1>0, <1>10, <2>2
    <3> QED BY <1>0, <1>10, <2>2, <3>1, GivenFacts
  <2>3. ASSUME at = "failed" PROVE GivenBy(p, b[p]) \subseteq GivenBy(p, next[p])
    BY <1>0, <2>3, GivenFacts
  <2> QED BY <1>0, <2>1, <2>2, <2>3
<1>7. RowsSound(rest, next, inTable, lost2)
  <2>1. /\ p \in Backfills /\ RowsSound(buffer, b, inTable, gone) /\ MovesTo(b, next, p, at, b[p].chunk, ins2) /\ rest \in Seq(AllRows)
    BY DEF StoreSound
  <2>2. Spreads(Everywhere(buffer, Inserts(b), inTable, gone), rest, Inserts(next), inTable, lost2, {})
    BY <1>1, <1>5
  <2>3. Keeps(b, next, p, at, {})
    BY <1>0, <1>6 DEF Keeps
  <2> QED BY ONLY <2>1, <2>2, <2>3, RowsStaySound
<1>8. FlowSound(rest, next, lost2, told)
  <2>1. FlowSound(buffer, b, gone, told)
    BY DEF StoreSound
  <2>2. Len(rest) >= BATCH_SIZE => at \in {"batch", "failed"} \/ (rest = buffer /\ b[p].at \notin {"batch", "failed"})
    <3>1. CASE at = "rest"
      <4>1. Len(rest) = 0
        BY <1>10, <3>1
      <4>2. BATCH_SIZE \in Nat \ {0}
        BY ColumnStoreAssumption
      <4> QED BY <4>1, <4>2
    <3> QED BY <1>0, <3>1
  <2>3. /\ at \notin {"batch", "rest"} => ins2 = <<>>
        /\ at \in Late => \A n \in DOMAIN chunksOf[p] : n < b[p].chunk
        /\ at \in Late /\ AloneIn(p, b) => rest = <<>>
        /\ at # "failed" => b[p].at # "failed" /\ lost2 = gone
        /\ at = "success" /\ AloneIn(p, b) => p \in told
        /\ at # "fetch" \/ b[p].chunk # 1
    BY <1>0, <1>9, <1>10 DEF Late
  <2>4. b \in [Backfills -> BackfillRecords] /\ p \in Backfills /\ MovesTo(b, next, p, at, b[p].chunk, ins2)
    BY <1>0
  <2> QED BY ONLY <2>1, <2>2, <2>3, <2>4, FlowStaysSound
<1> QED BY <1>7, <1>8 DEF StoreSound

\* A request goes on with nothing in its hands: to the cursor, and to its answer.
LEMMA GoesOn ==
    ASSUME NEW b, NEW next, NEW p \in Backfills, NEW at, NEW buffer, NEW inTable, NEW gone, NEW told, NEW told2,
           StoreSound(buffer, b, inTable, gone, told),
           \/ /\ b[p].at = "fetch" /\ at = "cursor" /\ buffer = <<>> /\ told2 = told
              /\ \A n \in DOMAIN chunksOf[p] : n < b[p].chunk
           \/ b[p].at = "cursor" /\ at = "success" /\ p \in told2,
           MovesTo(b, next, p, at, b[p].chunk, b[p].batch)
    PROVE  StoreSound(buffer, next, inTable, gone, told2)
<1>0. b \in [Backfills -> BackfillRecords] /\ buffer \in Seq(AllRows) /\ at \in {"cursor", "success"} /\ b[p].at \in {"fetch", "cursor"}
  BY DEF StoreSound, RowsSound
<1>1. Inserts(next) = Inserts(b)
  <2>1. \A q \in Backfills : next[q].batch = b[q].batch
    BY DEF MovesTo
  <2> QED BY <2>1 DEF Inserts
<1>2. GivenBy(p, next[p]) = GivenBy(p, b[p])
  <2>1. at \notin {"batch", "failed"} /\ b[p].at \notin {"batch", "failed"}
    BY <1>0
  <2>2. b \in [Backfills -> BackfillRecords] /\ p \in Backfills /\ MovesTo(b, next, p, at, b[p].chunk, b[p].batch)
    BY <1>0
  <2> QED BY ONLY <2>1, <2>2, GivenFacts
<1>3. RowsSound(buffer, next, inTable, gone)
  <2>1. /\ RowsSound(buffer, b, inTable, gone) /\ Tidy(buffer, Inserts(next), inTable, gone)
        /\ p \in Backfills /\ MovesTo(b, next, p, at, b[p].chunk, b[p].batch) /\ buffer \in Seq(AllRows)
    BY <1>0, <1>1 DEF StoreSound, RowsSound
  <2>2. Spreads(Everywhere(buffer, Inserts(b), inTable, gone), buffer, Inserts(next), inTable, gone, {})
    BY <1>1, <2>1 DEF Spreads
  <2>3. Keeps(b, next, p, at, {})
    BY <1>0, <1>2 DEF Keeps
  <2> QED BY ONLY <2>1, <2>2, <2>3, RowsStaySound
<1>4. FlowSound(buffer, next, gone, told2)
  <2>1. FlowSound(buffer, b, gone, told)
    BY DEF StoreSound
  <2>2. /\ Len(buffer) >= BATCH_SIZE => at \in {"batch", "failed"} \/ (buffer = buffer /\ b[p].at \notin {"batch", "failed"})
        /\ at \notin {"batch", "rest"} => b[p].batch = <<>>
        /\ at # "failed" => b[p].at # "failed" /\ gone = gone
        /\ at # "fetch" \/ b[p].chunk # 1
    BY <1>0, <2>1 DEF FlowSound
  <2>3. at \in Late => \A n \in DOMAIN chunksOf[p] : n < b[p].chunk
    BY <2>1 DEF FlowSound, Late
  <2>4. at \in Late /\ AloneIn(p, b) => buffer = <<>>
    BY <2>1 DEF FlowSound, Late
  <2>5. at = "success" /\ AloneIn(p, b) => p \in told2
    BY <1>0
  <2>6. b \in [Backfills -> BackfillRecords] /\ p \in Backfills /\ MovesTo(b, next, p, at, b[p].chunk, b[p].batch)
    BY <1>0
  <2> QED BY ONLY <2>1, <2>2, <2>3, <2>4, <2>5, <2>6, FlowStaysSound
<1> QED BY <1>3, <1>4 DEF StoreSound

\* A request fails: what it was inserting is lost.
LEMMA BackfillRequestFails ==
    ASSUME NEW b, NEW next, NEW p \in Backfills, NEW buffer, NEW inTable, NEW gone, NEW told,
           StoreSound(buffer, b, inTable, gone, told), b[p].at \notin {"success", "failed"},
           MovesTo(b, next, p, "failed", b[p].chunk, <<>>)
    PROVE  StoreSound(buffer, next, inTable, gone \cup Range(b[p].batch), told)
<1>0. b \in [Backfills -> BackfillRecords] /\ buffer \in Seq(AllRows)
  BY DEF StoreSound, RowsSound
<1>1. /\ Inserts(next)[p] = {} /\ Inserts(b)[p] = Range(b[p].batch)
      /\ \A q \in Backfills : q # p => Inserts(next)[q] = Inserts(b)[q]
  <2>1. Range(<<>>) = {}
    BY DEF Range
  <2>2. Inserts(next)[p] = Range(<<>>) /\ Inserts(b)[p] = Range(b[p].batch)
    BY <1>0 DEF Inserts, MovesTo
  <2>3. \A q \in Backfills : q # p => Inserts(next)[q] = Inserts(b)[q]
    BY <1>0 DEF Inserts, MovesTo
  <2> QED BY <2>1, <2>2, <2>3
<1>2. PICK ins, ins2 : ins = Inserts(b) /\ ins2 = Inserts(next)
  OBVIOUS
<1>3. PICK found : found = Range(b[p].batch)
  OBVIOUS
<1>8. Spreads(Everywhere(buffer, ins, inTable, gone), buffer, ins2, inTable, gone \cup found, {})
  <2>1. p \in Backfills /\ Tidy(buffer, ins, inTable, gone)
    BY <1>2 DEF StoreSound, RowsSound
  <2>2. EndsAt(ins, ins2, p, found)
    BY <1>1, <1>2, <1>3 DEF EndsAt
  <2> QED BY ONLY <2>1, <2>2, TidyEnd
<1>4. PICK lost2 : lost2 = gone \cup Range(b[p].batch)
  OBVIOUS
<1>5. GivenBy(p, b[p]) \subseteq GivenBy(p, next[p])
  BY <1>0, GivenFacts
<1>6. RowsSound(buffer, next, inTable, lost2)
  <2>1. p \in Backfills /\ RowsSound(buffer, b, inTable, gone) /\ MovesTo(b, next, p, "failed", b[p].chunk, <<>>) /\ buffer \in Seq(AllRows)
    BY <1>0 DEF StoreSound
  <2>2. Spreads(Everywhere(buffer, Inserts(b), inTable, gone), buffer, Inserts(next), inTable, lost2, {})
    BY <1>2, <1>3, <1>8, <1>4
  <2>3. Keeps(b, next, p, "failed", {})
    BY <1>5 DEF Keeps
  <2> QED BY ONLY <2>1, <2>2, <2>3, RowsStaySound
<1>7. FlowSound(buffer, next, lost2, told)
  <2>1. FlowSound(buffer, b, gone, told) /\ "failed" \notin Late
    BY DEF StoreSound, Late
  <2> QED BY <1>0, <2>1, FlowStaysSound
<1> QED BY <1>4, <1>6, <1>7 DEF StoreSound

\* flush() and the loop of bufferEvents(), by the values they lead to.
Flushes(b, next, p, batch, back, gone, lost2) ==
    IF toRowThrows(batch)
    THEN next = [b EXCEPT ![p].at = "failed", ![p].batch = <<>>] /\ lost2 = gone \cup Range(batch)
    ELSE next = [b EXCEPT ![p].at = back, ![p].batch = batch] /\ lost2 = gone

Loops(b, next, p, buffer, buffer2, gone, lost2) ==
    IF Len(buffer) >= BATCH_SIZE
    THEN /\ buffer2 = SubSeq(buffer, BATCH_SIZE + 1, Len(buffer))
         /\ Flushes(b, next, p, SubSeq(buffer, 1, BATCH_SIZE), "batch", gone, lost2)
    ELSE /\ buffer2 = buffer /\ lost2 = gone
         /\ next = [b EXCEPT ![p] = [at |-> "fetch", chunk |-> @.chunk + 1, batch |-> <<>>]]

\* The loop over the buffer takes a batch while there is a whole one.
LEMMA LoopIs ==
    ASSUME NEW p, NEW buffer
    PROVE  bufferLoop(p, buffer) <=> Loops(backfill, backfill', p, buffer, rowBuffer', lostRows, lostRows')
<1>1. CASE Len(buffer) >= BATCH_SIZE
  BY <1>1 DEF bufferLoop, Loops, flush, Flushes
<1>2. CASE ~(Len(buffer) >= BATCH_SIZE)
  BY <1>2 DEF bufferLoop, Loops
<1> QED BY <1>1, <1>2

\* What flush() leads to is a move of its own.
LEMMA FlushMoves ==
    ASSUME NEW b \in [Backfills -> BackfillRecords], NEW next, NEW p \in Backfills, NEW batch \in Seq(AllRows),
           NEW back \in {"batch", "rest"}, NEW gone, NEW lost2, Flushes(b, next, p, batch, back, gone, lost2)
    PROVE  \E at, ins2 :
             /\ LeavesBatch(at, ins2, batch, back, gone, lost2)
             /\ MovesTo(b, next, p, at, b[p].chunk, ins2)
<1>1. CASE toRowThrows(batch)
  <2>1. PICK s : s = <<>>
    OBVIOUS
  <2>2. s \in Seq(AllRows) /\ "failed" \in BackfillStates
    BY <2>1 DEF BackfillStates
  <2>3. next = [b EXCEPT ![p].at = "failed", ![p].batch = s] /\ lost2 = gone \cup Range(batch)
    BY <1>1, <2>1 DEF Flushes
  <2>4. MovesTo(b, next, p, "failed", b[p].chunk, s)
    BY <2>2, <2>3, MovesOf
  <2>5. LeavesBatch("failed", s, batch, back, gone, lost2)
    BY <2>1, <2>3 DEF LeavesBatch
  <2> QED BY <2>4, <2>5
<1>2. CASE ~toRowThrows(batch)
  <2>1. next = [b EXCEPT ![p].at = back, ![p].batch = batch] /\ lost2 = gone
    BY <1>2 DEF Flushes
  <2>2. back \in BackfillStates
    BY DEF BackfillStates
  <2>3. MovesTo(b, next, p, back, b[p].chunk, batch)
    BY <2>1, <2>2, MovesOf
  <2>4. LeavesBatch(back, batch, batch, back, gone, lost2)
    BY <2>1 DEF LeavesBatch
  <2> QED BY <2>3, <2>4
<1> QED BY <1>1, <1>2

\* The loop, from where nothing is in the hands of the request.
LEMMA LoopRuns ==
    ASSUME NEW b \in [Backfills -> BackfillRecords], NEW mid, NEW next, NEW p \in Backfills,
           NEW buffer, NEW buffer2, NEW inTable, NEW gone, NEW lost2, NEW told,
           MovesTo(b, mid, p, "batch", b[p].chunk, <<>>), StoreSound(buffer, mid, inTable, gone, told),
           Loops(b, next, p, buffer, buffer2, gone, lost2)
    PROVE  StoreSound(buffer2, next, inTable, lost2, told)
<1>1. mid[p].at = "batch" /\ mid[p].batch = <<>> /\ mid[p].chunk = b[p].chunk /\ \A q \in Backfills : q # p => mid[q] = b[q]
  BY DEF MovesTo
<1>2. buffer \in Seq(AllRows) /\ IsInjective(buffer)
  BY DEF StoreSound, RowsSound, Tidy
<1>3. Len(buffer) \in Nat /\ BATCH_SIZE \in Nat \ {0}
  BY <1>2, ColumnStoreAssumption
<1>4. CASE Len(buffer) >= BATCH_SIZE
  <2>1. BATCH_SIZE \in 0 .. Len(buffer)
    BY <1>3, <1>4
  <2>2. PICK batch, rest \in Seq(AllRows) :
           /\ batch = SubSeq(buffer, 1, BATCH_SIZE) /\ rest = SubSeq(buffer, BATCH_SIZE + 1, Len(buffer))
           /\ CutInto(buffer, batch, rest)
    BY ONLY <1>2, <2>1, CutInTwo
  <2>3. PICK back : back = "batch"
    OBVIOUS
  <2>4. buffer2 = rest /\ Flushes(b, next, p, batch, back, gone, lost2) /\ back \in {"batch", "rest"}
    BY <1>4, <2>2, <2>3 DEF Loops
  <2>5. PICK at, ins2 : LeavesBatch(at, ins2, batch, back, gone, lost2) /\ MovesTo(b, next, p, at, b[p].chunk, ins2)
    BY <2>4, FlushMoves
  <2>6. MovesTo(mid, next, p, at, mid[p].chunk, ins2)
    BY <1>1, <2>5 DEF MovesTo
  <2>7. at # "rest"
    BY <2>3, <2>5 DEF LeavesBatch
  <2>8. CutInto(buffer, batch, rest)
    BY <2>2
  <2>9. StoreSound(rest, next, inTable, lost2, told)
    <3>1. /\ MayLeave(mid, p, at, rest)
          /\ p \in Backfills /\ rest \in Seq(AllRows) /\ back \in {"batch", "rest"}
          /\ StoreSound(buffer, mid, inTable, gone, told)
      BY <1>1, <2>4, <2>7 DEF MayLeave
    <3> QED BY ONLY <3>1, <2>5, <2>6, <2>8, BatchLeaves
  <2> QED BY <2>4, <2>9
<1>5. CASE ~(Len(buffer) >= BATCH_SIZE)
  <2>1. buffer2 = buffer /\ lost2 = gone /\ next = [b EXCEPT ![p] = [at |-> "fetch", chunk |-> @.chunk + 1, batch |-> <<>>]]
    BY <1>5 DEF Loops
  <2>2. "batch" \in BackfillStates /\ <<>> \in Seq(AllRows)
    BY DEF BackfillStates
  <2>3. MovesTo(b, next, p, "fetch", b[p].chunk + 1, <<>>)
    BY <2>1, <2>2, MovesOf
  <2>4. MovesTo(mid, next, p, "fetch", mid[p].chunk + 1, <<>>)
    BY <1>1, <2>3 DEF MovesTo
  <2>5. StoreSound(buffer, next, inTable, gone, told)
    BY <1>1, <1>5, <2>4, LoopLeft
  <2> QED BY <2>1, <2>5
<1> QED BY <1>4, <1>5

\* At the start nothing is anywhere.
LEMMA ColumnInitial == ColumnInit => ColumnInv
<1> SUFFICES ASSUME ColumnInit PROVE ColumnInv
  OBVIOUS
<1>1. rowBuffer = <<>> /\ TakenOut = {} /\ lostRows = {} /\ BATCH_SIZE \in Nat \ {0}
  BY ColumnStoreAssumption DEF ColumnInit, TakenOut
<1>2. /\ backfill \in [Backfills -> BackfillRecords]
      /\ \A p \in Backfills : backfill[p].at = "fetch" /\ backfill[p].chunk = 1 /\ backfill[p].batch = <<>>
  <2>1. PICK r : r = [at |-> "fetch", chunk |-> 1, batch |-> <<>>]
    OBVIOUS
  <2>2. r \in BackfillRecords /\ r.at = "fetch" /\ r.chunk = 1 /\ r.batch = <<>>
    <3>1. <<>> \in Seq(AllRows) /\ 1 \in Nat \ {0} /\ "fetch" \in BackfillStates
      BY DEF BackfillStates
    <3> QED BY <2>1, <3>1 DEF BackfillRecords
  <2>3. backfill = [p \in Backfills |-> r]
    BY <2>1 DEF ColumnInit
  <2> QED BY <2>2, <2>3
<1>3. Range(<<>>) = {}
  BY DEF Range
<1>4. PICK ins : ins = Inserts(backfill)
  OBVIOUS
<1>5. \A p \in Backfills : ins[p] = {}
  BY <1>2, <1>3, <1>4 DEF Inserts
<1>6. Tidy(rowBuffer, ins, TakenOut, lostRows)
  <2>1. IsInjective(<<>>)
    BY DEF IsInjective
  <2> QED BY <1>1, <1>3, <1>5, <2>1 DEF Tidy
<1>7. Everywhere(rowBuffer, ins, TakenOut, lostRows) = {}
  <2>1. Inserting(ins) = {}
    BY <1>5, InsertingHas
  <2> QED BY <1>1, <1>3, <2>1 DEF Everywhere
<1>8. ASSUME NEW p \in Backfills PROVE GivenBy(p, backfill[p]) = {}
  <2>1. ASSUME NEW x \in GivenBy(p, backfill[p]) PROVE FALSE
    <3>1. PICK n \in DOMAIN chunksOf[p] : HasGiven(backfill[p], n)
      BY <2>1, GivenHas
    <3>2. n \in Nat /\ n >= 1
      BY ChunkFacts
    <3> QED BY <1>2, <3>1, <3>2 DEF HasGiven
  <2> QED BY <2>1
<1>9. RowsSound(rowBuffer, backfill, TakenOut, lostRows)
  <2>1. rowBuffer \in Seq(AllRows)
    BY <1>1
  <2> QED BY <1>2, <1>4, <1>6, <1>7, <1>8, <2>1 DEF RowsSound
<1>10. FlowSound(rowBuffer, backfill, lostRows, Ended)
  <2>1. Len(rowBuffer) = 0
    BY <1>1
  <2>2. ~(Len(rowBuffer) >= BATCH_SIZE)
    BY <1>1, <2>1
  <2> QED BY <1>1, <1>2, <2>2 DEF FlowSound, Late
<1>11. ServerSound
  <2>1. unflushed = {} /\ columns = {} /\ droppedRows = {} /\ cursorRow = [p \in Backfills |-> "none"]
    BY DEF ColumnInit
  <2>2. cursorRow \in [Backfills -> {"none", "queued", "stored", "dropped"}] /\ Ended = {}
    BY <2>1 DEF Ended
  <2> QED BY <2>1, <2>2 DEF ServerSound
<1> QED BY <1>9, <1>10, <1>11 DEF ColumnInv, StoreSound

\* ClickHouse only moves what it has answered for.
LEMMA ServerOnlyMoves ==
    ASSUME ServerSound, ServerWrites \/ ServerLoses
    PROVE  /\ TakenOut' = TakenOut /\ Ended' = Ended /\ rowBuffer' = rowBuffer /\ backfill' = backfill /\ lostRows' = lostRows
           /\ ServerSound'
<1>1. cursorRow \in [Backfills -> {"none", "queued", "stored", "dropped"}]
  BY DEF ServerSound
<1>2. rowBuffer' = rowBuffer /\ backfill' = backfill /\ lostRows' = lostRows
  BY DEF ServerWrites, ServerLoses
<1>3. ASSUME cursorRow' = cursorRow, TakenOut' = TakenOut,
             unflushed' \cap columns' = {} /\ unflushed' \cap droppedRows' = {} /\ columns' \cap droppedRows' = {}
      PROVE  Ended' = Ended /\ ServerSound'
  <2>1. Ended' = Ended
    BY <1>3 DEF Ended
  <2> QED BY <1>2, <1>3, <2>1 DEF ServerSound
<1>4. ASSUME NEW p \in Backfills, NEW r \in {"stored", "dropped"}, cursorRow[p] = "queued",
             cursorRow' = [cursorRow EXCEPT ![p] = r],
             unflushed' = unflushed, columns' = columns, droppedRows' = droppedRows
      PROVE  TakenOut' = TakenOut /\ Ended' = Ended /\ ServerSound'
  <2>1. cursorRow' \in [Backfills -> {"none", "queued", "stored", "dropped"}]
    BY <1>1, <1>4
  <2>2. \A q \in Backfills : cursorRow'[q] # "none" <=> cursorRow[q] # "none"
    BY <1>1, <1>4
  <2>3. Ended' = Ended
    BY <2>2 DEF Ended
  <2>4. TakenOut' = TakenOut
    BY <1>4 DEF TakenOut
  <2> QED BY <1>2, <1>4, <2>1, <2>3, <2>4 DEF ServerSound
<1>5. CASE ServerWrites
  <2>1. CASE unflushed' = {} /\ columns' = columns \cup unflushed /\ cursorRow' = cursorRow
    <3>1. droppedRows' = droppedRows
      BY <1>5 DEF ServerWrites
    <3>2. TakenOut' = TakenOut
      BY <2>1, <3>1 DEF TakenOut
    <3> QED BY <1>2, <1>3, <2>1, <3>1, <3>2 DEF ServerSound
  <2>2. ASSUME NEW p \in Backfills, cursorRow[p] = "queued", cursorRow' = [cursorRow EXCEPT ![p] = "stored"],
               unflushed' = unflushed, columns' = columns
        PROVE  TakenOut' = TakenOut /\ Ended' = Ended /\ ServerSound'
    BY <1>4, <1>5, <2>2 DEF ServerWrites
  <2> QED BY <1>2, <1>5, <2>1, <2>2, <1>3 DEF ServerWrites
<1>6. CASE ServerLoses
  <2>1. CASE unflushed' = {} /\ droppedRows' = droppedRows \cup unflushed /\ cursorRow' = cursorRow
    <3>1. columns' = columns
      BY <1>6 DEF ServerLoses
    <3>2. TakenOut' = TakenOut
      BY <2>1, <3>1 DEF TakenOut
    <3> QED BY <1>2, <1>3, <2>1, <3>1, <3>2 DEF ServerSound
  <2>2. ASSUME NEW p \in Backfills, cursorRow[p] = "queued", cursorRow' = [cursorRow EXCEPT ![p] = "dropped"],
               unflushed' = unflushed, droppedRows' = droppedRows
        PROVE  TakenOut' = TakenOut /\ Ended' = Ended /\ ServerSound'
    BY <1>4, <1>6, <2>2 DEF ServerLoses
  <2> QED BY <1>2, <1>6, <2>1, <2>2, <1>3 DEF ServerLoses
<1> QED BY <1>5, <1>6

\* A request moves alone, and none that has answered moves.
LEMMA RequestMoves ==
    ASSUME ColumnInv, NEW p \in Backfills,
           ChunkComplete(p) \/ flushEvents(p) \/ InsertReturns(p) \/ updateCursorCH(p) \/ BackfillFails(p)
    PROVE  backfill[p].at # "success" /\ \A q \in Backfills \ {p} : backfill'[q] = backfill[q]
<1>1. backfill \in [Backfills -> BackfillRecords]
  BY DEF ColumnInv, StoreSound, RowsSound
<1>2. backfill[p].at # "success"
  BY DEF ChunkComplete, flushEvents, InsertReturns, updateCursorCH, BackfillFails
<1>3. ASSUME NEW batch, NEW back, flush(p, batch, back) PROVE \A q \in Backfills \ {p} : backfill'[q] = backfill[q]
  BY <1>1, <1>3 DEF flush
<1>4. ASSUME NEW buffer, bufferLoop(p, buffer) PROVE \A q \in Backfills \ {p} : backfill'[q] = backfill[q]
  <2>1. CASE Len(buffer) >= BATCH_SIZE
    BY <1>3, <1>4, <2>1 DEF bufferLoop
  <2>2. CASE ~(Len(buffer) >= BATCH_SIZE)
    BY <1>1, <1>4, <2>2 DEF bufferLoop
  <2> QED BY <2>1, <2>2
<1>5. CASE ChunkComplete(p)
  BY <1>2, <1>4, <1>5 DEF ChunkComplete
<1>6. CASE flushEvents(p)
  BY <1>1, <1>2, <1>3, <1>6 DEF flushEvents
<1>7. CASE InsertReturns(p)
  <2>1. CASE backfill[p].at = "batch"
    BY <1>2, <1>4, <1>7, <2>1 DEF InsertReturns
  <2>2. CASE backfill[p].at # "batch"
    BY <1>1, <1>2, <1>7, <2>2 DEF InsertReturns
  <2> QED BY <2>1, <2>2
<1>8. CASE updateCursorCH(p)
  BY <1>1, <1>2, <1>8 DEF updateCursorCH
<1>9. CASE BackfillFails(p)
  BY <1>1, <1>2, <1>9 DEF BackfillFails
<1> QED BY <1>5, <1>6, <1>7, <1>8, <1>9

\* What ClickHouse was asked to write is in one of its places, and an end only of a request that
\* answered.
LEMMA ServerStep == ColumnInv /\ [ColumnNext]_columnvars => ServerSound'
<1> SUFFICES ASSUME ColumnInv, [ColumnNext]_columnvars PROVE ServerSound'
  OBVIOUS
<1>1. ServerSound
  BY DEF ColumnInv
<1>2. cursorRow \in [Backfills -> {"none", "queued", "stored", "dropped"}] /\ \A q \in Ended : backfill[q].at = "success"
  BY <1>1 DEF ServerSound
<1>3. ASSUME NEW p \in Backfills, ChunkComplete(p) \/ flushEvents(p) \/ BackfillFails(p) PROVE ServerSound'
  <2>1. unflushed' = unflushed /\ columns' = columns /\ droppedRows' = droppedRows /\ cursorRow' = cursorRow
    BY <1>3 DEF ChunkComplete, flushEvents, BackfillFails, clickhousevars
  <2>2. Ended' = Ended
    BY <2>1 DEF Ended
  <2>3. backfill[p].at # "success" /\ \A q \in Backfills \ {p} : backfill'[q] = backfill[q]
    BY <1>3, RequestMoves
  <2>4. \A q \in Ended' : backfill'[q].at = "success"
    BY <1>2, <2>2, <2>3 DEF Ended
  <2> QED BY <1>1, <2>1, <2>4 DEF ServerSound
<1>4. ASSUME NEW p \in Backfills, InsertReturns(p) PROVE ServerSound'
  <2>1. /\ unflushed' = unflushed \cup Range(backfill[p].batch) /\ columns' = columns
        /\ droppedRows' = droppedRows /\ cursorRow' = cursorRow
    BY <1>4 DEF InsertReturns
  <2>2. Inserts(backfill)[p] \cap TakenOut = {}
    BY DEF ColumnInv, StoreSound, RowsSound, Tidy
  <2>3. Range(backfill[p].batch) \cap TakenOut = {}
    BY <2>2 DEF Inserts
  <2>4. unflushed' \cap columns' = {} /\ unflushed' \cap droppedRows' = {} /\ columns' \cap droppedRows' = {}
    BY <1>1, <2>1, <2>3 DEF ServerSound, TakenOut
  <2>5. Ended' = Ended
    BY <2>1 DEF Ended
  <2>6. backfill[p].at # "success" /\ \A q \in Backfills \ {p} : backfill'[q] = backfill[q]
    BY <1>4, RequestMoves
  <2>7. \A q \in Ended' : backfill'[q].at = "success"
    BY <1>2, <2>5, <2>6 DEF Ended
  <2> QED BY <1>2, <2>1, <2>4, <2>7 DEF ServerSound
<1>5. ASSUME NEW p \in Backfills, updateCursorCH(p) PROVE ServerSound'
  <2>1. /\ unflushed' = unflushed /\ columns' = columns /\ droppedRows' = droppedRows
        /\ cursorRow' = [cursorRow EXCEPT ![p] = "queued"] /\ backfill' = [backfill EXCEPT ![p].at = "success"]
    BY <1>5 DEF updateCursorCH
  <2>2. backfill \in [Backfills -> BackfillRecords]
    BY DEF ColumnInv, StoreSound, RowsSound
  <2>3. backfill'[p].at = "success" /\ \A q \in Backfills \ {p} : backfill'[q] = backfill[q]
    BY <2>1, <2>2 DEF BackfillRecords
  <2>4. \A q \in Backfills \ {p} : cursorRow'[q] = cursorRow[q]
    BY <1>2, <2>1
  <2>5. ASSUME NEW q \in Ended' PROVE backfill'[q].at = "success"
    <3>1. q \in Backfills /\ cursorRow'[q] # "none"
      BY <2>5 DEF Ended
    <3>2. CASE q = p
      BY <2>3, <3>2
    <3>3. CASE q # p
      <4>1. q \in Ended
        BY <2>4, <3>1, <3>3 DEF Ended
      <4> QED BY <1>2, <2>3, <3>1, <3>3, <4>1
    <3> QED BY <3>2, <3>3
  <2>6. cursorRow' \in [Backfills -> {"none", "queued", "stored", "dropped"}]
    BY <1>2, <2>1
  <2> QED BY <1>1, <2>1, <2>5, <2>6 DEF ServerSound
<1>6. CASE ServerWrites \/ ServerLoses
  BY <1>1, <1>6, ServerOnlyMoves
<1>7. CASE UNCHANGED columnvars
  <2>1. Ended' = Ended
    BY <1>7 DEF columnvars, clickhousevars, Ended
  <2> QED BY <1>1, <1>7, <2>1 DEF columnvars, clickhousevars, ServerSound
<1> QED BY <1>3, <1>4, <1>5, <1>6, <1>7 DEF ColumnNext

\* Every turn of a request keeps the invariant.
LEMMA ColumnStep == ColumnInv /\ [ColumnNext]_columnvars => ColumnInv'
<1> SUFFICES ASSUME ColumnInv, [ColumnNext]_columnvars PROVE ColumnInv'
  OBVIOUS
<1>8. ServerSound'
  BY ServerStep
<1>0. StoreSound(rowBuffer, backfill, TakenOut, lostRows, Ended) /\ backfill \in [Backfills -> BackfillRecords] /\ rowBuffer \in Seq(AllRows)
  BY DEF ColumnInv, StoreSound, RowsSound
<1> SUFFICES StoreSound(rowBuffer', backfill', TakenOut', lostRows', Ended')
  BY <1>8 DEF ColumnInv
<1>1. "batch" \in BackfillStates /\ "cursor" \in BackfillStates /\ "success" \in BackfillStates /\ "failed" \in BackfillStates /\ <<>> \in Seq(AllRows)
  BY DEF BackfillStates
<1>2. ASSUME NEW p \in Backfills, ChunkComplete(p) PROVE StoreSound(rowBuffer', backfill', TakenOut', lostRows', Ended')
  <2>1. PICK b, next, mid : b = backfill /\ next = backfill' /\ mid = [b EXCEPT ![p].at = "batch", ![p].batch = <<>>]
    OBVIOUS
  <2>2. /\ b \in [Backfills -> BackfillRecords] /\ b[p].at = "fetch" /\ b[p].chunk <= Len(chunksOf[p])
        /\ StoreSound(rowBuffer, b, TakenOut, lostRows, Ended)
    BY <1>0, <1>2, <2>1 DEF ChunkComplete
  <2>3. MovesTo(b, mid, p, "batch", b[p].chunk, <<>>)
    BY <1>1, <2>1, <2>2, MovesOf
  <2>4. PICK buffer : buffer = rowBuffer \o chunksOf[p][b[p].chunk]
    OBVIOUS
  <2>5. StoreSound(buffer, mid, TakenOut, lostRows, Ended)
    BY <2>2, <2>3, <2>4, ChunkComes
  <2>6. bufferLoop(p, buffer) /\ TakenOut' = TakenOut /\ Ended' = Ended
    BY <1>2, <2>1, <2>4 DEF ChunkComplete, clickhousevars, TakenOut, Ended
  <2>7. Loops(b, next, p, buffer, rowBuffer', lostRows, lostRows')
    BY <2>1, <2>6, LoopIs
  <2>8. StoreSound(rowBuffer', next, TakenOut, lostRows', Ended)
    BY ONLY <2>2, <2>3, <2>5, <2>7, p \in Backfills, LoopRuns
  <2> QED BY <2>1, <2>6, <2>8
<1>3. ASSUME NEW p \in Backfills, flushEvents(p) PROVE StoreSound(rowBuffer', backfill', TakenOut', lostRows', Ended')
  <2>1. PICK b, next : b = backfill /\ next = backfill'
    OBVIOUS
  <2>2. /\ b \in [Backfills -> BackfillRecords] /\ b[p].at = "fetch" /\ b[p].chunk > Len(chunksOf[p]) /\ rowBuffer' = <<>>
        /\ StoreSound(rowBuffer, b, TakenOut, lostRows, Ended) /\ TakenOut' = TakenOut /\ Ended' = Ended
    BY <1>0, <1>3, <2>1 DEF flushEvents, clickhousevars, TakenOut, Ended
  <2>3. \A n \in DOMAIN chunksOf[p] : n < b[p].chunk
    <3>1. b[p].chunk \in Nat
      BY <2>2 DEF BackfillRecords
    <3>2. Len(chunksOf[p]) \in Nat /\ DOMAIN chunksOf[p] = 1 .. Len(chunksOf[p])
      BY ChunkFacts
    <3> QED BY <2>2, <3>1, <3>2
  <2>4. CASE rowBuffer = <<>>
    <3>1. next = [b EXCEPT ![p].at = "cursor"] /\ lostRows' = lostRows
      BY <1>3, <2>1, <2>4 DEF flushEvents
    <3>2. MovesTo(b, next, p, "cursor", b[p].chunk, b[p].batch)
      BY <1>1, <2>2, <3>1, MovesOf
    <3>3. StoreSound(rowBuffer, next, TakenOut, lostRows, Ended)
      BY <2>2, <2>3, <2>4, <3>2, GoesOn
    <3> QED BY <2>1, <2>2, <2>4, <3>1, <3>3
  <2>5. CASE rowBuffer # <<>>
    <3>1. PICK back : back = "rest"
      OBVIOUS
    <3>0. Flushes(b, next, p, rowBuffer, back, lostRows, lostRows') /\ back \in {"batch", "rest"}
      BY <1>3, <2>1, <2>5, <3>1 DEF flushEvents, flush, Flushes
    <3>2. PICK at, ins2 : LeavesBatch(at, ins2, rowBuffer, back, lostRows, lostRows') /\ MovesTo(b, next, p, at, b[p].chunk, ins2)
      BY <1>0, <2>2, <3>0, FlushMoves
    <3>3. PICK rest : rest = <<>>
      OBVIOUS
    <3>4. rest \in Seq(AllRows) /\ CutInto(rowBuffer, rowBuffer, rest)
      <4>1. Range(<<>>) = {} /\ IsInjective(<<>>)
        BY DEF Range, IsInjective
      <4> QED BY <1>1, <3>3, <4>1 DEF CutInto
    <3>6. b[p].batch = <<>> /\ at # "batch"
      BY <2>2, <3>1, <3>2 DEF StoreSound, FlowSound, LeavesBatch
    <3>7. StoreSound(rest, next, TakenOut, lostRows', Ended)
      <4>1. /\ MayLeave(b, p, at, rest) /\ p \in Backfills
            /\ StoreSound(rowBuffer, b, TakenOut, lostRows, Ended)
        BY <2>2, <2>3, <3>3, <3>6 DEF MayLeave
      <4> QED BY ONLY <4>1, <3>0, <3>2, <3>4, BatchLeaves
    <3> QED BY <2>1, <2>2, <3>3, <3>7
  <2> QED BY <2>4, <2>5
<1>4. ASSUME NEW p \in Backfills, InsertReturns(p) PROVE StoreSound(rowBuffer', backfill', TakenOut', lostRows', Ended')
  <2>1. PICK b, next : b = backfill /\ next = backfill'
    OBVIOUS
  <2>2. /\ b \in [Backfills -> BackfillRecords] /\ b[p].at \in {"batch", "rest"} /\ TakenOut' = TakenOut \cup Range(b[p].batch)
        /\ StoreSound(rowBuffer, b, TakenOut, lostRows, Ended) /\ Ended' = Ended
    BY <1>0, <1>4, <2>1 DEF InsertReturns, TakenOut, Ended
  <2>3. CASE b[p].at = "batch"
    <3>1. PICK mid : mid = [b EXCEPT ![p].at = "batch", ![p].batch = <<>>]
      OBVIOUS
    <3>2. MovesTo(b, mid, p, "batch", b[p].chunk, <<>>)
      BY <1>1, <2>2, <3>1, MovesOf
    <3>3. StoreSound(rowBuffer, mid, TakenOut', lostRows, Ended)
      BY <2>2, <2>3, <3>2, InsertEnds
    <3>4. Loops(b, next, p, rowBuffer, rowBuffer', lostRows, lostRows')
      BY <1>4, <2>1, <2>3, LoopIs DEF InsertReturns
    <3>5. StoreSound(rowBuffer', next, TakenOut', lostRows', Ended)
      BY ONLY <2>2, <3>2, <3>3, <3>4, p \in Backfills, LoopRuns
    <3> QED BY <2>1, <2>2, <3>5
  <2>4. CASE b[p].at = "rest"
    <3>1. next = [b EXCEPT ![p].at = "cursor", ![p].batch = <<>>] /\ rowBuffer' = rowBuffer /\ lostRows' = lostRows
      BY <1>4, <2>1, <2>4 DEF InsertReturns
    <3>2. MovesTo(b, next, p, "cursor", b[p].chunk, <<>>)
      BY <1>1, <2>2, <3>1, MovesOf
    <3>3. StoreSound(rowBuffer, next, TakenOut', lostRows, Ended)
      BY <2>2, <2>4, <3>2, InsertEnds
    <3> QED BY <2>1, <2>2, <3>1, <3>3
  <2> QED BY <2>2, <2>3, <2>4
<1>5. ASSUME NEW p \in Backfills, updateCursorCH(p) PROVE StoreSound(rowBuffer', backfill', TakenOut', lostRows', Ended')
  <2>1. PICK b, next : b = backfill /\ next = backfill'
    OBVIOUS
  <2>2. /\ b \in [Backfills -> BackfillRecords] /\ b[p].at = "cursor" /\ p \in Ended'
        /\ next = [b EXCEPT ![p].at = "success"]
        /\ StoreSound(rowBuffer, b, TakenOut, lostRows, Ended)
        /\ rowBuffer' = rowBuffer /\ TakenOut' = TakenOut /\ lostRows' = lostRows
    <3>1. cursorRow' = [cursorRow EXCEPT ![p] = "queued"] /\ cursorRow \in [Backfills -> {"none", "queued", "stored", "dropped"}]
      BY <1>5 DEF updateCursorCH, ColumnInv, ServerSound
    <3>2. cursorRow'[p] = "queued"
      BY <3>1
    <3>3. p \in Ended'
      BY <3>2 DEF Ended
    <3> QED BY <1>0, <1>5, <2>1, <3>3 DEF updateCursorCH, TakenOut
  <2>3. MovesTo(b, next, p, "success", b[p].chunk, b[p].batch)
    BY <1>1, <2>2, MovesOf
  <2>4. StoreSound(rowBuffer, next, TakenOut, lostRows, Ended')
    BY <2>2, <2>3, GoesOn
  <2> QED BY <2>1, <2>2, <2>4
<1>6. ASSUME NEW p \in Backfills, BackfillFails(p) PROVE StoreSound(rowBuffer', backfill', TakenOut', lostRows', Ended')
  <2>1. PICK b, next : b = backfill /\ next = backfill'
    OBVIOUS
  <2>2. /\ b \in [Backfills -> BackfillRecords] /\ b[p].at \notin {"success", "failed"}
        /\ next = [b EXCEPT ![p].at = "failed", ![p].batch = <<>>]
        /\ StoreSound(rowBuffer, b, TakenOut, lostRows, Ended)
        /\ rowBuffer' = rowBuffer /\ TakenOut' = TakenOut /\ lostRows' = lostRows \cup Range(b[p].batch) /\ Ended' = Ended
    BY <1>0, <1>6, <2>1 DEF BackfillFails, clickhousevars, TakenOut, Ended
  <2>3. MovesTo(b, next, p, "failed", b[p].chunk, <<>>)
    BY <1>1, <2>2, MovesOf
  <2>4. StoreSound(rowBuffer, next, TakenOut, lostRows', Ended)
    BY <2>2, <2>3, BackfillRequestFails
  <2> QED BY <2>1, <2>2, <2>4
<1>7. CASE UNCHANGED columnvars
  <2>1. TakenOut' = TakenOut /\ Ended' = Ended
    BY <1>7 DEF columnvars, clickhousevars, TakenOut, Ended
  <2> QED BY <1>0, <1>7, <2>1 DEF columnvars
<1>9. CASE ServerWrites \/ ServerLoses
  <2>1. TakenOut' = TakenOut /\ Ended' = Ended /\ rowBuffer' = rowBuffer /\ backfill' = backfill /\ lostRows' = lostRows
    BY <1>9, ServerOnlyMoves DEF ColumnInv
  <2> QED BY <1>0, <2>1
<1> QED BY <1>2, <1>3, <1>4, <1>5, <1>6, <1>7, <1>9 DEF ColumnNext

\* What the invariant says of the rows and of a request that was alone.
LEMMA ColumnFacts == ColumnInv => ColumnStoreSafety
<1> SUFFICES ASSUME ColumnInv PROVE RowsInOnePlace /\ SuccessAloneIsHandedOver
  BY DEF ColumnStoreSafety
<1>0. /\ backfill \in [Backfills -> BackfillRecords] /\ rowBuffer \in Seq(AllRows)
      /\ Tidy(rowBuffer, Inserts(backfill), TakenOut, lostRows)
      /\ \A q \in Backfills : backfill[q].at # "failed"
            => GivenBy(q, backfill[q]) \subseteq Everywhere(rowBuffer, Inserts(backfill), TakenOut, lostRows)
  BY DEF ColumnInv, StoreSound, RowsSound
<1>1. PICK ins : ins = Inserts(backfill)
  OBVIOUS
<1>2. \A p \in Backfills : ins[p] = Range(backfill[p].batch)
  BY <1>1 DEF Inserts
<1>3. Range(<<>>) = {}
  BY DEF Range
<1>4. PICK now : now = UNION {Range(backfill[p].batch) : p \in InFlight}
  OBVIOUS
<1>5. now = Inserting(ins)
  <2>1. ASSUME NEW x \in now PROVE x \in Inserting(ins)
    <3>1. PICK p \in InFlight : x \in Range(backfill[p].batch)
      BY <1>4, <2>1
    <3>2. p \in Backfills
      BY DEF InFlight
    <3> QED BY <1>2, <3>1, <3>2, InsertingHas
  <2>2. ASSUME NEW x \in Inserting(ins) PROVE x \in now
    <3>1. PICK p \in Backfills : x \in ins[p]
      BY <2>2, InsertingHas
    <3>2. x \in Range(backfill[p].batch) /\ backfill[p].batch # <<>>
      BY <1>2, <1>3, <3>1
    <3>3. p \in InFlight
      BY <3>2 DEF InFlight
    <3>4. Range(backfill[p].batch) \in {Range(backfill[q].batch) : q \in InFlight}
      BY <3>3
    <3> QED BY <1>4, <3>2, <3>4
  <2> QED BY <2>1, <2>2
<1>6. /\ IsInjective(rowBuffer)
      /\ \A p, q \in Backfills : p # q => ins[p] \cap ins[q] = {}
      /\ \A p \in Backfills : ins[p] \cap Range(rowBuffer) = {} /\ ins[p] \cap TakenOut = {} /\ ins[p] \cap lostRows = {}
      /\ Range(rowBuffer) \cap TakenOut = {} /\ Range(rowBuffer) \cap lostRows = {} /\ TakenOut \cap lostRows = {}
  BY <1>0, <1>1 DEF Tidy
<1>7. Range(rowBuffer) \cap now = {} /\ now \cap TakenOut = {} /\ now \cap lostRows = {}
  BY <1>5, <1>6, InsertingHas
<1>8. PICK inBuffer : inBuffer = Range(rowBuffer)
  OBVIOUS
<1>9. PICK places : places = <<inBuffer, now, unflushed, columns, droppedRows, lostRows>>
  OBVIOUS
<1>19. /\ unflushed \cap columns = {} /\ unflushed \cap droppedRows = {} /\ columns \cap droppedRows = {}
       /\ TakenOut = unflushed \cup columns \cup droppedRows
  BY DEF ColumnInv, ServerSound, TakenOut
<1>20. /\ DOMAIN places = 1 .. 6 /\ places[1] = inBuffer /\ places[2] = now /\ places[3] = unflushed
       /\ places[4] = columns /\ places[5] = droppedRows /\ places[6] = lostRows
  BY <1>9
<1>10. \A m, n \in DOMAIN places : m < n => places[m] \cap places[n] = {}
  <2>1. inBuffer \cap now = {} /\ inBuffer \cap TakenOut = {} /\ inBuffer \cap lostRows = {}
    BY <1>6, <1>7, <1>8
  <2>2. now \cap TakenOut = {} /\ now \cap lostRows = {} /\ TakenOut \cap lostRows = {}
    BY <1>6, <1>7
  <2>3. ASSUME NEW T \in {unflushed, columns, droppedRows}
        PROVE  inBuffer \cap T = {} /\ now \cap T = {} /\ T \cap lostRows = {}
    <3>1. T \subseteq TakenOut
      BY <1>19
    <3> QED BY ONLY <2>1, <2>2, <3>1
  <2>4. ASSUME NEW n \in 2 .. 6 PROVE places[1] \cap places[n] = {}
    <3>1. n = 2 \/ n = 3 \/ n = 4 \/ n = 5 \/ n = 6
      OBVIOUS
    <3> QED BY <1>20, <2>1, <2>3, <3>1
  <2>5. ASSUME NEW n \in 3 .. 6 PROVE places[2] \cap places[n] = {}
    <3>1. n = 3 \/ n = 4 \/ n = 5 \/ n = 6
      OBVIOUS
    <3> QED BY <1>20, <2>2, <2>3, <3>1
  <2>6. ASSUME NEW m \in 3 .. 5, NEW n \in 4 .. 6, m < n PROVE places[m] \cap places[n] = {}
    <3>1. \/ m = 3 /\ n \in {4, 5, 6}
          \/ m = 4 /\ n \in {5, 6}
          \/ m = 5 /\ n = 6
      BY <2>6
    <3> QED BY <1>19, <1>20, <2>3, <3>1
  <2>7. ASSUME NEW m \in 1 .. 6, NEW n \in 1 .. 6, m < n PROVE places[m] \cap places[n] = {}
    <3>1. \/ m = 1 /\ n \in 2 .. 6
          \/ m = 2 /\ n \in 3 .. 6
          \/ m \in 3 .. 5 /\ n \in 4 .. 6
      BY <2>7
    <3> QED BY <2>4, <2>5, <2>6, <2>7, <3>1
  <2> QED BY <1>20, <2>7
<1>11. ASSUME NEW p \in Backfills PROVE Buffered(p) = GivenBy(p, backfill[p])
  BY DEF Buffered, GivenBy, HasGiven
<1>12. Everywhere(rowBuffer, ins, TakenOut, lostRows) = inBuffer \cup now \cup TakenOut \cup lostRows
  BY <1>5, <1>8 DEF Everywhere
<1>13. \A p \in Backfills : backfill[p].at # "failed" => Buffered(p) \subseteq UNION Range(places)
  <2>1. \A n \in 1 .. 6 : places[n] \in Range(places)
    BY <1>20 DEF Range
  <2>2. \A n \in 1 .. 6 : places[n] \subseteq UNION Range(places)
    BY <2>1
  <2>3. inBuffer \cup now \cup TakenOut \cup lostRows \subseteq UNION Range(places)
    <3>1. /\ places[1] \subseteq UNION Range(places) /\ places[2] \subseteq UNION Range(places)
          /\ places[3] \subseteq UNION Range(places) /\ places[4] \subseteq UNION Range(places)
          /\ places[5] \subseteq UNION Range(places) /\ places[6] \subseteq UNION Range(places)
      BY <2>2
    <3> QED BY <1>19, <1>20, <3>1
  <2> QED BY <1>0, <1>1, <1>11, <1>12, <2>3
<1>14. \A p, q \in InFlight : p # q => Range(backfill[p].batch) \cap Range(backfill[q].batch) = {}
  BY <1>2, <1>6 DEF InFlight
<1>15. Len(rowBuffer) >= BATCH_SIZE => \E p \in Backfills : backfill[p].at \in {"batch", "failed"}
  BY DEF ColumnInv, StoreSound, FlowSound
<1>16. RowsInOnePlace
  BY <1>4, <1>6, <1>8, <1>9, <1>10, <1>13, <1>14, <1>15 DEF RowsInOnePlace
<1>17. ASSUME NEW p \in Backfills, backfill[p].at = "success",
              \A q \in Backfills \ {p} : backfill[q].chunk = 1 /\ backfill[q].at = "fetch"
       PROVE  RowsOf(p) \subseteq TakenOut /\ p \in Ended
  <2>1. AloneIn(p, backfill)
    BY <1>17 DEF AloneIn
  <2>2. FlowSound(rowBuffer, backfill, lostRows, Ended)
    BY DEF ColumnInv, StoreSound
  <2>3. rowBuffer = <<>> /\ p \in Ended /\ \A n \in DOMAIN chunksOf[p] : n < backfill[p].chunk
    BY <1>17, <2>1, <2>2 DEF FlowSound, Late
  <2>4. lostRows = {}
    <3>1. \A q \in Backfills : backfill[q].at # "failed"
      BY <1>17
    <3> QED BY <2>2, <3>1 DEF FlowSound
  <2>5. \A q \in Backfills : ins[q] = {}
    <3>1. \A q \in Backfills : backfill[q].at \notin {"batch", "rest"}
      BY <1>17
    <3>2. \A q \in Backfills : backfill[q].batch = <<>>
      BY <2>2, <3>1 DEF FlowSound
    <3> QED BY <1>2, <1>3, <3>2
  <2>6. Everywhere(rowBuffer, ins, TakenOut, lostRows) = TakenOut
    <3>1. Inserting(ins) = {}
      BY <2>5, InsertingHas
    <3> QED BY <1>3, <2>3, <2>4, <3>1 DEF Everywhere
  <2>7. GivenBy(p, backfill[p]) \subseteq TakenOut
    BY <1>0, <1>1, <1>17, <2>6
  <2>8. ASSUME NEW x \in RowsOf(p) PROVE x \in TakenOut
    <3>1. PICK n \in DOMAIN chunksOf[p] : x \in Range(chunksOf[p][n])
      BY <2>8 DEF RowsOf
    <3>2. HasGiven(backfill[p], n)
      BY <2>3 DEF HasGiven
    <3>3. x \in GivenBy(p, backfill[p])
      BY <3>1, <3>2, GivenHas
    <3> QED BY <2>7, <3>3
  <2> QED BY <2>3, <2>8
<1>18. SuccessAloneIsHandedOver
  <2>1. \A p \in Ended : backfill[p].at = "success"
    BY DEF ColumnInv, ServerSound
  <2>2. ASSUME NEW p \in Backfills, Alone(p), backfill[p].at = "success" \/ cursorRow[p] # "none"
        PROVE  RowsOf(p) \subseteq unflushed \cup columns \cup droppedRows /\ cursorRow[p] # "none"
    <3>1. backfill[p].at = "success"
      BY <2>1, <2>2 DEF Ended
    <3>2. RowsOf(p) \subseteq TakenOut /\ p \in Ended
      BY <1>17, <2>2, <3>1 DEF Alone
    <3> QED BY <1>19, <3>2 DEF Ended
  <2> QED BY <2>2 DEF SuccessAloneIsHandedOver
<1> QED BY <1>16, <1>18

\* However the requests of POST /api/ingest-historical take turns, a row that was buffered is in
\* one place, and one that had the buffer to itself and answers "success" has handed all of
\* its rows to ClickHouse.
THEOREM ColumnsCorrect == ColumnSpec => []ColumnStoreSafety
<1>1. ColumnInit => ColumnInv
  BY ColumnInitial
<1>2. ColumnInv /\ [ColumnNext]_columnvars => ColumnInv'
  BY ColumnStep
<1>3. ColumnInv => ColumnStoreSafety
  BY ColumnFacts
<1> QED BY <1>1, <1>2, <1>3, PTL DEF ColumnSpec
-----------------------------------------------------------------------------
(* The GraphQL endpoint.                                                 *)

FieldSet == StandardFields \cup {CustomField}
GqlContracts == Range(BuiltIn) \cup CustomContracts
FieldNames == [field : FieldSet, id : Range(shortIdOf)]
ResultRecords == [row : Nat, slots : Seq(Nat), since : Nat]
ResolverRecords == [no : Nat, name : FieldNames, query : GraphQueries, contract : GqlContracts,
                    page : Seq(Nat), results : Seq(ResultRecords)]
Slots == 0 .. ADDRESS_POOL_SIZE - 1

\* The slot that is written when d others have been.
AheadOf(at, d) == IF at + d < ADDRESS_POOL_SIZE THEN at + d ELSE at + d - ADDRESS_POOL_SIZE

\* A row of m addresses: until the pool has come round its slots are the last to be written
\* again, in their order, and hold its own addresses.
Fresh(x, m, pool, at) ==
    x.since + m <= ADDRESS_POOL_SIZE =>
        \A k \in 1 .. m : /\ k \in DOMAIN x.slots
                          /\ x.slots[k] = AheadOf(at, ADDRESS_POOL_SIZE - x.since - m + k - 1)
                          /\ pool[x.slots[k]] = <<x.row, k + 1>>

Within(q, count) == q.limit # Unset /\ q.limit >= 0 => count <= q.limit

ResolverSound(r, pool, at) ==
    /\ r \in ResolverRecords /\ shortIdOf[r.contract] = r.name.id
    /\ \A n \in 1 .. Len(r.page) : StoredRows[r.page[n]].contract = r.contract
    /\ \A n \in 1 .. Len(r.results) : /\ StoredRows[r.results[n].row].contract = r.contract
                                      /\ Fresh(r.results[n], Len(r.name.field.addresses), pool, at)
    /\ computeNodeComplexity(r.query) <= maxComplexity
    /\ Within(r.query, Len(r.page) + Len(r.results))

AnswerSound(a) ==
    /\ shortIdOf[a.contract] = a.name.id
    /\ \A n \in DOMAIN a.rows :
          /\ StoredRows[a.rows[n].row].contract = a.contract
          /\ a.rows[n].since <= ADDRESS_POOL_SIZE - Len(a.name.field.addresses)
                => \A k \in 1 .. Len(a.name.field.addresses) : a.rows[n].shown[k] = <<a.rows[n].row, k + 1>>
    /\ a.query.limit # Unset /\ a.query.limit >= 0 => 1 + Len(a.rows) * a.query.selects <= maxComplexity

PoolOK(pool, at) == pool = [k \in Slots |-> pool[k]] /\ at \in Slots

GqlInv ==
    /\ customAbis \in Seq(CustomContracts) /\ PoolOK(addressPool, addressPoolIndex) /\ gqlPosts \in Nat
    /\ cachedSchema # NoSchema => cachedSchema = buildSchema(customAbis)
    /\ \A r \in resolvers : ResolverSound(r, addressPool, addressPoolIndex)
    /\ \A a \in gqlAnswers : AnswerSound(a)

\* The index behind one, and the pool with one slot written.
LEMMA NextSlot ==
    ASSUME NEW at \in Slots
    PROVE  (at + 1) % ADDRESS_POOL_SIZE = IF at + 1 = ADDRESS_POOL_SIZE THEN 0 ELSE at + 1
<1>1. ASSUME NEW S \in Nat \ {0}, NEW n \in 0 .. S - 1 PROVE (n + 1) % S = IF n + 1 = S THEN 0 ELSE n + 1
  <2>1. CASE n + 1 = S
    BY <2>1
  <2>2. CASE n + 1 # S
    <3>1. n + 1 \in 0 .. S - 1
      BY <2>2
    <3> QED BY <2>2, <3>1
  <2> QED BY <2>1, <2>2
<1>2. ADDRESS_POOL_SIZE \in Nat \ {0}
  BY GraphQLAssumption
<1> QED BY <1>1, <1>2 DEF Slots

\* One address decoded takes one slot.
LEMMA OneDecoded ==
    ASSUME NEW pool, NEW at, PoolOK(pool, at), NEW v
    PROVE  \E pool2, at2 :
             /\ decodeAddress(pool, at, v) = <<pool2, at2>> /\ PoolOK(pool2, at2)
             /\ at2 = IF at + 1 = ADDRESS_POOL_SIZE THEN 0 ELSE at + 1
             /\ pool2[at] = v /\ \A k \in Slots : k # at => pool2[k] = pool[k]
<1>1. PICK pool2, at2 : pool2 = [pool EXCEPT ![at] = v] /\ at2 = (at + 1) % ADDRESS_POOL_SIZE
  OBVIOUS
<1>2. decodeAddress(pool, at, v) = <<pool2, at2>>
  BY <1>1 DEF decodeAddress
<1>3. at2 = IF at + 1 = ADDRESS_POOL_SIZE THEN 0 ELSE at + 1
  BY <1>1, NextSlot DEF PoolOK
<1>4. at2 \in Slots
  <2>1. at \in Slots /\ ADDRESS_POOL_SIZE \in Nat \ {0}
    BY GraphQLAssumption DEF PoolOK
  <2> QED BY <1>3, <2>1 DEF Slots
<1>5. pool2 = [k \in Slots |-> pool2[k]] /\ pool2[at] = v /\ \A k \in Slots : k # at => pool2[k] = pool[k]
  BY <1>1 DEF PoolOK
<1> QED BY <1>2, <1>3, <1>4, <1>5 DEF PoolOK

\* A row that is fresh ages by one address.
LEMMA FreshAges ==
    ASSUME NEW pool, NEW at, PoolOK(pool, at), NEW pool2, NEW at2,
           at2 = IF at + 1 = ADDRESS_POOL_SIZE THEN 0 ELSE at + 1,
           \A k \in Slots : k # at => pool2[k] = pool[k],
           NEW x, NEW y, x.since \in Nat, y.since = x.since + 1, y.slots = x.slots, y.row = x.row,
           NEW m \in 1 .. 2, Fresh(x, m, pool, at)
    PROVE  Fresh(y, m, pool2, at2)
<1>1. SUFFICES ASSUME y.since + m <= ADDRESS_POOL_SIZE, NEW k \in 1 .. m
      PROVE  /\ k \in DOMAIN y.slots
             /\ y.slots[k] = AheadOf(at2, ADDRESS_POOL_SIZE - y.since - m + k - 1)
             /\ pool2[y.slots[k]] = <<y.row, k + 1>>
  BY DEF Fresh
<1>2. PICK S, since, d : S = ADDRESS_POOL_SIZE /\ since = x.since /\ d = S - since - m + k - 1
  OBVIOUS
<1>3. S \in Nat \ {0} /\ since \in Nat /\ at \in 0 .. S - 1 /\ m \in Nat /\ k \in Nat /\ 1 <= k /\ k <= m /\ y.since = since + 1
  BY <1>2, GraphQLAssumption DEF PoolOK, Slots
<1>4. since + 1 + m <= S /\ since + m <= S
  BY <1>1, <1>2, <1>3
<1>5. k \in DOMAIN x.slots /\ x.slots[k] = AheadOf(at, d) /\ pool[x.slots[k]] = <<x.row, k + 1>>
  <2>1. x.since + m <= ADDRESS_POOL_SIZE
    BY <1>2, <1>4
  <2> QED BY <1>2, <2>1 DEF Fresh
<1>6. d \in 1 .. S - 1 /\ S - (since + 1) - m + k - 1 = d - 1
  BY <1>2, <1>3, <1>4
<1>7. AheadOf(at2, d - 1) = AheadOf(at, d) /\ AheadOf(at, d) \in Slots /\ AheadOf(at, d) # at
  <2>1. AheadOf(at, d) = (IF at + d < S THEN at + d ELSE at + d - S)
    BY <1>2 DEF AheadOf
  <2>2. AheadOf(at2, d - 1) = (IF at2 + (d - 1) < S THEN at2 + (d - 1) ELSE at2 + (d - 1) - S)
    BY <1>2 DEF AheadOf
  <2>3. at2 = IF at + 1 = S THEN 0 ELSE at + 1
    BY <1>2
  <2> QED BY <1>2, <1>3, <1>6, <2>1, <2>2, <2>3 DEF Slots
<1>8. pool2[x.slots[k]] = pool[x.slots[k]]
  BY <1>5, <1>7
<1>9. ADDRESS_POOL_SIZE - y.since - m + k - 1 = d - 1
  BY <1>2, <1>3, <1>6
<1> QED BY <1>5, <1>7, <1>8, <1>9

\* What a turn does to the pool: rows that are fresh stay so, count addresses older, and the
\* row's own slots hold its addresses.
Ages(pool, at, pool2, at2, count) ==
    \A x, y, m : /\ x.since \in Nat /\ y.since = x.since + count /\ y.slots = x.slots /\ y.row = x.row
                 /\ m \in 1 .. 2 /\ Fresh(x, m, pool, at)
                 => Fresh(y, m, pool2, at2)

\* A slot written later is younger.
LEMMA AgesOnce ==
    ASSUME NEW pool, NEW at, PoolOK(pool, at), NEW pool2, NEW at2,
           at2 = IF at + 1 = ADDRESS_POOL_SIZE THEN 0 ELSE at + 1,
           \A k \in Slots : k # at => pool2[k] = pool[k]
    PROVE  Ages(pool, at, pool2, at2, 1)
<1> SUFFICES ASSUME NEW x, NEW y, NEW m, x.since \in Nat, y.since = x.since + 1, y.slots = x.slots, y.row = x.row,
                    m \in 1 .. 2, Fresh(x, m, pool, at)
             PROVE  Fresh(y, m, pool2, at2)
  BY DEF Ages
<1> QED BY FreshAges

\* And so after two.
LEMMA AgesTwice ==
    ASSUME NEW pool, NEW at, NEW pool1, NEW at1, NEW pool2, NEW at2,
           Ages(pool, at, pool1, at1, 1), Ages(pool1, at1, pool2, at2, 1)
    PROVE  Ages(pool, at, pool2, at2, 2)
<1> SUFFICES ASSUME NEW x, NEW y, NEW m, x.since \in Nat, y.since = x.since + 2, y.slots = x.slots, y.row = x.row,
                    m \in 1 .. 2, Fresh(x, m, pool, at)
             PROVE  Fresh(y, m, pool2, at2)
  BY DEF Ages
<1>1. PICK z : z = [row |-> x.row, slots |-> x.slots, since |-> x.since + 1]
  OBVIOUS
<1>2. z.row = x.row /\ z.slots = x.slots /\ z.since = x.since + 1 /\ z.since \in Nat /\ y.since = z.since + 1
  BY <1>1
<1>3. Fresh(z, m, pool1, at1)
  BY <1>2 DEF Ages
<1>4. y.slots = z.slots /\ y.row = z.row
  BY <1>2
<1> QED BY <1>2, <1>3, <1>4 DEF Ages

\* One address, or two, of a new row.
LEMMA FreshOne ==
    ASSUME NEW at \in Slots, NEW pool2, NEW at2, NEW row,
           at2 = IF at + 1 = ADDRESS_POOL_SIZE THEN 0 ELSE at + 1, pool2[at] = <<row, 2>>,
           NEW y, y.since = 0, y.row = row, y.slots[1] = at, 1 \in DOMAIN y.slots
    PROVE  Fresh(y, 1, pool2, at2)
<1>1. PICK S : S = ADDRESS_POOL_SIZE
  OBVIOUS
<1>2. S \in Nat \ {0} /\ at \in 0 .. S - 1 /\ at2 = IF at + 1 = S THEN 0 ELSE at + 1
  BY <1>1, GraphQLAssumption DEF Slots
<1>3. AheadOf(at2, S - 0 - 1 + 1 - 1) = at
  BY <1>1, <1>2 DEF AheadOf
<1>4. \A k \in 1 .. 1 : k = 1
  OBVIOUS
<1>5. 1 + 1 = 2
  OBVIOUS
<1> QED BY <1>1, <1>3, <1>4, <1>5 DEF Fresh

\* Two addresses decoded one after the other are both fresh.
LEMMA FreshTwo ==
    ASSUME NEW at \in Slots, NEW at1, NEW pool2, NEW at2, NEW row,
           at1 = IF at + 1 = ADDRESS_POOL_SIZE THEN 0 ELSE at + 1,
           at2 = IF at1 + 1 = ADDRESS_POOL_SIZE THEN 0 ELSE at1 + 1,
           at # at1 => pool2[at] = <<row, 2>>, pool2[at1] = <<row, 3>>,
           NEW y, y.since = 0, y.row = row, y.slots[1] = at, y.slots[2] = at1, DOMAIN y.slots = 1 .. 2
    PROVE  Fresh(y, 2, pool2, at2)
<1>1. PICK S : S = ADDRESS_POOL_SIZE
  OBVIOUS
<1>2. /\ S \in Nat \ {0} /\ at \in 0 .. S - 1 /\ at1 = (IF at + 1 = S THEN 0 ELSE at + 1)
      /\ at2 = IF at1 + 1 = S THEN 0 ELSE at1 + 1
  BY <1>1, GraphQLAssumption DEF Slots
<1>3. SUFFICES ASSUME 0 + 2 <= S, NEW k \in 1 .. 2
      PROVE  /\ k \in DOMAIN y.slots
             /\ y.slots[k] = AheadOf(at2, S - 0 - 2 + k - 1)
             /\ pool2[y.slots[k]] = <<row, k + 1>>
  BY <1>1 DEF Fresh
<1>4. at # at1
  BY <1>2, <1>3
<1>5. AheadOf(at2, S - 2) = at /\ AheadOf(at2, S - 1) = at1
  BY <1>1, <1>2, <1>3 DEF AheadOf
<1>6. CASE k = 1
  <2>1. S - 0 - 2 + 1 - 1 = S - 2 /\ 1 + 1 = 2
    BY <1>2
  <2> QED BY <1>4, <1>5, <1>6, <2>1
<1>7. CASE k = 2
  <2>1. S - 0 - 2 + 2 - 1 = S - 1 /\ 2 + 1 = 3
    BY <1>2
  <2> QED BY <1>4, <1>5, <1>7, <2>1
<1> QED BY <1>6, <1>7

\* A row's addresses take their slots in turn.
LEMMA TurnOfPool ==
    ASSUME NEW pool, NEW at, PoolOK(pool, at), NEW row, NEW count \in 0 .. 2
    PROVE  \E pool2, at2 :
             /\ decodeAll(pool, at, row, count) = <<pool2, at2>> /\ PoolOK(pool2, at2)
             /\ Ages(pool, at, pool2, at2, count)
             /\ \A y, slots : /\ count # 0 /\ slots = [k \in 1 .. count |-> decodeAll(pool, at, row, k - 1)[2]]
                              /\ y.since = 0 /\ y.row = row /\ y.slots = slots
                              => Fresh(y, count, pool2, at2)
             /\ \A k \in 1 .. count : decodeAll(pool, at, row, k - 1)[2] \in Nat
<1>0. at \in Slots /\ at \in Nat
  BY GraphQLAssumption DEF PoolOK, Slots
<1>1. PICK pool1, at1 :
         /\ decodeAddress(pool, at, <<row, 2>>) = <<pool1, at1>> /\ PoolOK(pool1, at1)
         /\ at1 = IF at + 1 = ADDRESS_POOL_SIZE THEN 0 ELSE at + 1
         /\ pool1[at] = <<row, 2>> /\ \A k \in Slots : k # at => pool1[k] = pool[k]
  BY OneDecoded
<1>2. PICK pool2, at2 :
         /\ decodeAddress(pool1, at1, <<row, 3>>) = <<pool2, at2>> /\ PoolOK(pool2, at2)
         /\ at2 = IF at1 + 1 = ADDRESS_POOL_SIZE THEN 0 ELSE at1 + 1
         /\ pool2[at1] = <<row, 3>> /\ \A k \in Slots : k # at1 => pool2[k] = pool1[k]
  BY <1>1, OneDecoded
<1>3. decodeAll(pool, at, row, 0) = <<pool, at>>
  BY DEF decodeAll
<1>4. decodeAll(pool, at, row, 1) = <<pool1, at1>>
  BY <1>1 DEF decodeAll
<1>5. decodeAll(pool, at, row, 2) = <<pool2, at2>>
  <2>1. PICK first : first = decodeAddress(pool, at, <<row, 2>>)
    OBVIOUS
  <2>2. first = <<pool1, at1>>
    BY <1>1, <2>1
  <2>3. first[1] = pool1 /\ first[2] = at1
    BY <2>2
  <2>4. decodeAll(pool, at, row, 2) = decodeAddress(first[1], first[2], <<row, 3>>)
    BY <2>1 DEF decodeAll
  <2> QED BY <1>2, <2>3, <2>4
<1>6. decodeAll(pool, at, row, 0)[2] = at /\ decodeAll(pool, at, row, 1)[2] = at1
  BY <1>3, <1>4
<1>7. at1 \in Nat /\ at1 \in Slots
  BY <1>1, GraphQLAssumption DEF PoolOK, Slots
<1>8. CASE count = 0
  <2>1. Ages(pool, at, pool, at, 0)
    <3> SUFFICES ASSUME NEW x, NEW y, NEW m, x.since \in Nat, y.since = x.since + 0, y.slots = x.slots, y.row = x.row,
                        m \in 1 .. 2, Fresh(x, m, pool, at)
                 PROVE  Fresh(y, m, pool, at)
      BY DEF Ages
    <3>1. y.since = x.since
      OBVIOUS
    <3> QED BY <3>1 DEF Fresh
  <2> QED BY <1>3, <1>8, <2>1
<1>9. CASE count = 1
  <2>1. Ages(pool, at, pool1, at1, 1)
    BY <1>1, AgesOnce
  <2>2. ASSUME NEW y, NEW slots, slots = [k \in 1 .. 1 |-> decodeAll(pool, at, row, k - 1)[2]],
               y.since = 0, y.row = row, y.slots = slots
        PROVE  Fresh(y, 1, pool1, at1)
    <3>1. slots[1] = decodeAll(pool, at, row, 1 - 1)[2] /\ 1 - 1 = 0
      BY <2>2
    <3>2. y.slots[1] = at /\ 1 \in DOMAIN y.slots
      BY <1>6, <2>2, <3>1
    <3> QED BY <1>0, <1>1, <2>2, <3>2, FreshOne
  <2>3. \A k \in 1 .. 1 : decodeAll(pool, at, row, k - 1)[2] \in Nat
    BY <1>0, <1>6
  <2> QED BY <1>1, <1>4, <1>9, <2>1, <2>2, <2>3
<1>10. CASE count = 2
  <2>1. Ages(pool, at, pool2, at2, 2)
    <3>1. Ages(pool, at, pool1, at1, 1)
      BY <1>1, AgesOnce
    <3>2. Ages(pool1, at1, pool2, at2, 1)
      BY <1>1, <1>2, AgesOnce
    <3> QED BY <3>1, <3>2, AgesTwice
  <2>2. ASSUME NEW y, NEW slots, slots = [k \in 1 .. 2 |-> decodeAll(pool, at, row, k - 1)[2]],
               y.since = 0, y.row = row, y.slots = slots
        PROVE  Fresh(y, 2, pool2, at2)
    <3>1. slots[1] = decodeAll(pool, at, row, 1 - 1)[2] /\ slots[2] = decodeAll(pool, at, row, 2 - 1)[2] /\ 1 - 1 = 0 /\ 2 - 1 = 1
      BY <2>2
    <3>2. y.slots[1] = at /\ y.slots[2] = at1 /\ DOMAIN y.slots = 1 .. 2
      BY <1>6, <2>2, <3>1
    <3>3. at # at1 => pool2[at] = <<row, 2>>
      BY <1>0, <1>1, <1>2
    <3> QED BY <1>0, <1>1, <1>2, <2>2, <3>2, <3>3, FreshTwo
  <2>3. \A k \in 1 .. 2 : decodeAll(pool, at, row, k - 1)[2] \in Nat
    <3>1. 1 - 1 = 0 /\ 2 - 1 = 1 /\ \A k \in 1 .. 2 : k = 1 \/ k = 2
      OBVIOUS
    <3> QED BY <1>0, <1>6, <1>7, <3>1
  <2> QED BY <1>2, <1>5, <1>10, <2>1, <2>2, <2>3
<1> QED BY <1>8, <1>9, <1>10

\* The last of some places is one of them.
LEMMA LatestOf ==
    ASSUME NEW N \in Nat, NEW S, S \subseteq 1 .. N, S # {}
    PROVE  \E k \in S : \A j \in S : j <= k
<1>1. PICK T : T = {N - k : k \in S}
  OBVIOUS
<1>2. T \in SUBSET Nat /\ T # {}
  <2>1. \A k \in S : N - k \in Nat
    OBVIOUS
  <2>2. \A t \in T : t \in Nat
    BY <1>1, <2>1
  <2>3. PICK k \in S : TRUE
    OBVIOUS
  <2>4. N - k \in T
    BY <1>1, <2>3
  <2> QED BY <2>2, <2>4
<1>3. PICK t \in T : \A u \in T : t <= u
  BY <1>2, LeastOf
<1>4. PICK k \in S : t = N - k
  BY <1>1, <1>3
<1>5. ASSUME NEW j \in S PROVE j <= k
  <2>1. N - j \in T
    BY <1>1
  <2>2. N - k <= N - j
    BY <1>3, <1>4, <2>1
  <2> QED BY <2>2
<1> QED BY <1>5

\* A field answers with the rows of a contract, one whose name starts as the field's does.
LEMMA SchemaHolds ==
    ASSUME NEW abis \in Seq(CustomContracts), NEW n \in DOMAIN buildSchema(abis)
    PROVE  n \in FieldNames /\ buildSchema(abis)[n] \in GqlContracts /\ shortIdOf[buildSchema(abis)[n]] = n.id
<1>1. PICK ids : ids = BuiltIn \o abis
  OBVIOUS
<1>2. ids \in Seq(GqlContracts)
  <2>1. PICK T, b : T = GqlContracts /\ b = BuiltIn
    OBVIOUS
  <2>2. b \in Seq(Range(b)) /\ Range(b) \subseteq T /\ CustomContracts \subseteq T
    BY <2>1, GraphQLAssumption DEF GqlContracts
  <2>3. b \in Seq(T) /\ abis \in Seq(T)
    BY <2>2, SeqMonotonic
  <2>4. b \o abis \in Seq(T)
    BY ONLY <2>3, ConcatProperties
  <2> QED BY <1>1, <2>1, <2>4
<1>3. PICK keys : keys = getRegisteredContracts(abis)
  OBVIOUS
<1>4. Len(ids) \in Nat /\ DOMAIN ids = 1 .. Len(ids) /\ keys \subseteq 1 .. Len(ids)
  <2>1. Len(ids) \in Nat /\ DOMAIN ids = 1 .. Len(ids)
    BY <1>2, LenProperties
  <2>2. keys \subseteq DOMAIN ids
    BY <1>1, <1>3 DEF getRegisteredContracts
  <2> QED BY <2>1, <2>2
<1> DEFINE named(m) == {k \in keys : shortIdOf[ids[k]] = m.id /\ m.field \in fieldsOf(abis, ids[k])}
           names == {m \in FieldNames : named(m) # {}}
           latest(m) == CHOOSE k \in named(m) : \A j \in named(m) : j <= k
<1>5. buildSchema(abis) = [m \in names |-> ids[latest(m)]]
  BY <1>1, <1>3 DEF buildSchema, FieldNames, FieldSet
<1>6. n \in FieldNames /\ named(n) # {} /\ buildSchema(abis)[n] = ids[latest(n)]
  BY <1>5
<1>7. latest(n) \in named(n)
  <2>1. PICK S : S = named(n)
    OBVIOUS
  <2>2. S \subseteq 1 .. Len(ids) /\ S # {} /\ Len(ids) \in Nat
    BY <1>4, <1>6, <2>1
  <2>3. \E k \in S : \A j \in S : j <= k
    BY ONLY <2>2, LatestOf
  <2>4. (CHOOSE k \in S : \A j \in S : j <= k) \in S
    BY <2>3
  <2> QED BY <2>1, <2>4
<1>8. latest(n) \in keys /\ shortIdOf[ids[latest(n)]] = n.id
  BY <1>7
<1> HIDE DEF named, names, latest
<1>9. ids[latest(n)] \in GqlContracts
  BY <1>2, <1>4, <1>8, ElementOfSeq
<1> QED BY <1>6, <1>8, <1>9

\* A page of the table: rows of the contract, and no more than were asked for.
LEMMA FindHolds ==
    ASSUME NEW contract, NEW take \in Int
    PROVE  \E page \in Seq(Nat) :
             /\ page = findMany(contract, take)
             /\ \A n \in 1 .. Len(page) : StoredRows[page[n]].contract = contract
             /\ take >= 0 => Len(page) <= take
<1> DEFINE R == {n \in DOMAIN StoredRows : StoredRows[n].contract = contract}
<1>1. IsFiniteSet(R) /\ R \subseteq Nat
  <2>1. Len(StoredRows) \in Nat /\ DOMAIN StoredRows = 1 .. Len(StoredRows)
    BY GraphQLAssumption, LenProperties
  <2>2. IsFiniteSet(1 .. Len(StoredRows))
    BY <2>1, FS_Interval
  <2>3. R \subseteq 1 .. Len(StoredRows)
    BY <2>1
  <2> QED BY <2>1, <2>2, <2>3, FS_Subset
<1>2. PICK found : found = R
  OBVIOUS
<1>3. \A n \in found : StoredRows[n].contract = contract
  BY <1>2
<1>4. IsFiniteSet(found) /\ found \subseteq Nat
  BY <1>1, <1>2
<1>5. /\ Cardinality(found) \in Nat
      /\ \A k \in 1 .. Cardinality(found) : \E r \in found : Cardinality({x \in found : x > r}) = k - 1
  BY <1>4, RowsRanked
<1>6. ASSUME NEW r \in found
      PROVE  /\ Cardinality({x \in found : x > r}) \in Nat
             /\ Cardinality({x \in found : x < r}) = Cardinality(found) - Cardinality({x \in found : x > r}) - 1
  BY <1>4, RanksBelow
<1>7. PICK wanted : wanted = IF take >= 0 THEN take ELSE -take
  OBVIOUS
<1>8. PICK size : size = IF wanted < Cardinality(found) THEN wanted ELSE Cardinality(found)
  OBVIOUS
<1>9. size \in Nat /\ size <= Cardinality(found) /\ (take >= 0 => size <= take)
  BY <1>5, <1>7, <1>8
<1> DEFINE Is(r, k) == IF take >= 0 THEN Cardinality({m \in found : m < r}) = k - 1
                       ELSE Cardinality({m \in found : m > r}) = size - k
           The(k) == CHOOSE r \in found : Is(r, k)
<1>10. PICK page : page = [k \in 1 .. size |-> The(k)]
  OBVIOUS
<1>11. page = findMany(contract, take)
  BY <1>2, <1>7, <1>8, <1>10 DEF findMany
<1>12. ASSUME NEW k \in 1 .. size PROVE \E r \in found : Is(r, k)
  <2>1. CASE take >= 0
    <3>1. Cardinality(found) - k + 1 \in 1 .. Cardinality(found)
      BY <1>5, <1>9
    <3>2. PICK r \in found : Cardinality({x \in found : x > r}) = (Cardinality(found) - k + 1) - 1
      BY <1>5, <3>1
    <3>3. Cardinality({x \in found : x < r}) = k - 1
      BY <1>5, <1>6, <1>9, <3>2
    <3> QED BY <2>1, <3>3
  <2>2. CASE ~(take >= 0)
    <3>1. size - k + 1 \in 1 .. Cardinality(found)
      BY <1>5, <1>9
    <3>2. PICK r \in found : Cardinality({x \in found : x > r}) = (size - k + 1) - 1
      BY <1>5, <3>1
    <3>3. Cardinality({x \in found : x > r}) = size - k
      BY <1>9, <3>2
    <3> QED BY <2>2, <3>3
  <2> QED BY <2>1, <2>2
<1>13. \A k \in 1 .. size : page[k] \in found
  <2>1. ASSUME NEW k \in 1 .. size PROVE page[k] \in found
    <3>1. page[k] = The(k)
      BY <1>10
    <3>2. \E r \in found : Is(r, k)
      BY <1>12
    <3> HIDE DEF Is
    <3> QED BY <3>1, <3>2
  <2> QED BY <2>1
<1>14. page \in Seq(Nat) /\ Len(page) = size
  <2>1. DOMAIN page = 1 .. size /\ page \in [1 .. size -> Nat]
    <3> HIDE DEF Is, The
    <3>1. DOMAIN page = 1 .. size
      BY <1>10
    <3>2. page = [k \in 1 .. size |-> page[k]]
      BY <1>10, <3>1
    <3> QED BY <1>4, <1>13, <3>1, <3>2
  <2> QED BY <1>9, <2>1
<1> QED BY <1>3, <1>9, <1>11, <1>13, <1>14

\* The rows pushed before, older.
LEMMA LaterHolds ==
    ASSUME NEW results \in Seq(ResultRecords), NEW count \in Nat
    PROVE  /\ later(results, count) \in Seq(ResultRecords) /\ Len(later(results, count)) = Len(results)
           /\ \A n \in 1 .. Len(results) :
                 /\ later(results, count)[n].row = results[n].row /\ later(results, count)[n].slots = results[n].slots
                 /\ results[n].since \in Nat /\ later(results, count)[n].since = results[n].since + count
<1>1. PICK u : u = later(results, count)
  OBVIOUS
<1>2. Len(results) \in Nat /\ DOMAIN results = 1 .. Len(results) /\ \A n \in 1 .. Len(results) : results[n] \in ResultRecords
  BY LenProperties, ElementOfSeq
<1>3. u = [n \in 1 .. Len(results) |-> [results[n] EXCEPT !.since = @ + count]]
  BY <1>1, <1>2 DEF later
<1>4. ASSUME NEW n \in 1 .. Len(results)
      PROVE  /\ u[n].row = results[n].row /\ u[n].slots = results[n].slots
             /\ results[n].since \in Nat /\ u[n].since = results[n].since + count /\ u[n] \in ResultRecords
  <2>1. PICK x : x = results[n]
    OBVIOUS
  <2>2. x \in ResultRecords /\ u[n] = [x EXCEPT !.since = @ + count]
    BY <1>2, <1>3, <2>1
  <2>3. x.since \in Nat /\ x.since + count \in Nat
    BY <2>2 DEF ResultRecords
  <2>4. u[n].row = x.row /\ u[n].slots = x.slots /\ u[n].since = x.since + count /\ u[n] \in ResultRecords
    BY <2>2, <2>3 DEF ResultRecords
  <2> QED BY <2>1, <2>3, <2>4
<1>5. u \in Seq(ResultRecords) /\ Len(u) = Len(results)
  <2>1. DOMAIN u = 1 .. Len(results) /\ u = [n \in 1 .. Len(results) |-> u[n]]
    BY <1>3
  <2>2. u \in [1 .. Len(results) -> ResultRecords]
    BY <1>4, <2>1
  <2> QED BY <1>2, <2>1, <2>2
<1> QED BY <1>1, <1>4, <1>5

\* Two addresses at most.
LEMMA AddressCount == \A f \in FieldSet : Len(f.addresses) \in 1 .. 2
<1>1. \A f \in FieldSet : f \in {TransferField, MintField, BurnField, CustomField}
  BY DEF FieldSet, StandardFields
<1>2. Len(<<2, 3>>) = 2 /\ Len(<<2>>) = 1
  OBVIOUS
<1>3. /\ TransferField.addresses = <<2, 3>> /\ MintField.addresses = <<2, 3>>
      /\ BurnField.addresses = <<2>> /\ CustomField.addresses = <<2>>
  BY DEF TransferField, MintField, BurnField, CustomField
<1> QED BY <1>1, <1>2, <1>3

\* What a resolver is made of.
LEMMA ResolverFacts ==
    ASSUME NEW r \in ResolverRecords
    PROVE  /\ r.no \in Nat /\ r.name \in FieldNames /\ r.query \in GraphQueries /\ r.contract \in GqlContracts
           /\ r.page \in Seq(Nat) /\ r.results \in Seq(ResultRecords)
           /\ r.name.field \in FieldSet /\ r.name.id \in Range(shortIdOf)
  BY DEF ResolverRecords, FieldNames

\* The row pushed by a turn, if one is; the resolver after its turn, and one beside it.
Pushable(r, row, pushed, pool, at) ==
    \/ pushed = <<>>
    \/ \E y \in ResultRecords : pushed = <<y>> /\ y.row = row /\ Fresh(y, Len(r.name.field.addresses), pool, at)
TurnTaken(r, count, pushed) == [r EXCEPT !.page = Tail(@), !.results = later(@, count) \o pushed]
Older(r, count) == [r EXCEPT !.results = later(@, count)]

\* A resolver beside the one whose turn it is.
LEMMA BesideSound ==
    ASSUME NEW r, NEW pool, NEW at, NEW pool2, NEW at2, NEW count \in 0 .. 2,
           ResolverSound(r, pool, at), Ages(pool, at, pool2, at2, count),
           NEW s, s = Older(r, count)
    PROVE  ResolverSound(s, pool2, at2)
<1>1. r \in ResolverRecords /\ r.page \in Seq(Nat) /\ r.results \in Seq(ResultRecords) /\ r.name.field \in FieldSet
  BY ResolverFacts DEF ResolverSound
<1>2. PICK results, aged, page : results = r.results /\ aged = later(results, count) /\ page = r.page
  OBVIOUS
<1>3. /\ aged \in Seq(ResultRecords) /\ Len(aged) = Len(results)
      /\ \A n \in 1 .. Len(results) :
            /\ aged[n].row = results[n].row /\ aged[n].slots = results[n].slots
            /\ results[n].since \in Nat /\ aged[n].since = results[n].since + count
  <2>1. results \in Seq(ResultRecords) /\ count \in Nat
    BY <1>1, <1>2
  <2>2. /\ later(results, count) \in Seq(ResultRecords) /\ Len(later(results, count)) = Len(results)
        /\ \A n \in 1 .. Len(results) :
              /\ later(results, count)[n].row = results[n].row /\ later(results, count)[n].slots = results[n].slots
              /\ results[n].since \in Nat /\ later(results, count)[n].since = results[n].since + count
    BY ONLY <2>1, LaterHolds
  <2> QED BY <1>2, <2>2
<1>4. s = [r EXCEPT !.page = page, !.results = aged]
  BY <1>1, <1>2 DEF ResolverRecords, Older
<1>5. /\ s \in ResolverRecords /\ s.page = r.page /\ s.results = aged
      /\ s.name = r.name /\ s.query = r.query /\ s.contract = r.contract
  <2>1. page \in Seq(Nat) /\ aged \in Seq(ResultRecords) /\ r \in ResolverRecords
    BY <1>1, <1>2, <1>3
  <2>2. /\ s \in ResolverRecords /\ s.page = page /\ s.results = aged
        /\ s.name = r.name /\ s.query = r.query /\ s.contract = r.contract
    BY ONLY <1>4, <2>1 DEF ResolverRecords
  <2> QED BY <1>2, <2>2
<1>6. PICK m : m = Len(r.name.field.addresses)
  OBVIOUS
<1>7. m \in 1 .. 2
  BY <1>1, <1>6, AddressCount
<1>8. ASSUME NEW n \in 1 .. Len(aged)
      PROVE  StoredRows[aged[n].row].contract = s.contract /\ Fresh(aged[n], m, pool2, at2)
  <2>1. StoredRows[results[n].row].contract = r.contract /\ Fresh(results[n], m, pool, at)
    BY <1>2, <1>3, <1>6 DEF ResolverSound
  <2>2. Fresh(aged[n], m, pool2, at2)
    BY <1>3, <1>7, <2>1 DEF Ages
  <2> QED BY <1>3, <1>5, <2>1, <2>2
<1>9. /\ shortIdOf[s.contract] = s.name.id
      /\ \A n \in 1 .. Len(s.page) : StoredRows[s.page[n]].contract = s.contract
      /\ computeNodeComplexity(s.query) <= maxComplexity
  BY <1>5 DEF ResolverSound
<1>10. Within(s.query, Len(s.page) + Len(s.results))
  BY <1>2, <1>3, <1>5 DEF ResolverSound
<1> QED BY <1>5, <1>6, <1>8, <1>9, <1>10 DEF ResolverSound

\* The resolver whose turn it is: a row less to do, and the row pushed or not.
LEMMA TurnSound ==
    ASSUME NEW r, NEW pool, NEW at, NEW pool2, NEW at2, NEW count \in 0 .. 2, NEW row, NEW pushed,
           ResolverSound(r, pool, at), Ages(pool, at, pool2, at2, count), r.page # <<>>, row = Head(r.page),
           Pushable(r, row, pushed, pool2, at2),
           NEW s, s = TurnTaken(r, count, pushed)
    PROVE  ResolverSound(s, pool2, at2)
<1>1. r \in ResolverRecords /\ r.page \in Seq(Nat) /\ r.results \in Seq(ResultRecords) /\ r.name.field \in FieldSet
  BY ResolverFacts DEF ResolverSound
<1>2. PICK results, aged, page : results = r.results /\ aged = later(results, count) /\ page = r.page
  OBVIOUS
<1>3. /\ aged \in Seq(ResultRecords) /\ Len(aged) = Len(results)
      /\ \A n \in 1 .. Len(results) :
            /\ aged[n].row = results[n].row /\ aged[n].slots = results[n].slots
            /\ results[n].since \in Nat /\ aged[n].since = results[n].since + count
  <2>1. results \in Seq(ResultRecords) /\ count \in Nat
    BY <1>1, <1>2
  <2>2. /\ later(results, count) \in Seq(ResultRecords) /\ Len(later(results, count)) = Len(results)
        /\ \A n \in 1 .. Len(results) :
              /\ later(results, count)[n].row = results[n].row /\ later(results, count)[n].slots = results[n].slots
              /\ results[n].since \in Nat /\ later(results, count)[n].since = results[n].since + count
    BY ONLY <2>1, LaterHolds
  <2> QED BY <1>2, <2>2
<1>4. PICK rest : rest = Tail(page)
  OBVIOUS
<1>5. /\ page \in Seq(Nat) /\ page # <<>> /\ Len(page) \in Nat \ {0} /\ row = page[1]
      /\ rest \in Seq(Nat) /\ Len(rest) = Len(page) - 1 /\ \A n \in 1 .. Len(rest) : rest[n] = page[n + 1]
  <2>1. page \in Seq(Nat) /\ page # <<>>
    BY <1>1, <1>2
  <2>2. Len(page) \in Nat /\ Len(page) # 0
    BY <2>1
  <2>3. Tail(page) \in Seq(Nat) /\ Len(Tail(page)) = Len(page) - 1 /\ \A n \in 1 .. Len(Tail(page)) : Tail(page)[n] = page[n + 1]
    BY ONLY <2>1, HeadTailProperties
  <2>4. row = page[1]
    BY <1>2, <2>1
  <2> QED BY <1>4, <2>1, <2>2, <2>3, <2>4
<1>6. PICK m : m = Len(r.name.field.addresses)
  OBVIOUS
<1>7. m \in 1 .. 2
  BY <1>1, <1>6, AddressCount
<1>8. PICK all : all = aged \o pushed
  OBVIOUS
<1>9. ASSUME NEW n \in 1 .. Len(aged)
      PROVE  StoredRows[aged[n].row].contract = r.contract /\ Fresh(aged[n], m, pool2, at2)
  <2>1. StoredRows[results[n].row].contract = r.contract /\ Fresh(results[n], m, pool, at)
    BY <1>2, <1>3, <1>6 DEF ResolverSound
  <2>2. Fresh(aged[n], m, pool2, at2)
    BY <1>3, <1>7, <2>1 DEF Ages
  <2> QED BY <1>3, <2>1, <2>2
<1>10. StoredRows[row].contract = r.contract
  <2>1. 1 \in 1 .. Len(page)
    BY <1>5
  <2>2. \A n \in 1 .. Len(page) : StoredRows[page[n]].contract = r.contract
    BY <1>2 DEF ResolverSound
  <2> QED BY <1>5, <2>1, <2>2
<1>11. /\ all \in Seq(ResultRecords) /\ Len(all) \in Nat /\ Len(all) <= Len(results) + 1
       /\ \A n \in 1 .. Len(all) : StoredRows[all[n].row].contract = r.contract /\ Fresh(all[n], m, pool2, at2)
  <2>0. Len(aged) \in Nat
    BY <1>3, LenProperties
  <2>1. CASE pushed = <<>>
    <3>1. all = aged
      BY <1>3, <1>8, <2>1
    <3> QED BY <1>3, <1>9, <2>0, <3>1
  <2>2. ASSUME NEW y \in ResultRecords, pushed = <<y>>, y.row = row, Fresh(y, Len(r.name.field.addresses), pool2, at2)
        PROVE  /\ all \in Seq(ResultRecords) /\ Len(all) \in Nat /\ Len(all) <= Len(results) + 1
               /\ \A n \in 1 .. Len(all) : StoredRows[all[n].row].contract = r.contract /\ Fresh(all[n], m, pool2, at2)
    <3>1. PICK one : one = <<y>>
      OBVIOUS
    <3>2. one \in Seq(ResultRecords) /\ Len(one) = 1 /\ one[1] = y
      BY <2>2, <3>1
    <3>3. aged \in Seq(ResultRecords) /\ one \in Seq(ResultRecords)
      BY <1>3, <3>2
    <3>4. /\ aged \o one \in Seq(ResultRecords) /\ Len(aged \o one) = Len(aged) + Len(one)
          /\ \A n \in 1 .. Len(aged) : (aged \o one)[n] = aged[n]
          /\ \A n \in 1 .. Len(one) : (aged \o one)[Len(aged) + n] = one[n]
      BY ONLY <3>3, BehindList
    <3>5. all = aged \o one
      BY <1>8, <2>2, <3>1
    <3>6. /\ all \in Seq(ResultRecords) /\ Len(all) = Len(aged) + 1
          /\ \A n \in 1 .. Len(aged) : all[n] = aged[n]
          /\ all[Len(aged) + 1] = y
      BY <3>2, <3>4, <3>5
    <3>7. ASSUME NEW n \in 1 .. Len(all) PROVE StoredRows[all[n].row].contract = r.contract /\ Fresh(all[n], m, pool2, at2)
      <4>1. n \in 1 .. Len(aged) \/ n = Len(aged) + 1
        BY <2>0, <3>6
      <4>2. CASE n \in 1 .. Len(aged)
        BY <1>9, <3>6, <4>2
      <4>3. CASE n = Len(aged) + 1
        BY <1>6, <1>10, <2>2, <3>6, <4>3
      <4> QED BY <4>1, <4>2, <4>3
    <3>8. Len(all) \in Nat /\ Len(all) <= Len(results) + 1
      BY <1>3, <2>0, <3>6
    <3> QED BY <3>6, <3>7, <3>8
  <2> QED BY <2>1, <2>2 DEF Pushable
<1>12. s = [r EXCEPT !.page = rest, !.results = all]
  BY <1>1, <1>2, <1>4, <1>8 DEF ResolverRecords, TurnTaken
<1>13. /\ s \in ResolverRecords /\ s.page = rest /\ s.results = all
       /\ s.name = r.name /\ s.query = r.query /\ s.contract = r.contract
  <2>1. rest \in Seq(Nat) /\ all \in Seq(ResultRecords) /\ r \in ResolverRecords
    BY <1>1, <1>5, <1>11
  <2> QED BY ONLY <1>12, <2>1 DEF ResolverRecords
<1>14. /\ shortIdOf[s.contract] = s.name.id
       /\ computeNodeComplexity(s.query) <= maxComplexity
  BY <1>13 DEF ResolverSound
<1>15. \A n \in 1 .. Len(s.page) : StoredRows[s.page[n]].contract = s.contract
  <2>1. \A n \in 1 .. Len(page) : StoredRows[page[n]].contract = r.contract
    BY <1>2 DEF ResolverSound
  <2>2. \A n \in 1 .. Len(rest) : n + 1 \in 1 .. Len(page)
    BY <1>5
  <2> QED BY <1>5, <1>13, <2>1, <2>2
<1>16. Within(s.query, Len(s.page) + Len(s.results))
  <2>1. Len(rest) + Len(all) <= Len(page) + Len(results) /\ Len(rest) + Len(all) \in Int
    <3>1. Len(results) \in Nat
      BY <1>1, <1>2, LenProperties
    <3> QED BY <1>5, <1>11, <3>1
  <2>2. Within(r.query, Len(page) + Len(results))
    BY <1>2 DEF ResolverSound
  <2>3. Len(page) + Len(results) \in Int /\ r.query.limit \in Int
    <3>1. Len(results) \in Nat
      BY <1>1, <1>2, LenProperties
    <3> QED BY <1>1, <1>5, <3>1, GraphQLAssumption, ResolverFacts
  <2>4. ASSUME r.query.limit # Unset, r.query.limit >= 0 PROVE Len(rest) + Len(all) <= r.query.limit
    <3>1. Len(page) + Len(results) <= r.query.limit
      BY <2>2, <2>4 DEF Within
    <3> QED BY <2>1, <2>3, <3>1
  <2> QED BY <1>13, <2>4 DEF Within
<1> QED BY <1>6, <1>11, <1>13, <1>14, <1>15, <1>16 DEF ResolverSound

\* Scalars of no more rows than the limit.
LEMMA Scalars ==
    ASSUME NEW q \in GraphQueries, q.limit # Unset, q.limit >= 0, computeNodeComplexity(q) <= maxComplexity,
           NEW n \in Nat, n <= q.limit
    PROVE  1 + n * q.selects <= maxComplexity
<1>1. q.limit \in Int /\ q.selects \in Nat /\ maxComplexity \in Nat
  BY GraphQLAssumption
<1>2. PICK l, k : l = q.limit /\ k = q.selects
  OBVIOUS
<1>3. l \in Nat /\ k \in Nat /\ n <= l
  BY <1>1, <1>2
<1>4. 1 + k * l <= maxComplexity
  BY <1>1, <1>2 DEF computeNodeComplexity
<1>5. n * k <= k * l
  <2>1. \A a, b, c \in Nat : a <= b => a * c <= c * b
    OBVIOUS
  <2> QED BY <1>3, <2>1
<1>6. n * k \in Nat /\ k * l \in Nat
  BY <1>3
<1> QED BY <1>1, <1>2, <1>4, <1>5, <1>6

\* At first.
LEMMA GqlInitial == GraphQLInit => GqlInv
<1> SUFFICES ASSUME GraphQLInit PROVE GqlInv
  OBVIOUS
<1>1. customAbis \in Seq(CustomContracts) /\ gqlPosts \in Nat /\ resolvers = {} /\ gqlAnswers = {} /\ cachedSchema = NoSchema
  BY DEF GraphQLInit
<1>2. PoolOK(addressPool, addressPoolIndex)
  <2>1. 0 \in Slots
    BY GraphQLAssumption DEF Slots
  <2>2. addressPoolIndex = 0 /\ addressPool = [k \in Slots |-> <<>>]
    BY DEF GraphQLInit, Slots
  <2>3. addressPool = [k \in Slots |-> addressPool[k]]
    BY <2>2
  <2> QED BY <2>1, <2>2, <2>3 DEF PoolOK
<1> QED BY <1>1, <1>2 DEF GqlInv

\* A contract is registered, and the schema is built again when it is next asked for.
LEMMA RegisterStep ==
    ASSUME GqlInv, NEW c \in CustomContracts, registerContract(c)
    PROVE  GqlInv'
<1>1. /\ cachedSchema' = NoSchema
      /\ customAbis' = IF c \in Range(customAbis) THEN customAbis ELSE Append(customAbis, c)
      /\ UNCHANGED <<translationCache, addressPool, addressPoolIndex, resolvers, gqlAnswers, gqlPosts>>
  BY DEF registerContract
<1>2. customAbis' \in Seq(CustomContracts)
  <2>1. customAbis \in Seq(CustomContracts)
    BY DEF GqlInv
  <2>2. Append(customAbis, c) \in Seq(CustomContracts)
    BY <2>1
  <2> QED BY <1>1, <2>1, <2>2
<1> QED BY <1>1, <1>2 DEF GqlInv

\* A field begins to be resolved.
LEMMA PostStep ==
    ASSUME GqlInv, NEW q \in GraphQueries, NEW name \in FieldNames, NEW contract \in GqlContracts,
           shortIdOf[contract] = name.id, PostQuery(q, name, contract)
    PROVE  GqlInv'
<1>1. PICK take : take = IF q.limit = Unset THEN defaultLimit ELSE q.limit
  OBVIOUS
<1>2. q.limit \in Int /\ q.selects \in Nat /\ take \in Int
  BY <1>1, GraphQLAssumption DEF defaultLimit
<1>3. PICK page \in Seq(Nat) :
         /\ page = findMany(contract, take)
         /\ \A n \in 1 .. Len(page) : StoredRows[page[n]].contract = contract
         /\ take >= 0 => Len(page) <= take
  BY <1>2, FindHolds
<1>4. PICK s : s = [no |-> gqlPosts + 1, name |-> name, query |-> q, contract |-> contract, page |-> page, results |-> <<>>]
  OBVIOUS
<1>5. /\ gqlPosts' = gqlPosts + 1 /\ cachedSchema' = currentSchema /\ resolvers' = resolvers \cup {s}
      /\ computeNodeComplexity(q) <= maxComplexity
      /\ UNCHANGED <<customAbis, translationCache, addressPool, addressPoolIndex, gqlAnswers>>
  BY <1>1, <1>3, <1>4 DEF PostQuery
<1>6. gqlPosts \in Nat /\ gqlPosts' \in Nat
  BY <1>5 DEF GqlInv
<1>7. ResolverSound(s, addressPool, addressPoolIndex)
  <2>1. PICK none : none = <<>>
    OBVIOUS
  <2>2. none \in Seq(ResultRecords) /\ Len(none) = 0
    BY <2>1
  <2>3. s = [no |-> gqlPosts + 1, name |-> name, query |-> q, contract |-> contract, page |-> page, results |-> none]
    BY <1>4, <2>1
  <2>4. /\ s \in ResolverRecords /\ s.name = name /\ s.query = q /\ s.contract = contract
        /\ s.page = page /\ s.results = none
    BY <1>6, <2>2, <2>3 DEF ResolverRecords
  <2>5. Len(page) \in Nat
    BY LenProperties
  <2>6. Within(s.query, Len(s.page) + Len(s.results))
    <3>1. Len(s.page) + Len(s.results) = Len(page)
      BY <2>2, <2>4, <2>5
    <3>2. q.limit # Unset => take = q.limit
      BY <1>1
    <3>3. Within(q, Len(page))
      BY <1>3, <3>2 DEF Within
    <3> QED BY <2>4, <3>1, <3>3
  <2>7. \A n \in 1 .. Len(s.results) :
           /\ StoredRows[s.results[n].row].contract = s.contract
           /\ Fresh(s.results[n], Len(s.name.field.addresses), addressPool, addressPoolIndex)
    BY <2>2, <2>4
  <2> QED BY <1>3, <1>5, <2>4, <2>6, <2>7 DEF ResolverSound
<1>8. cachedSchema' # NoSchema => cachedSchema' = buildSchema(customAbis')
  BY <1>5 DEF GqlInv, currentSchema
<1>9. \A r \in resolvers' : ResolverSound(r, addressPool, addressPoolIndex)
  BY <1>5, <1>7 DEF GqlInv
<1> QED BY <1>5, <1>6, <1>8, <1>9 DEF GqlInv

\* The resolvers when the one whose turn it is has pushed a row or none.
AfterTurn(rs, r, count, pushed) ==
    {IF s = r THEN [s EXCEPT !.page = Tail(@), !.results = later(@, count) \o pushed]
     ELSE [s EXCEPT !.results = later(@, count)] : s \in rs}

\* A row is translated, and the rows beside it age.
LEMMA TranslateStep ==
    ASSUME GqlInv, NEW r \in resolvers, TranslateRow(r)
    PROVE  GqlInv'
<1>0. ResolverSound(r, addressPool, addressPoolIndex) /\ PoolOK(addressPool, addressPoolIndex)
  BY DEF GqlInv
<1>1. r \in ResolverRecords /\ r.page \in Seq(Nat) /\ r.results \in Seq(ResultRecords) /\ r.name.field \in FieldSet
  BY <1>0, ResolverFacts DEF ResolverSound
<1>2. r.page # <<>>
  BY DEF TranslateRow
<1>3. PICK row, type : row = Head(r.page) /\ type = translateWithCache(row)
  OBVIOUS
<1>4. PICK count : count = IF type = r.name.field.type /\ StoredRows[row].topics >= r.name.field.needs
                           THEN Len(r.name.field.addresses) ELSE 0
  OBVIOUS
<1>5. PICK m : m = Len(r.name.field.addresses)
  OBVIOUS
<1>6. m \in 1 .. 2 /\ count \in 0 .. 2 /\ (count = 0 \/ count = m)
  <2>1. m \in 1 .. 2
    BY <1>1, <1>5, AddressCount
  <2> QED BY <1>4, <1>5, <2>1
<1>7. PICK slots : slots = [k \in 1 .. count |-> decodeAll(addressPool, addressPoolIndex, row, k - 1)[2]]
  OBVIOUS
<1>8. PICK pushed : pushed = IF type = r.name.field.type /\ StoredRows[row].topics >= r.name.field.needs
                             THEN <<[row |-> row, slots |-> slots, since |-> 0]>> ELSE <<>>
  OBVIOUS
<1>9. PICK pool2, at2 :
         /\ decodeAll(addressPool, addressPoolIndex, row, count) = <<pool2, at2>> /\ PoolOK(pool2, at2)
         /\ Ages(addressPool, addressPoolIndex, pool2, at2, count)
         /\ \A y, sl : /\ count # 0 /\ sl = [k \in 1 .. count |-> decodeAll(addressPool, addressPoolIndex, row, k - 1)[2]]
                       /\ y.since = 0 /\ y.row = row /\ y.slots = sl
                       => Fresh(y, count, pool2, at2)
         /\ \A k \in 1 .. count : decodeAll(addressPool, addressPoolIndex, row, k - 1)[2] \in Nat
  BY <1>0, <1>6, TurnOfPool
<1>10. /\ addressPool' = pool2 /\ addressPoolIndex' = at2
       /\ resolvers' = AfterTurn(resolvers, r, count, pushed)
       /\ UNCHANGED <<customAbis, cachedSchema, gqlAnswers, gqlPosts>>
  <2>1. PICK decoded : decoded = decodeAll(addressPool, addressPoolIndex, row, count)
    OBVIOUS
  <2>2. decoded[1] = pool2 /\ decoded[2] = at2
    BY <1>9, <2>1
  <2>3. addressPool' = decoded[1] /\ addressPoolIndex' = decoded[2]
    BY <1>3, <1>4, <2>1 DEF TranslateRow
  <2>4. resolvers' = AfterTurn(resolvers, r, count, pushed)
    <3> DEFINE NextRow == Head(r.page)
               IsKept == translateWithCache(NextRow) = r.name.field.type /\ StoredRows[NextRow].topics >= r.name.field.needs
               Count == IF IsKept THEN Len(r.name.field.addresses) ELSE 0
               Own == [k \in 1 .. Count |-> decodeAll(addressPool, addressPoolIndex, NextRow, k - 1)[2]]
               Pushed == IF IsKept THEN <<[row |-> NextRow, slots |-> Own, since |-> 0]>> ELSE <<>>
    <3>1. resolvers' = AfterTurn(resolvers, r, Count, Pushed)
      BY DEF TranslateRow, AfterTurn
    <3>2. count = Count
      BY <1>3, <1>4
    <3>3. slots = Own
      <4>1. slots = [k \in 1 .. Count |-> decodeAll(addressPool, addressPoolIndex, row, k - 1)[2]]
        BY <1>7, <3>2
      <4> HIDE DEF Count
      <4> QED BY <1>3, <4>1
    <3>4. pushed = Pushed
      <4> HIDE DEF Own
      <4> QED BY <1>3, <1>8, <3>3
    <3> HIDE DEF Count, Pushed
    <3> QED BY <3>1, <3>2, <3>4
  <2>5. UNCHANGED <<customAbis, cachedSchema, gqlAnswers, gqlPosts>>
    BY DEF TranslateRow
  <2> QED BY <2>2, <2>3, <2>4, <2>5
<1>11. \/ pushed = <<>>
       \/ \E y \in ResultRecords : /\ pushed = <<y>> /\ y.row = row
                                   /\ Fresh(y, Len(r.name.field.addresses), pool2, at2)
  <2>1. CASE ~(type = r.name.field.type /\ StoredRows[row].topics >= r.name.field.needs)
    BY <1>8, <2>1
  <2>2. CASE type = r.name.field.type /\ StoredRows[row].topics >= r.name.field.needs
    <3>1. count = m /\ count # 0 /\ count \in Nat
      <4>1. count = m
        BY <1>4, <1>5, <2>2
      <4> QED BY <1>6, <4>1
    <3>2. row \in Nat
      <4>1. PICK page : page = r.page
        OBVIOUS
      <4>2. page \in Seq(Nat) /\ page # <<>>
        BY <1>1, <1>2, <4>1
      <4>3. Head(page) \in Nat
        BY <4>2
      <4> QED BY <1>3, <4>1, <4>3
    <3>3. slots \in Seq(Nat)
      <4>1. \A k \in 1 .. count : slots[k] \in Nat
        BY <1>7, <1>9
      <4>2. slots \in [1 .. count -> Nat]
        BY <1>7, <4>1
      <4> QED BY <3>1, <4>2
    <3>4. PICK y : y = [row |-> row, slots |-> slots, since |-> 0]
      OBVIOUS
    <3>5. y \in ResultRecords /\ y.row = row /\ y.slots = slots /\ y.since = 0
      BY <3>2, <3>3, <3>4 DEF ResultRecords
    <3>6. Fresh(y, count, pool2, at2)
      BY <1>7, <1>9, <3>1, <3>5
    <3>7. pushed = <<y>>
      BY <1>8, <2>2, <3>4
    <3> QED BY <1>5, <3>1, <3>5, <3>6, <3>7
  <2> QED BY <2>1, <2>2
<1>12. ASSUME NEW s \in resolvers'
       PROVE  ResolverSound(s, pool2, at2)
  <2>1. PICK t \in resolvers : s = IF t = r THEN [t EXCEPT !.page = Tail(@), !.results = later(@, count) \o pushed]
                                   ELSE [t EXCEPT !.results = later(@, count)]
    BY <1>10 DEF AfterTurn
  <2>2. CASE t = r
    <3>1. s = [r EXCEPT !.page = Tail(@), !.results = later(@, count) \o pushed]
      BY <2>1, <2>2
    <3>2. /\ count \in 0 .. 2
          /\ ResolverSound(r, addressPool, addressPoolIndex) /\ Ages(addressPool, addressPoolIndex, pool2, at2, count)
          /\ r.page # <<>> /\ row = Head(r.page) /\ s = TurnTaken(r, count, pushed) /\ Pushable(r, row, pushed, pool2, at2)
      BY <1>0, <1>2, <1>3, <1>6, <1>9, <1>11, <3>1 DEF TurnTaken, Pushable
    <3> QED BY ONLY <3>2, TurnSound
  <2>3. CASE t # r
    <3>1. s = [t EXCEPT !.results = later(@, count)]
      BY <2>1, <2>3
    <3>2. ResolverSound(t, addressPool, addressPoolIndex)
      BY DEF GqlInv
    <3>3. /\ count \in 0 .. 2 /\ s = Older(t, count)
          /\ ResolverSound(t, addressPool, addressPoolIndex) /\ Ages(addressPool, addressPoolIndex, pool2, at2, count)
      BY <1>6, <1>9, <3>1, <3>2 DEF Older
    <3> QED BY ONLY <3>3, BesideSound
  <2> QED BY <2>2, <2>3
<1> QED BY <1>9, <1>10, <1>12 DEF GqlInv

\* A field is answered: its rows' slots are read.
LEMMA AnsweredStep ==
    ASSUME GqlInv, NEW r \in resolvers, AnswerField(r)
    PROVE  GqlInv'
<1>0. ResolverSound(r, addressPool, addressPoolIndex) /\ PoolOK(addressPool, addressPoolIndex)
  BY DEF GqlInv
<1>1. /\ r \in ResolverRecords /\ r.page \in Seq(Nat) /\ r.results \in Seq(ResultRecords)
      /\ r.query \in GraphQueries /\ r.name.field \in FieldSet
  BY <1>0, ResolverFacts DEF ResolverSound
<1>2. PICK results : results = r.results
  OBVIOUS
<1>3. PICK found : found = [n \in DOMAIN results |->
              [row |-> results[n].row, since |-> results[n].since,
               shown |-> [k \in DOMAIN results[n].slots |-> addressPool[results[n].slots[k]]]]]
  OBVIOUS
<1>4. PICK a : a = [name |-> r.name, query |-> r.query, contract |-> r.contract, rows |-> found]
  OBVIOUS
<1>5. /\ resolvers' = resolvers \ {r} /\ gqlAnswers' = gqlAnswers \cup {a}
      /\ UNCHANGED <<customAbis, cachedSchema, translationCache, addressPool, addressPoolIndex, gqlPosts>>
  BY <1>2, <1>3, <1>4 DEF AnswerField
<1>6. a.name = r.name /\ a.query = r.query /\ a.contract = r.contract /\ a.rows = found
  BY <1>4
<1>7. Len(results) \in Nat /\ DOMAIN results = 1 .. Len(results) /\ \A n \in 1 .. Len(results) : results[n] \in ResultRecords
  BY <1>1, <1>2, LenProperties, ElementOfSeq
<1>8. DOMAIN found = 1 .. Len(results) /\ Len(found) = Len(results)
  BY <1>3, <1>7
<1>9. PICK m : m = Len(r.name.field.addresses)
  OBVIOUS
<1>10. m \in 1 .. 2 /\ ADDRESS_POOL_SIZE \in Nat
  BY <1>1, <1>9, AddressCount, GraphQLAssumption
<1>11. ASSUME NEW n \in 1 .. Len(results)
       PROVE  /\ StoredRows[found[n].row].contract = r.contract
              /\ found[n].since <= ADDRESS_POOL_SIZE - m => \A k \in 1 .. m : found[n].shown[k] = <<found[n].row, k + 1>>
  <2>1. PICK x : x = results[n]
    OBVIOUS
  <2>2. found[n] = [row |-> x.row, since |-> x.since, shown |-> [k \in DOMAIN x.slots |-> addressPool[x.slots[k]]]]
    BY <1>3, <1>7, <2>1
  <2>3. PICK seen : seen = [k \in DOMAIN x.slots |-> addressPool[x.slots[k]]]
    OBVIOUS
  <2>4. found[n].row = x.row /\ found[n].since = x.since /\ found[n].shown = seen
    BY <2>2, <2>3
  <2>5. StoredRows[x.row].contract = r.contract /\ Fresh(x, m, addressPool, addressPoolIndex)
    BY <1>0, <1>2, <1>9, <2>1 DEF ResolverSound
  <2>6. x.since \in Nat /\ x.slots \in Seq(Nat)
    BY <1>7, <2>1 DEF ResultRecords
  <2>7. ASSUME x.since <= ADDRESS_POOL_SIZE - m, NEW k \in 1 .. m PROVE seen[k] = <<x.row, k + 1>>
    <3>1. x.since + m <= ADDRESS_POOL_SIZE
      BY <1>10, <2>6, <2>7
    <3>2. addressPool[x.slots[k]] = <<x.row, k + 1>>
      BY <2>5, <3>1 DEF Fresh
    <3>3. k \in DOMAIN x.slots
      BY <2>5, <3>1 DEF Fresh
    <3> QED BY <2>3, <3>2, <3>3
  <2> QED BY <2>4, <2>5, <2>7
<1>12. ASSUME a.query.limit # Unset, a.query.limit >= 0
       PROVE  1 + Len(a.rows) * a.query.selects <= maxComplexity
  <2>1. r.page = <<>>
    BY DEF AnswerField
  <2>2. Within(r.query, Len(r.page) + Len(r.results)) /\ computeNodeComplexity(r.query) <= maxComplexity
    BY <1>0 DEF ResolverSound
  <2>3. Len(r.page) = 0
    BY <2>1
  <2>4. Len(results) <= r.query.limit
    BY <1>2, <1>6, <1>7, <1>12, <2>2, <2>3 DEF Within
  <2>5. 1 + Len(results) * r.query.selects <= maxComplexity
    BY <1>1, <1>6, <1>7, <1>12, <2>2, <2>4, Scalars
  <2> QED BY <1>6, <1>8, <2>5
<1>13. AnswerSound(a)
  <2>1. shortIdOf[a.contract] = a.name.id
    BY <1>0, <1>6 DEF ResolverSound
  <2>2. \A n \in DOMAIN a.rows :
          /\ StoredRows[a.rows[n].row].contract = a.contract
          /\ a.rows[n].since <= ADDRESS_POOL_SIZE - Len(a.name.field.addresses)
                => \A k \in 1 .. Len(a.name.field.addresses) : a.rows[n].shown[k] = <<a.rows[n].row, k + 1>>
    BY <1>6, <1>8, <1>9, <1>11
  <2> QED BY <1>12, <2>1, <2>2 DEF AnswerSound
<1> QED BY <1>5, <1>13 DEF GqlInv

\* Every step of the route keeps its invariant.
LEMMA GqlStep == GqlInv /\ [GraphQLNext]_gqlvars => GqlInv'
<1> SUFFICES ASSUME GqlInv, [GraphQLNext]_gqlvars PROVE GqlInv'
  OBVIOUS
<1>1. CASE \E c \in CustomContracts : registerContract(c)
  BY <1>1, RegisterStep
<1>2. ASSUME NEW q \in GraphQueries, NEW name \in DOMAIN currentSchema, PostContractField(q, name) PROVE GqlInv'
  <2>1. customAbis \in Seq(CustomContracts) /\ currentSchema = buildSchema(customAbis)
    BY DEF GqlInv, currentSchema
  <2>2. /\ name \in FieldNames /\ currentSchema[name] \in GqlContracts /\ shortIdOf[currentSchema[name]] = name.id
    BY <2>1, SchemaHolds
  <2>3. PostQuery(q, name, currentSchema[name])
    BY <1>2 DEF PostContractField
  <2> QED BY <2>2, <2>3, PostStep
<1>3. ASSUME NEW q \in GraphQueries, NEW field \in StandardFields, NEW c \in Range(BuiltIn) \cup CustomContracts,
             PostGenericField(q, field, c)
      PROVE  GqlInv'
  <2>1. PICK name : name = [field |-> field, id |-> shortIdOf[c]]
    OBVIOUS
  <2>2. c \in GqlContracts /\ c \in DOMAIN shortIdOf
    BY GraphQLAssumption DEF GqlContracts
  <2>3. name \in FieldNames /\ shortIdOf[c] = name.id
    BY <2>1, <2>2 DEF FieldNames, FieldSet, Range
  <2>4. PostQuery(q, name, c)
    BY <1>3, <2>1 DEF PostGenericField
  <2> QED BY <2>2, <2>3, <2>4, PostStep
<1>4. ASSUME NEW r \in resolvers, TranslateRow(r) \/ AnswerField(r) PROVE GqlInv'
  BY <1>4, TranslateStep, AnsweredStep
<1>5. CASE UNCHANGED gqlvars
  BY <1>5 DEF gqlvars, GqlInv
<1> QED BY <1>1, <1>2, <1>3, <1>4, <1>5 DEF GraphQLNext

\* The properties follow from the invariant.
LEMMA GqlFacts == GqlInv => SchemaIsCurrent /\ FreshRowsAreOwn /\ AnswerWithinComplexity
<1> SUFFICES ASSUME GqlInv PROVE SchemaIsCurrent /\ FreshRowsAreOwn /\ AnswerWithinComplexity
  OBVIOUS
<1>1. \A a \in gqlAnswers : AnswerSound(a)
  BY DEF GqlInv
<1>2. SchemaIsCurrent
  BY <1>1 DEF SchemaIsCurrent, AnswerSound, GqlInv
<1>3. FreshRowsAreOwn
  BY <1>1 DEF FreshRowsAreOwn, AnswerSound
<1>4. AnswerWithinComplexity
  BY <1>1 DEF AnswerWithinComplexity, AnswerSound
<1> QED BY <1>2, <1>3, <1>4

\* In every state the cached schema is that of the contracts registered now; a field answers with
\* rows of one contract; a row shows its own addresses unless the pool came round; and the
\* limit on a request holds for the scalars of its answer.
THEOREM GraphQLCorrect == GraphQLSpec => [](SchemaIsCurrent /\ FreshRowsAreOwn /\ AnswerWithinComplexity)
<1>1. GraphQLInit => GqlInv
  BY GqlInitial
<1>2. GqlInv /\ [GraphQLNext]_gqlvars => GqlInv'
  BY GqlStep
<1>3. GqlInv => SchemaIsCurrent /\ FreshRowsAreOwn /\ AnswerWithinComplexity
  BY GqlFacts
<1> QED BY <1>1, <1>2, <1>3, PTL DEF GraphQLSpec
-----------------------------------------------------------------------------
(* Blueprints written by users.                                          *)

\* Lists of ABIs, one for a contract at most, whose events are numbered.
OnePerContract(abis) == \A n, m \in DOMAIN abis : abis[n].contract = abis[m].contract => n = m
Numbered(abis) == \A n \in DOMAIN abis : DOMAIN abis[n].events \subseteq Nat
AbiList(abis) == IsList(abis) /\ OnePerContract(abis) /\ Numbered(abis)

\* What was tried came from the functions that try.
PreviewSound ==
    \/ previewed = <<>>
    \/ \E spec \in SpecFiles, event \in UserEvents :
          /\ spec # <<>>
          /\ previewed = [spec |-> spec, event |-> event, matches |-> blueprintMatches(spec, event),
                          result |-> translateSpec(spec, event)]

BpInv ==
    /\ AbiList(storedAbis) /\ lastKept = [c \in ContractIds |-> lastKept[c]]
    /\ \A c \in ContractIds : heldFor(storedAbis, c) = {lastKept[c]} \ {<<>>}
    /\ customAbisOf = [t \in Tabs |-> customAbisOf[t]] /\ \A t \in Tabs : AbiList(customAbisOf[t])
    /\ lastDone = [t \in Tabs |-> [c \in ContractIds |-> lastDone[t][c]]]
    /\ OwnWorkIsUsed /\ PreviewSound /\ ShownFromTheEvent

\* A function that tells the places.
PlacesOf(at, list, places, u) ==
    /\ IsList(u) /\ DOMAIN u = 1 .. Cardinality(places)
    /\ \A k \in 1 .. Cardinality(places) : at[k] \in places /\ u[k] = list[at[k]]
    /\ \A k, j \in 1 .. Cardinality(places) : at[k] = at[j] => k = j
    /\ \A n \in places : \E k \in 1 .. Cardinality(places) : at[k] = n

\* A list's elements at some of its places: each place is there once.
LEMMA ElementsHold ==
    ASSUME NEW list, NEW places, IsFiniteSet(places), places \subseteq Nat
    PROVE  Cardinality(places) \in Nat /\ \E at : PlacesOf(at, list, places, elementsAt(list, places))
<1>1. PICK size : size = Cardinality(places)
  OBVIOUS
<1>2. /\ size \in Nat
      /\ \A r, t \in places : r > t => Cardinality({x \in places : x > r}) < Cardinality({x \in places : x > t})
      /\ \A n \in 1 .. size : \E r \in places : Cardinality({x \in places : x > r}) = n - 1
  BY <1>1, RowsRanked
<1> DEFINE Below(n) == Cardinality({m \in places : m < n})
           Above(n) == Cardinality({m \in places : m > n})
           The(k) == CHOOSE n \in places : Cardinality({m \in places : m < n}) = k - 1
<1>3. \A n \in places : Below(n) \in Nat /\ Above(n) \in Nat /\ Below(n) = size - Above(n) - 1
  BY <1>1, RanksBelow
<1>4. ASSUME NEW k \in 1 .. size PROVE The(k) \in places /\ Below(The(k)) = k - 1
  <2>1. size - k + 1 \in 1 .. size /\ (size - k + 1) - 1 = size - k
    BY <1>2
  <2>2. PICK r \in places : Above(r) = (size - k + 1) - 1
    BY <1>2, <2>1
  <2>3. Below(r) = k - 1
    BY <1>2, <1>3, <2>1, <2>2
  <2> QED BY <2>3
<1>5. PICK at : at = [k \in 1 .. size |-> The(k)]
  OBVIOUS
<1>6. PICK u : u = [k \in 1 .. size |-> list[The(k)]]
  OBVIOUS
<1>7. u = elementsAt(list, places)
  BY <1>1, <1>6 DEF elementsAt
<1>8. ASSUME NEW k \in 1 .. size PROVE at[k] \in places /\ Below(at[k]) = k - 1 /\ u[k] = list[at[k]]
  <2>1. at[k] = The(k) /\ u[k] = list[The(k)]
    <3> HIDE DEF The
    <3> QED BY <1>5, <1>6
  <2> HIDE DEF The, Below
  <2> QED BY <1>4, <2>1
<1>9. DOMAIN u = 1 .. size /\ u = [k \in 1 .. size |-> u[k]]
  BY <1>6
<1> HIDE DEF The, Below
<1>10. IsList(u)
  <2>1. PICK T : T = Range(u)
    OBVIOUS
  <2>2. \A k \in 1 .. size : u[k] \in T
    BY <1>9, <2>1 DEF Range
  <2>3. u \in [1 .. size -> T]
    BY <1>9, <2>2
  <2>4. u \in Seq(T)
    BY <1>2, <2>3
  <2> QED BY <2>1, <2>4 DEF IsList
<1>11. ASSUME NEW k \in 1 .. size, NEW j \in 1 .. size, at[k] = at[j] PROVE k = j
  <2>1. k - 1 = j - 1
    BY <1>8, <1>11
  <2> QED BY <2>1
<1>12. ASSUME NEW n \in places PROVE \E k \in 1 .. size : at[k] = n
  <2>1. PICK k : k = Below(n) + 1
    OBVIOUS
  <2>2. k \in 1 .. size /\ k - 1 = Below(n)
    <3>1. Below(n) \in Nat /\ Above(n) \in Nat /\ Below(n) = size - Above(n) - 1
      BY <1>3
    <3> HIDE DEF Above
    <3> QED BY <1>2, <2>1, <3>1
  <2>3. at[k] \in places /\ Below(at[k]) = Below(n)
    BY <1>8, <2>2
  <2>4. Above(at[k]) = Above(n)
    <3>1. size \in Nat /\ Above(n) \in Nat /\ Above(at[k]) \in Nat
      BY <1>2, <1>3, <2>3
    <3>2. Below(n) = size - Above(n) - 1 /\ Below(at[k]) = size - Above(at[k]) - 1
      BY <1>3, <2>3
    <3> HIDE DEF Above
    <3> QED BY <2>3, <3>1, <3>2
  <2>5. ~(at[k] > n) /\ ~(n > at[k])
    <3>1. Above(n) \in Nat /\ Above(at[k]) \in Nat
      BY <1>3, <2>3
    <3>2. at[k] > n => Above(at[k]) < Above(n)
      BY <1>2, <2>3
    <3>3. n > at[k] => Above(n) < Above(at[k])
      BY <1>2, <2>3
    <3> HIDE DEF Above
    <3> QED BY <2>4, <3>1, <3>2, <3>3
  <2>6. at[k] \in Nat /\ n \in Nat
    BY <2>3
  <2> QED BY <2>2, <2>5, <2>6
<1>13. PlacesOf(at, list, places, u)
  BY <1>1, <1>8, <1>9, <1>10, <1>11, <1>12 DEF PlacesOf
<1> QED BY <1>1, <1>2, <1>7, <1>13

\* A list without the ABI of a contract: what it has for the others is what it had.
LEMMA WithoutHolds ==
    ASSUME NEW abis, AbiList(abis), NEW c
    PROVE  /\ AbiList(withoutContract(abis, c)) /\ heldFor(withoutContract(abis, c), c) = {}
           /\ \A d : d # c => heldFor(withoutContract(abis, c), d) = heldFor(abis, d)
           /\ \A n \in DOMAIN withoutContract(abis, c) : withoutContract(abis, c)[n].contract # c
<1>1. PICK places, u : places = {n \in DOMAIN abis : abis[n].contract # c} /\ u = elementsAt(abis, places)
  OBVIOUS
<1>2. u = withoutContract(abis, c)
  BY <1>1 DEF withoutContract
<1>3. IsFiniteSet(places) /\ places \subseteq Nat /\ places \subseteq DOMAIN abis
  <2>1. Len(abis) \in Nat /\ DOMAIN abis = 1 .. Len(abis)
    BY ListFacts DEF AbiList
  <2>2. IsFiniteSet(1 .. Len(abis)) /\ places \in SUBSET (1 .. Len(abis))
    BY <1>1, <2>1, FS_Interval
  <2>3. IsFiniteSet(places)
    BY <2>2, FS_Subset
  <2> QED BY <2>1, <2>2, <2>3
<1>4. PICK size : size = Cardinality(places)
  OBVIOUS
<1>5. PICK at :
         /\ size \in Nat /\ IsList(u) /\ DOMAIN u = 1 .. size
         /\ \A k \in 1 .. size : at[k] \in places /\ u[k] = abis[at[k]]
         /\ \A k, j \in 1 .. size : at[k] = at[j] => k = j
         /\ \A n \in places : \E k \in 1 .. size : at[k] = n
  <2>1. size \in Nat /\ \E at : PlacesOf(at, abis, places, u)
    BY <1>1, <1>3, <1>4, ElementsHold
  <2> QED BY <1>4, <2>1 DEF PlacesOf
<1>6. \A k \in 1 .. size : u[k].contract # c
  BY <1>1, <1>5
<1>7. AbiList(u)
  <2>1. OnePerContract(u)
    <3>1. ASSUME NEW n \in 1 .. size, NEW m \in 1 .. size, u[n].contract = u[m].contract PROVE n = m
      <4>1. at[n] \in DOMAIN abis /\ at[m] \in DOMAIN abis /\ u[n] = abis[at[n]] /\ u[m] = abis[at[m]]
        BY <1>3, <1>5
      <4>2. at[n] = at[m]
        BY <3>1, <4>1 DEF AbiList, OnePerContract
      <4> QED BY <1>5, <4>2
    <3> QED BY <1>5, <3>1 DEF OnePerContract
  <2>2. Numbered(u)
    BY <1>3, <1>5 DEF AbiList, Numbered
  <2> QED BY <1>5, <2>1, <2>2 DEF AbiList
<1>8. heldFor(u, c) = {}
  BY <1>5, <1>6 DEF heldFor
<1>9. ASSUME NEW d, d # c PROVE heldFor(u, d) = heldFor(abis, d)
  <2>1. ASSUME NEW e \in heldFor(u, d) PROVE e \in heldFor(abis, d)
    <3>1. PICK k \in 1 .. size : u[k].contract = d /\ e = u[k].events
      BY <1>5, <2>1 DEF heldFor
    <3>2. at[k] \in DOMAIN abis /\ u[k] = abis[at[k]]
      BY <1>3, <1>5
    <3>3. abis[at[k]].contract = d /\ e = abis[at[k]].events
      BY <3>1, <3>2
    <3> QED BY <3>2, <3>3 DEF heldFor
  <2>2. ASSUME NEW e \in heldFor(abis, d) PROVE e \in heldFor(u, d)
    <3>1. PICK n \in DOMAIN abis : abis[n].contract = d /\ e = abis[n].events
      BY <2>2 DEF heldFor
    <3>2. n \in places
      BY <1>1, <1>9, <3>1
    <3>3. PICK k \in 1 .. size : at[k] = n
      BY <1>5, <3>2
    <3> QED BY <1>5, <3>1, <3>3 DEF heldFor
  <2> QED BY <2>1, <2>2
<1> QED BY <1>2, <1>5, <1>6, <1>7, <1>8, <1>9

\* One more, of a contract the list had none for.
LEMMA OneMoreHolds ==
    ASSUME NEW abis, AbiList(abis), NEW abi, \A n \in DOMAIN abis : abis[n].contract # abi.contract,
           DOMAIN abi.events \subseteq Nat
    PROVE  /\ AbiList(Append(abis, abi)) /\ heldFor(Append(abis, abi), abi.contract) = {abi.events}
           /\ \A d : d # abi.contract => heldFor(Append(abis, abi), d) = heldFor(abis, d)
<1>1. PICK u, N : u = Append(abis, abi) /\ N = Len(abis)
  OBVIOUS
<1>2. N \in Nat /\ DOMAIN abis = 1 .. N
  BY <1>1, ListFacts DEF AbiList
<1>3. /\ IsList(u) /\ Len(u) = N + 1 /\ u[N + 1] = abi
      /\ \A n \in 1 .. N : u[n] = abis[n]
  BY <1>1, ListAppended DEF AbiList
<1>4. DOMAIN u = 1 .. N + 1
  BY <1>3, ListFacts
<1>5. \A n \in 1 .. N + 1 : n \in 1 .. N \/ n = N + 1
  BY <1>2
<1>6. N + 1 \in 1 .. N + 1 /\ \A n \in 1 .. N : n \in 1 .. N + 1
  BY <1>2
<1>7. AbiList(u)
  <2>1. OnePerContract(u)
    <3>1. ASSUME NEW n \in 1 .. N + 1, NEW m \in 1 .. N + 1, u[n].contract = u[m].contract PROVE n = m
      <4>1. CASE n \in 1 .. N /\ m \in 1 .. N
        BY <1>2, <1>3, <3>1, <4>1 DEF AbiList, OnePerContract
      <4>2. CASE n \in 1 .. N /\ m = N + 1
        BY <1>2, <1>3, <3>1, <4>2
      <4>3. CASE n = N + 1 /\ m \in 1 .. N
        BY <1>2, <1>3, <3>1, <4>3
      <4> QED BY <1>5, <4>1, <4>2, <4>3
    <3> QED BY <1>4, <3>1 DEF OnePerContract
  <2>2. Numbered(u)
    BY <1>2, <1>3, <1>4, <1>5 DEF Numbered, AbiList
  <2> QED BY <1>3, <2>1, <2>2 DEF AbiList
<1>8. heldFor(u, abi.contract) = {abi.events}
  <2>1. \A e \in heldFor(u, abi.contract) : e = abi.events
    BY <1>2, <1>3, <1>4, <1>5 DEF heldFor
  <2>2. abi.events \in heldFor(u, abi.contract)
    BY <1>3, <1>4, <1>6 DEF heldFor
  <2> QED BY <2>1, <2>2
<1>9. ASSUME NEW d, d # abi.contract PROVE heldFor(u, d) = heldFor(abis, d)
  <2>1. \A e \in heldFor(u, d) : e \in heldFor(abis, d)
    BY <1>2, <1>3, <1>4, <1>5, <1>9 DEF heldFor
  <2>2. \A e \in heldFor(abis, d) : e \in heldFor(u, d)
    BY <1>2, <1>3, <1>4, <1>6 DEF heldFor
  <2> QED BY <2>1, <2>2
<1> QED BY <1>1, <1>7, <1>8, <1>9

\* The events of a file are numbered.
LEMMA EventsNumbered ==
    ASSUME NEW file \in AbiFiles
    PROVE  DOMAIN eventsOf(file) \subseteq Nat
<1>1. PICK list, places : list = file.records /\ places = {n \in DOMAIN file.records : file.records[n].kind \in {"none", "event"}}
  OBVIOUS
<1>2. IsFiniteSet(places) /\ places \subseteq Nat
  <2>1. IsList(list)
    BY <1>1, BlueprintsAssumption DEF IsList
  <2>2. Len(list) \in Nat /\ DOMAIN list = 1 .. Len(list)
    BY <2>1, ListFacts
  <2>3. IsFiniteSet(1 .. Len(list)) /\ places \in SUBSET (1 .. Len(list))
    BY <1>1, <2>2, FS_Interval
  <2>4. IsFiniteSet(places)
    BY <2>3, FS_Subset
  <2> QED BY <2>2, <2>3, <2>4
<1>3. Cardinality(places) \in Nat /\ DOMAIN elementsAt(list, places) = 1 .. Cardinality(places)
  BY <1>2, ElementsHold DEF PlacesOf
<1>4. DOMAIN eventsOf(file) = DOMAIN elementsAt(list, places)
  BY <1>1 DEF eventsOf
<1> QED BY <1>3, <1>4

\* What a tab writes takes the place of one contract's ABI alone.
LEMMA PersistStep ==
    ASSUME BpInv, NEW t \in Tabs, NEW next, NEW c \in ContractIds, NEW events, NEW isWritten \in BOOLEAN,
           persist(t, next, c, events, isWritten), AbiList(next), heldFor(next, c) = {events} \ {<<>>},
           \A d : d # c => heldFor(next, d) = heldFor(storedAbis, d)
    PROVE  BpInv'
<1>1. /\ customAbisOf' = [customAbisOf EXCEPT ![t] = next]
      /\ storedAbis' = IF isWritten THEN next ELSE storedAbis
      /\ lastKept' = IF isWritten THEN [lastKept EXCEPT ![c] = events] ELSE lastKept
      /\ UNCHANGED <<shownAbiEvent, previewed>>
  BY DEF persist
<1>2. PICK done : done = [done |-> IF events = <<>> THEN "remove" ELSE "upload", events |-> events]
  OBVIOUS
<1>3. done.events = events /\ done.done = IF events = <<>> THEN "remove" ELSE "upload"
  BY <1>2
<1>4. done # NotDone
  BY <1>3 DEF NotDone
<1>5. PICK own : own = lastDone[t]
  OBVIOUS
<1>6. own = [d \in ContractIds |-> own[d]]
  BY <1>5 DEF BpInv
<1>7. lastDone' = [lastDone EXCEPT ![t] = [own EXCEPT ![c] = done]]
  BY <1>2, <1>5 DEF persist
<1>8. PICK new : new = [own EXCEPT ![c] = done]
  OBVIOUS
<1>9. new[c] = done /\ new = [d \in ContractIds |-> new[d]]
  BY <1>6, <1>8
<1>10. /\ lastDone'[t] = new /\ \A s \in Tabs : s # t => lastDone'[s] = lastDone[s]
       /\ lastDone' = [s \in Tabs |-> lastDone'[s]]
  BY <1>7, <1>8 DEF BpInv
<1>11. lastDone' = [s \in Tabs |-> [d \in ContractIds |-> lastDone'[s][d]]]
  <2>1. \A s \in Tabs : lastDone'[s] = [d \in ContractIds |-> lastDone'[s][d]]
    BY <1>9, <1>10 DEF BpInv
  <2> QED BY <1>10, <2>1
<1>12. /\ customAbisOf'[t] = next /\ \A s \in Tabs : s # t => customAbisOf'[s] = customAbisOf[s]
       /\ customAbisOf' = [s \in Tabs |-> customAbisOf'[s]]
  BY <1>1 DEF BpInv
<1>13. \A s \in Tabs : AbiList(customAbisOf'[s])
  BY <1>12 DEF BpInv
<1>14. AbiList(storedAbis')
  BY <1>1 DEF BpInv
<1>15. /\ lastKept' = [d \in ContractIds |-> lastKept'[d]]
       /\ isWritten => lastKept'[c] = events /\ \A d \in ContractIds : d # c => lastKept'[d] = lastKept[d]
  BY <1>1 DEF BpInv
<1>16. ASSUME NEW d \in ContractIds PROVE heldFor(storedAbis', d) = {lastKept'[d]} \ {<<>>}
  <2>1. heldFor(storedAbis, d) = {lastKept[d]} \ {<<>>}
    BY DEF BpInv
  <2>2. CASE isWritten /\ d = c
    BY <1>1, <1>15, <2>2
  <2>3. CASE isWritten /\ d # c
    BY <1>1, <1>15, <2>1, <2>3
  <2>4. CASE ~isWritten
    BY <1>1, <2>1, <2>4
  <2> QED BY <2>2, <2>3, <2>4
<1>17. OwnWorkIsUsed'
  <2>1. ASSUME NEW s \in Tabs, NEW d \in ContractIds, \A e \in ContractIds \ {d} : lastDone'[s][e] = NotDone
        PROVE  /\ lastDone'[s][d].done = "upload" => heldFor(customAbisOf'[s], d) = {lastDone'[s][d].events}
               /\ lastDone'[s][d].done = "remove" => heldFor(customAbisOf'[s], d) = {}
    <3>1. CASE s # t
      <4>1. lastDone'[s] = lastDone[s] /\ customAbisOf'[s] = customAbisOf[s]
        BY <1>10, <1>12, <3>1
      <4> QED BY <2>1, <4>1 DEF BpInv, OwnWorkIsUsed
    <3>2. CASE s = t
      <4>1. d = c
        BY <1>4, <1>9, <1>10, <2>1, <3>2
      <4>2. lastDone'[s][d] = done /\ heldFor(customAbisOf'[s], d) = {events} \ {<<>>}
        BY <1>9, <1>10, <1>12, <3>2, <4>1
      <4>3. CASE events = <<>>
        BY <1>3, <4>2, <4>3
      <4>4. CASE events # <<>>
        BY <1>3, <4>2, <4>4
      <4> QED BY <4>3, <4>4
    <3> QED BY <3>1, <3>2
  <2> QED BY <2>1 DEF OwnWorkIsUsed
<1>18. PreviewSound' /\ ShownFromTheEvent'
  BY <1>1 DEF BpInv, PreviewSound, ShownFromTheEvent
<1> QED BY <1>11, <1>12, <1>13, <1>14, <1>15, <1>16, <1>17, <1>18 DEF BpInv

\* An ABI is uploaded.
LEMMA UploadStep ==
    ASSUME BpInv, NEW t \in Tabs, NEW file \in AbiFiles, NEW isWritten \in BOOLEAN, UploadAbi(t, file, isWritten)
    PROVE  BpInv'
<1>1. PICK abi, events : abi = [contract |-> file.contract, events |-> eventsOf(file)] /\ events = eventsOf(file)
  OBVIOUS
<1>2. abi.contract = file.contract /\ abi.events = events /\ events # <<>> /\ DOMAIN abi.events \subseteq Nat
  BY <1>1, EventsNumbered DEF UploadAbi
<1>3. PICK c : c = file.contract
  OBVIOUS
<1>4. c \in ContractIds
  BY <1>3, BlueprintsAssumption
<1>5. PICK others, next : others = withoutContract(storedAbis, c) /\ next = Append(others, abi)
  OBVIOUS
<1>6. persist(t, next, c, events, isWritten)
  BY <1>1, <1>2, <1>3, <1>5 DEF UploadAbi, saveCustomAbi
<1>7. /\ AbiList(others) /\ \A d : d # c => heldFor(others, d) = heldFor(storedAbis, d)
      /\ \A n \in DOMAIN others : others[n].contract # c
  BY <1>5, WithoutHolds DEF BpInv
<1>8. /\ AbiList(next) /\ heldFor(next, c) = {events}
      /\ \A d : d # c => heldFor(next, d) = heldFor(others, d)
  <2>1. \A n \in DOMAIN others : others[n].contract # abi.contract
    BY <1>2, <1>3, <1>7
  <2>2. AbiList(others) /\ DOMAIN abi.events \subseteq Nat /\ \A n \in DOMAIN others : others[n].contract # abi.contract
    BY <1>2, <1>7, <2>1
  <2>3. /\ AbiList(Append(others, abi)) /\ heldFor(Append(others, abi), abi.contract) = {abi.events}
        /\ \A d : d # abi.contract => heldFor(Append(others, abi), d) = heldFor(others, d)
    BY ONLY <2>2, OneMoreHolds
  <2> QED BY <1>2, <1>3, <1>5, <2>3
<1>9. heldFor(next, c) = {events} \ {<<>>}
  BY <1>2, <1>8
<1> QED BY <1>4, <1>6, <1>7, <1>8, <1>9, PersistStep

\* One is removed.
LEMMA RemoveAbiStep ==
    ASSUME BpInv, NEW t \in Tabs, NEW c \in ContractIds, NEW isWritten \in BOOLEAN, RemoveAbi(t, c, isWritten)
    PROVE  BpInv'
<1>1. PICK next, events : next = withoutContract(storedAbis, c) /\ events = <<>>
  OBVIOUS
<1>2. persist(t, next, c, events, isWritten)
  BY <1>1 DEF RemoveAbi, removeCustomAbi
<1>3. /\ AbiList(next) /\ heldFor(next, c) = {}
      /\ \A d : d # c => heldFor(next, d) = heldFor(storedAbis, d)
  BY <1>1, WithoutHolds DEF BpInv
<1>4. heldFor(next, c) = {events} \ {<<>>}
  BY <1>1, <1>3
<1> QED BY <1>2, <1>3, <1>4, PersistStep

\* A tab reads the list again.
LEMMA LoadStep ==
    ASSUME BpInv, NEW t \in Tabs, loadCustomAbis(t)
    PROVE  BpInv'
<1>1. PICK none : none = [c \in ContractIds |-> NotDone]
  OBVIOUS
<1>2. /\ customAbisOf' = [customAbisOf EXCEPT ![t] = storedAbis] /\ lastDone' = [lastDone EXCEPT ![t] = none]
      /\ UNCHANGED <<storedAbis, shownAbiEvent, previewed, uploads, lastKept>>
  BY <1>1 DEF loadCustomAbis
<1>3. none = [c \in ContractIds |-> none[c]] /\ \A c \in ContractIds : none[c].done = "nothing"
  BY <1>1 DEF NotDone
<1>4. /\ customAbisOf'[t] = storedAbis /\ \A s \in Tabs : s # t => customAbisOf'[s] = customAbisOf[s]
      /\ customAbisOf' = [s \in Tabs |-> customAbisOf'[s]]
  BY <1>2 DEF BpInv
<1>5. /\ lastDone'[t] = none /\ \A s \in Tabs : s # t => lastDone'[s] = lastDone[s]
      /\ lastDone' = [s \in Tabs |-> lastDone'[s]]
  BY <1>2 DEF BpInv
<1>6. lastDone' = [s \in Tabs |-> [c \in ContractIds |-> lastDone'[s][c]]]
  <2>1. \A s \in Tabs : lastDone'[s] = [c \in ContractIds |-> lastDone'[s][c]]
    BY <1>3, <1>5 DEF BpInv
  <2> QED BY <1>5, <2>1
<1>7. \A s \in Tabs : AbiList(customAbisOf'[s])
  BY <1>4 DEF BpInv
<1>8. OwnWorkIsUsed'
  <2>1. ASSUME NEW s \in Tabs, NEW d \in ContractIds, \A e \in ContractIds \ {d} : lastDone'[s][e] = NotDone
        PROVE  /\ lastDone'[s][d].done = "upload" => heldFor(customAbisOf'[s], d) = {lastDone'[s][d].events}
               /\ lastDone'[s][d].done = "remove" => heldFor(customAbisOf'[s], d) = {}
    <3>1. CASE s # t
      <4>1. lastDone'[s] = lastDone[s] /\ customAbisOf'[s] = customAbisOf[s]
        BY <1>4, <1>5, <3>1
      <4> QED BY <2>1, <4>1 DEF BpInv, OwnWorkIsUsed
    <3>2. CASE s = t
      BY <1>3, <1>5, <3>2
    <3> QED BY <3>1, <3>2
  <2> QED BY <2>1 DEF OwnWorkIsUsed
<1>9. PreviewSound' /\ ShownFromTheEvent'
  BY <1>2 DEF BpInv, PreviewSound, ShownFromTheEvent
<1> QED BY <1>2, <1>4, <1>6, <1>7, <1>8, <1>9 DEF BpInv

\* An event is shown with the tab's list.
LEMMA ShowStep ==
    ASSUME BpInv, NEW t \in Tabs, NEW event \in UserEvents, ShowEvent(t, event)
    PROVE  BpInv'
<1>1. PICK n \in DOMAIN customAbisOf[t] :
         shownAbiEvent' = [tab |-> t, event |-> event, result |-> translateWithAbi(customAbisOf[t][n].events, event)]
  BY DEF ShowEvent
<1>2. UNCHANGED <<storedAbis, customAbisOf, previewed, uploads, lastKept, lastDone>>
  BY DEF ShowEvent
<1>3. PICK events, result : events = customAbisOf[t][n].events /\ result = translateWithAbi(events, event)
  OBVIOUS
<1>4. shownAbiEvent'.event = event /\ shownAbiEvent'.result = result
  BY <1>1, <1>3
<1>5. DOMAIN events \subseteq Nat
  BY <1>3 DEF BpInv, AbiList, Numbered
<1>6. PICK topic, own, matching : /\ topic = event.topics[1] /\ own = Append(Tail(event.topics), event.data)
                                  /\ matching = {m \in DOMAIN events : matchesAbiEvent(topic, events[m].name)}
  OBVIOUS
<1> DEFINE First == CHOOSE m \in matching : \A k \in matching : m <= k
<1>7. matching # {} => First \in matching
  <2>1. matching \in SUBSET Nat
    BY <1>5, <1>6
  <2>2. matching # {} => \E m \in matching : \A k \in matching : m <= k
    BY <2>1, LeastOf
  <2> QED BY <2>2
<1>8. PICK first : first = First
  OBVIOUS
<1>9. result = IF matching = {} THEN <<>>
               ELSE <<[name |-> events[first].name,
                       values |-> [k \in DOMAIN events[first].fields |-> IF k \in DOMAIN own THEN own[k] ELSE "0x00"]]>>
  <2> DEFINE M == {k \in DOMAIN events : matchesAbiEvent(event.topics[1], events[k].name)}
             F == CHOOSE k \in M : \A m \in M : k <= m
             P == Append(Tail(event.topics), event.data)
  <2>1. result = IF M = {} THEN <<>>
                 ELSE <<[name |-> events[F].name,
                         values |-> [k \in DOMAIN events[F].fields |-> IF k \in DOMAIN P THEN P[k] ELSE "0x00"]]>>
    BY <1>3 DEF translateWithAbi
  <2>2. M = matching
    BY <1>6
  <2>3. F = first
    <3> HIDE DEF M
    <3> QED BY <1>8, <2>2 DEF First
  <2>4. P = own
    BY <1>6
  <2> HIDE DEF M, F, P
  <2> QED BY <2>1, <2>2, <2>3, <2>4
<1>10. matching # {} => first \in matching
  BY <1>7, <1>8
<1> HIDE DEF First
<1>11. ASSUME NEW m \in DOMAIN result
       PROVE  /\ matchesAbiEvent(topic, result[m].name)
              /\ \A k \in DOMAIN result[m].values : result[m].values[k] = IF k \in DOMAIN own THEN own[k] ELSE "0x00"
  <2>1. matching # {}
    BY <1>9, <1>11
  <2>2. PICK values : values = [k \in DOMAIN events[first].fields |-> IF k \in DOMAIN own THEN own[k] ELSE "0x00"]
    OBVIOUS
  <2>3. result = <<[name |-> events[first].name, values |-> values]>>
    BY <1>9, <2>1, <2>2
  <2>4. m = 1 /\ result[m].name = events[first].name /\ result[m].values = values
    BY <1>11, <2>3
  <2>5. matchesAbiEvent(topic, events[first].name)
    BY <1>6, <1>10, <2>1
  <2> QED BY <2>2, <2>4, <2>5
<1>12. ShownFromTheEvent'
  BY <1>4, <1>6, <1>11 DEF ShownFromTheEvent
<1>13. PreviewSound' /\ OwnWorkIsUsed'
  BY <1>2 DEF BpInv, PreviewSound, OwnWorkIsUsed
<1> QED BY <1>2, <1>12, <1>13 DEF BpInv

\* A specification is tried.
LEMMA TryStep ==
    ASSUME BpInv, NEW spec \in SpecFiles, NEW event \in UserEvents, TrySpec(spec, event)
    PROVE  BpInv'
<1>1. /\ spec # <<>>
      /\ previewed' = [spec |-> spec, event |-> event, matches |-> blueprintMatches(spec, event),
                       result |-> translateSpec(spec, event)]
      /\ UNCHANGED <<storedAbis, customAbisOf, shownAbiEvent, uploads, lastKept, lastDone>>
  BY DEF TrySpec, validateBlueprintSpec
<1>2. PreviewSound'
  BY <1>1 DEF PreviewSound
<1>3. UNCHANGED <<storedAbis, customAbisOf, shownAbiEvent, uploads, lastKept, lastDone>>
  BY <1>1
<1>4. OwnWorkIsUsed /\ ShownFromTheEvent
  BY DEF BpInv
<1>5. OwnWorkIsUsed'
  BY ONLY <1>3, <1>4 DEF OwnWorkIsUsed
<1>6. ShownFromTheEvent'
  BY ONLY <1>3, <1>4 DEF ShownFromTheEvent
<1> QED BY <1>2, <1>3, <1>5, <1>6 DEF BpInv

\* At first.
LEMMA BpInitial == BlueprintsInit => BpInv
<1> SUFFICES ASSUME BlueprintsInit PROVE BpInv
  OBVIOUS
<1>1. AbiList(<<>>)
  BY DEF AbiList, IsList, OnePerContract, Numbered
<1>2. \A c : heldFor(<<>>, c) = {}
  BY DEF heldFor
<1>3. /\ storedAbis = <<>> /\ customAbisOf = [t \in Tabs |-> <<>>] /\ lastKept = [c \in ContractIds |-> <<>>]
      /\ lastDone = [t \in Tabs |-> [c \in ContractIds |-> NotDone]] /\ shownAbiEvent = <<>> /\ previewed = <<>>
  BY DEF BlueprintsInit
<1>4. OwnWorkIsUsed
  BY <1>3 DEF OwnWorkIsUsed, NotDone
<1>5. ShownFromTheEvent /\ PreviewSound
  BY <1>3 DEF ShownFromTheEvent, PreviewSound
<1>6. /\ lastKept = [c \in ContractIds |-> lastKept[c]] /\ customAbisOf = [t \in Tabs |-> customAbisOf[t]]
      /\ lastDone = [t \in Tabs |-> [c \in ContractIds |-> lastDone[t][c]]]
  BY <1>3
<1>7. \A c \in ContractIds : heldFor(storedAbis, c) = {lastKept[c]} \ {<<>>}
  BY <1>2, <1>3
<1> QED BY <1>1, <1>3, <1>4, <1>5, <1>6, <1>7 DEF BpInv

\* Every step of the tabs keeps the invariant.
LEMMA BpStep == BpInv /\ [BlueprintsNext]_blueprintvars => BpInv'
<1> SUFFICES ASSUME BpInv, [BlueprintsNext]_blueprintvars PROVE BpInv'
  OBVIOUS
<1>1. ASSUME NEW t \in Tabs, loadCustomAbis(t) PROVE BpInv'
  BY <1>1, LoadStep
<1>2. ASSUME NEW t \in Tabs, NEW isWritten \in BOOLEAN, NEW file \in AbiFiles, UploadAbi(t, file, isWritten) PROVE BpInv'
  BY <1>2, UploadStep
<1>3. ASSUME NEW t \in Tabs, NEW isWritten \in BOOLEAN, NEW c \in ContractIds, RemoveAbi(t, c, isWritten) PROVE BpInv'
  BY <1>3, RemoveAbiStep
<1>4. ASSUME NEW t \in Tabs, NEW event \in UserEvents, ShowEvent(t, event) PROVE BpInv'
  BY <1>4, ShowStep
<1>5. ASSUME NEW spec \in SpecFiles, NEW event \in UserEvents, TrySpec(spec, event) PROVE BpInv'
  BY <1>5, TryStep
<1>6. CASE UNCHANGED blueprintvars
  BY <1>6 DEF blueprintvars, BpInv, OwnWorkIsUsed, ShownFromTheEvent, PreviewSound
<1> QED BY <1>1, <1>2, <1>3, <1>4, <1>5, <1>6 DEF BlueprintsNext

\* What translate() says of a specification that matches.
LEMMA TranslationHolds ==
    ASSUME NEW spec \in SpecFiles, spec # <<>>, NEW event
    PROVE  /\ blueprintMatches(spec, event) <=> translateSpec(spec, event) # <<>>
           /\ translateSpec(spec, event) # <<>> =>
                 \E n \in DOMAIN spec :
                    /\ spec[n].name = translateSpec(spec, event)[1].name
                    /\ \A k \in DOMAIN translateSpec(spec, event)[1].description :
                          LET said == translateSpec(spec, event)[1].description[k]
                          IN  \/ /\ said = spec[n].template[k]
                                 /\ \A f \in DOMAIN spec[n].fields : spec[n].fields[f].name # said
                              \/ said \in Range(event.topics) \cup {event.data, "unknown"}
<1>1. Len(spec) \in Nat \ {0} /\ DOMAIN spec = 1 .. Len(spec)
  BY BlueprintsAssumption, ListFacts DEF IsList
<1>2. PICK matching, result : matching = {n \in DOMAIN spec : matchesEvent(event, spec[n])} /\ result = translateSpec(spec, event)
  OBVIOUS
<1> DEFINE First == CHOOSE m \in matching : \A k \in matching : m <= k
<1>3. matching # {} => First \in matching
  <2>1. matching \in SUBSET Nat
    BY <1>1, <1>2
  <2>2. matching # {} => \E m \in matching : \A k \in matching : m <= k
    BY <2>1, LeastOf
  <2> QED BY <2>2
<1>4. PICK first, params : first = First /\ params = paramsOf(event, spec[first].fields)
  OBVIOUS
<1>5. PICK description : description = [k \in DOMAIN spec[first].template |->
              IF spec[first].template[k] \in DOMAIN params THEN params[spec[first].template[k]] ELSE spec[first].template[k]]
  OBVIOUS
<1>6. result = IF matching = {} THEN <<>> ELSE <<[name |-> spec[first].name, description |-> description]>>
  BY <1>2, <1>4, <1>5 DEF translateSpec
<1>7. matching # {} => first \in matching
  BY <1>3, <1>4
<1> HIDE DEF First
<1>8. result # <<>> <=> matching # {}
  <2>1. <<[name |-> spec[first].name, description |-> description]>> # <<>>
    OBVIOUS
  <2> QED BY <1>6, <2>1
<1>9. blueprintMatches(spec, event) <=> matching # {}
  <2>1. CASE \E n \in DOMAIN spec : spec[n].topics # <<>>
    BY <1>2, <2>1 DEF blueprintMatches
  <2>2. CASE ~(\E n \in DOMAIN spec : spec[n].topics # <<>>)
    <3>1. 1 \in DOMAIN spec
      BY <1>1
    <3>2. spec[1].topics = <<>>
      BY <2>2, <3>1
    <3>3. matchesEvent(event, spec[1])
      BY <3>2 DEF matchesEvent
    <3> QED BY <1>2, <2>2, <3>1, <3>3 DEF blueprintMatches
  <2> QED BY <2>1, <2>2
<1>10. ASSUME matching # {}
       PROVE  /\ first \in DOMAIN spec /\ spec[first].name = result[1].name
              /\ \A k \in DOMAIN result[1].description :
                    \/ /\ result[1].description[k] = spec[first].template[k]
                       /\ \A f \in DOMAIN spec[first].fields : spec[first].fields[f].name # result[1].description[k]
                    \/ result[1].description[k] \in Range(event.topics) \cup {event.data, "unknown"}
  <2>1. first \in DOMAIN spec
    BY <1>2, <1>7, <1>10
  <2>2. result[1].name = spec[first].name /\ result[1].description = description
    BY <1>6, <1>10
  <2>3. PICK fields, template : fields = spec[first].fields /\ template = spec[first].template
    OBVIOUS
  <2>4. params = paramsOf(event, fields)
    BY <1>4, <2>3
  <2>5. DOMAIN params = {fields[k].name : k \in DOMAIN fields}
    BY <2>4 DEF paramsOf
  <2>6. ASSUME NEW name \in DOMAIN params PROVE params[name] \in Range(event.topics) \cup {event.data, "unknown"}
    <3>1. \E f : params[name] = IF f.source = "topic" /\ f.index # 0
                                THEN (IF f.index \in DOMAIN event.topics THEN event.topics[f.index] ELSE "unknown")
                                ELSE event.data
      BY <2>4, <2>5, <2>6 DEF paramsOf
    <3> QED BY <3>1 DEF Range
  <2>7. ASSUME NEW k \in DOMAIN description
        PROVE  \/ description[k] = template[k] /\ \A f \in DOMAIN fields : fields[f].name # description[k]
               \/ description[k] \in Range(event.topics) \cup {event.data, "unknown"}
    <3>1. description[k] = IF template[k] \in DOMAIN params THEN params[template[k]] ELSE template[k]
      BY <1>5, <2>3, <2>7
    <3>2. CASE template[k] \in DOMAIN params
      BY <2>6, <3>1, <3>2
    <3>3. CASE template[k] \notin DOMAIN params
      BY <2>5, <3>1, <3>3
    <3> QED BY <3>2, <3>3
  <2> QED BY <2>1, <2>2, <2>3, <2>7
<1> QED BY <1>2, <1>8, <1>9, <1>10

\* The properties follow from the invariant.
LEMMA BpFacts == BpInv => BlueprintsSafety
<1> SUFFICES ASSUME BpInv PROVE BlueprintsSafety
  OBVIOUS
<1>1. StoredIsLastKept
  BY DEF BpInv, StoredIsLastKept, AbiList, OnePerContract
<1>2. SpecsDescribeWhatTheyMatch
  <2> SUFFICES ASSUME previewed # <<>> PROVE SpecsDescribeWhatTheyMatch
    BY DEF SpecsDescribeWhatTheyMatch
  <2>1. PICK spec \in SpecFiles, event \in UserEvents :
           /\ spec # <<>>
           /\ previewed = [spec |-> spec, event |-> event, matches |-> blueprintMatches(spec, event),
                           result |-> translateSpec(spec, event)]
    BY DEF BpInv, PreviewSound
  <2>2. PICK result : result = translateSpec(spec, event)
    OBVIOUS
  <2>3. /\ previewed.spec = spec /\ previewed.event = event /\ previewed.result = result
        /\ previewed.matches = blueprintMatches(spec, event)
    BY <2>1, <2>2
  <2>4. /\ blueprintMatches(spec, event) <=> result # <<>>
        /\ result # <<>> =>
              \E n \in DOMAIN spec :
                 /\ spec[n].name = result[1].name
                 /\ \A k \in DOMAIN result[1].description :
                       \/ /\ result[1].description[k] = spec[n].template[k]
                          /\ \A f \in DOMAIN spec[n].fields : spec[n].fields[f].name # result[1].description[k]
                       \/ result[1].description[k] \in Range(event.topics) \cup {event.data, "unknown"}
    BY <2>1, <2>2, TranslationHolds
  <2>5. previewed.matches <=> previewed.result # <<>>
    BY <2>3, <2>4
  <2>6. ASSUME result # <<>>
        PROVE  \E n \in {m \in DOMAIN spec : spec[m].name = result[1].name} : \A k \in DOMAIN result[1].description :
                    \/ result[1].description[k] = spec[n].template[k]
                       /\ \A f \in DOMAIN spec[n].fields : spec[n].fields[f].name # result[1].description[k]
                    \/ result[1].description[k] \in Range(event.topics) \cup {event.data, "unknown"}
    BY <2>4, <2>6
  <2> QED BY <2>3, <2>5, <2>6 DEF SpecsDescribeWhatTheyMatch
<1> QED BY <1>1, <1>2 DEF BlueprintsSafety, BpInv

\* In every state localStorage holds what was last written for each contract, a tab uses what it
\* uploaded last, and a specification describes the events it matches and no other.
THEOREM BlueprintsCorrect == BlueprintsSpec => []BlueprintsSafety
<1>1. BlueprintsInit => BpInv
  BY BpInitial
<1>2. BpInv /\ [BlueprintsNext]_blueprintvars => BpInv'
  BY BpStep
<1>3. BpInv => BlueprintsSafety
  BY BpFacts
<1> QED BY <1>1, <1>2, <1>3, PTL DEF BlueprintsSpec
-----------------------------------------------------------------------------
(* The parts together.                                                   *)

\* What the API's stores and the browser's hold is what was written, once.
THEOREM StoresCorrect == GraphQLSpec /\ ColumnSpec /\ BlueprintsSpec /\ IpfsSpec => []StoresSafety
BY GraphQLCorrect, ColumnsCorrect, BlueprintsCorrect, IpfsCorrect, PTL DEF StoresSafety

=============================================================================
