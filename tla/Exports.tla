------------------------------ MODULE Exports ------------------------------
(***************************************************************************)
(* Taking events out of the dashboard: the dialog                          *)
(* components/dashboard/ExportDataDialog.tsx, which writes a short list    *)
(* itself (lib/export-data.ts) and has a long one streamed by the route    *)
(* api/v1/events/export.                                                   *)
(*                                                                         *)
(* Of an event's columns the ledger stands for those that never need       *)
(* quotes.  Texts are sequences of characters; a piece of JSON is a row or *)
(* the punctuation between rows.                                           *)
(***************************************************************************)
EXTENDS Naturals, Sequences, FiniteSets, SequencesExt

CONSTANTS
    Catalogue,        \* the events of the route: [ledger, contract, type, topic, translated, text],
                      \* type, topic and text being empty or holding one text
    ExportRequests,   \* requests of other clients: [format, limit, contract, start, end]
    STREAM_THRESHOLD,
    ExportChunk,      \* rows of a chunk (CHUNK_SIZE of the route)
    DEFAULT_LIMIT, MAX_LIMIT,
    MockRows,         \* events for a contract that has none
    MaxExports        \* bound: exports and requests

ASSUME ExportAssumption ==
    /\ {STREAM_THRESHOLD, DEFAULT_LIMIT, MAX_LIMIT, MockRows, MaxExports} \subseteq Nat
    /\ ExportChunk \in Nat \ {0} /\ DEFAULT_LIMIT <= MAX_LIMIT

VARIABLES
    stream,       \* the response under way: [state, query, rows, offset, started]
    sent,         \* what it enqueued so far
    exportDialog, \* [open, format, isExporting, timer]
    listed,       \* the events the dashboard shows: the first of the catalogue
    download,     \* the last file written in the browser: [format, events, content]
    exports

exportvars == <<stream, sent, exportDialog, listed, download, exports>>

Formats == {"csv", "json", "ndjson"}
NoQuery == [format |-> "csv", limit |-> 0, contract |-> <<>>, start |-> 0, end |-> 0]
DialogAtStart == [open |-> FALSE, format |-> "csv", isExporting |-> FALSE, timer |-> FALSE]

ExportInit ==
    /\ stream = [state |-> "none", query |-> NoQuery, rows |-> <<>>, offset |-> 0, started |-> FALSE]
    /\ sent = <<>> /\ exportDialog = DialogAtStart /\ listed = <<>>
    /\ download = [format |-> "none", events |-> <<>>, content |-> <<>>] /\ exports = 0

-----------------------------------------------------------------------------
(* Rows and lines.                                                       *)

CommaChar == ","
QuoteChar == "quote"
NoName == <<"unknown">>
NoTranslation == <<"no translation">>
Or(option, default) == IF option # <<>> THEN option[1] ELSE default

\* toRow() of the route and toExportRow() of the page: the name decoded from the first topic
\* stands for a type that is missing, and only a translated event has its description.
toRow(e) ==
    [ledger |-> ToString(e.ledger), contract |-> e.contract,
     name |-> Or(e.type, Or(e.topic, NoName)),
     text |-> IF e.translated THEN Or(e.text, NoTranslation) ELSE NoTranslation]

\* The NDJSON of the page: no topic is decoded and every description is kept.
pageRow(e) ==
    [ledger |-> ToString(e.ledger), contract |-> e.contract,
     name |-> Or(e.type, NoName), text |-> Or(e.text, NoTranslation)]

\* Regression: a quote inside a value stays single.
escapeCSVOnce(v) ==
    IF Range(v) \cap {CommaChar, QuoteChar, "CR", "LF"} = {} THEN v
    ELSE <<QuoteChar>> \o v \o <<QuoteChar>>

\* A value with a separator or a quote in it is quoted, its quotes doubled.
escapeCSV(v) ==
    IF Range(v) \cap {CommaChar, QuoteChar, "CR", "LF"} = {} THEN v
    ELSE <<QuoteChar>>
         \o FlattenSeq([n \in DOMAIN v |-> IF v[n] = QuoteChar THEN <<QuoteChar, QuoteChar>> ELSE <<v[n]>>])
         \o <<QuoteChar>>

CsvLine(row) ==
    <<row.ledger, CommaChar>> \o escapeCSV(row.contract) \o <<CommaChar>>
        \o escapeCSV(row.name) \o <<CommaChar>> \o escapeCSV(row.text)
CRLF == <<"CR", "LF">>
CSV_HEADER == <<"h1", CommaChar, "h2", CommaChar, "h3", CommaChar, "h4">>
Json(row) == <<"row", row>>
Mark(c) == <<c>>

-----------------------------------------------------------------------------
(* The route.                                                            *)

limitOf(p) == IF p < 1 THEN DEFAULT_LIMIT ELSE IF p < MAX_LIMIT THEN p ELSE MAX_LIMIT

\* getMockEventsForContract(): a contract without events gets the first there are.
EventsOf(contract) ==
    LET own == SelectSeq(Catalogue, LAMBDA e : e.contract = contract)
    IN  IF contract = <<>> THEN Catalogue
        ELSE IF own # <<>> THEN own
        ELSE SubSeq(Catalogue, 1, IF Len(Catalogue) < MockRows THEN Len(Catalogue) ELSE MockRows)

\* GET: 400 for another format; the stream starts with its rows chosen.
GET(q) ==
    LET found == SelectSeq(EventsOf(q.contract), LAMBDA e : /\ q.start > 0 => e.ledger >= q.start
                                                            /\ q.end > 0 => e.ledger <= q.end)
        total == IF Len(found) < limitOf(q.limit) THEN Len(found) ELSE limitOf(q.limit)
    IN  /\ exports < MaxExports /\ exports' = exports + 1
        /\ stream' = [state |-> IF q.format \in Formats THEN "open" ELSE "refused", query |-> q,
                      rows |-> SubSeq(found, 1, total), offset |-> 0, started |-> FALSE]
        /\ sent' = <<>>

RequestExport(q) == stream.state # "open" /\ GET(q) /\ UNCHANGED <<exportDialog, listed, download>>

Opener == CASE stream.started \/ stream.query.format = "ndjson" -> <<>>
            [] stream.query.format = "csv" -> CSV_HEADER \o CRLF
            [] OTHER -> <<Mark("[")>>

\* Regression: a row is the last one if it is the last of its chunk.
PieceOfChunk(i, end) ==
    LET row == toRow(stream.rows[i])
    IN  CASE stream.query.format = "csv" -> CsvLine(row) \o CRLF
          [] stream.query.format = "ndjson" -> <<Json(row), Mark("LF")>>
          [] OTHER -> IF i = end THEN <<Json(row)>> ELSE <<Json(row), Mark(",")>>

\* What row i of a chunk that ends at end becomes.
Piece(i, end) ==
    LET row == toRow(stream.rows[i])
    IN  CASE stream.query.format = "csv" -> CsvLine(row) \o CRLF
          [] stream.query.format = "ndjson" -> <<Json(row), Mark("LF")>>
          [] OTHER -> IF i = Len(stream.rows) THEN <<Json(row)>> ELSE <<Json(row), Mark(",")>>

\* pull(): the opener once, then a chunk, or the closer when there is none left.
Pull ==
    LET total == Len(stream.rows)
        end == IF stream.offset + ExportChunk < total THEN stream.offset + ExportChunk ELSE total
    IN  /\ stream.state = "open"
        /\ IF stream.offset >= total
           THEN /\ sent' = sent \o Opener \o IF stream.query.format = "json" THEN <<Mark("]")>> ELSE <<>>
                /\ stream' = [stream EXCEPT !.state = "closed", !.started = TRUE]
           ELSE /\ sent' = sent \o Opener
                             \o FlattenSeq([k \in 1 .. end - stream.offset |-> Piece(stream.offset + k, end)])
                /\ stream' = [stream EXCEPT !.offset = end, !.started = TRUE]
        /\ UNCHANGED <<exportDialog, listed, download, exports>>

\* The client goes away.
CancelStream ==
    /\ stream.state = "open" /\ stream' = [stream EXCEPT !.state = "cancelled"]
    /\ UNCHANGED <<sent, exportDialog, listed, download, exports>>

-----------------------------------------------------------------------------
(* The dialog.                                                           *)

\* A page arrives, or a live event.
ListEvents(n) ==
    /\ Len(listed) # n /\ listed' = SubSeq(Catalogue, 1, n)
    /\ UNCHANGED <<stream, sent, exportDialog, download, exports>>

OpenExport ==
    /\ ~exportDialog.open /\ exportDialog' = [exportDialog EXCEPT !.open = TRUE]
    /\ UNCHANGED <<stream, sent, listed, download, exports>>

\* onOpenChange(false), by the button or the key: an export goes on.
CloseExport ==
    /\ exportDialog.open /\ exportDialog' = [exportDialog EXCEPT !.open = FALSE]
    /\ UNCHANGED <<stream, sent, listed, download, exports>>

SelectFormat(f) ==
    /\ exportDialog.open /\ f # exportDialog.format
    /\ exportDialog' = [exportDialog EXCEPT !.format = f]
    /\ UNCHANGED <<stream, sent, listed, download, exports>>

\* eventsToCSV(), eventsToJSON() and the NDJSON of handleExport(): no line ends the last row.
FileContent(format, events) ==
    CASE format = "csv" -> CSV_HEADER \o FlattenSeq([n \in DOMAIN events |-> CRLF \o CsvLine(toRow(events[n]))])
      [] format = "json" -> <<Mark("[")>> \o FlattenSeq([n \in DOMAIN events |->
             IF n = Len(events) THEN <<Json(toRow(events[n]))>> ELSE <<Json(toRow(events[n])), Mark(",")>>]) \o <<Mark("]")>>
      [] OTHER -> FlattenSeq([n \in DOMAIN events |->
             IF n = 1 THEN <<Json(pageRow(events[n]))>> ELSE <<Mark("LF"), Json(pageRow(events[n]))>>])

\* handleExport(): a long list is asked of the route, whole; a short one is written here.
\* The dialog closes by a timer.
handleExport ==
    /\ exportDialog.open /\ ~exportDialog.isExporting /\ listed # <<>>
    /\ exportDialog' = [exportDialog EXCEPT !.isExporting = TRUE, !.timer = TRUE]
    /\ IF Len(listed) >= STREAM_THRESHOLD
       THEN /\ stream.state # "open"
            /\ GET([NoQuery EXCEPT !.format = exportDialog.format]) /\ UNCHANGED download
       ELSE /\ exports < MaxExports /\ exports' = exports + 1
            /\ download' = [format |-> exportDialog.format, events |-> listed,
                            content |-> FileContent(exportDialog.format, listed)]
            /\ UNCHANGED <<stream, sent>>
    /\ UNCHANGED listed

\* Regression: the timer of an export that was closed early is dropped.
CloseTimerForgets ==
    /\ exportDialog.timer
    /\ exportDialog' = IF exportDialog.open THEN [exportDialog EXCEPT !.isExporting = FALSE, !.open = FALSE, !.timer = FALSE]
                       ELSE [exportDialog EXCEPT !.timer = FALSE]
    /\ UNCHANGED <<stream, sent, listed, download, exports>>

\* The timer closes the dialog, even one that was opened again in the meantime.
CloseTimer ==
    /\ exportDialog.timer
    /\ exportDialog' = [exportDialog EXCEPT !.isExporting = FALSE, !.open = FALSE, !.timer = FALSE]
    /\ UNCHANGED <<stream, sent, listed, download, exports>>

\* Leaving the page clears the timer; the next visit starts anew.
LeavePage ==
    /\ exportDialog # DialogAtStart /\ exportDialog' = DialogAtStart
    /\ UNCHANGED <<stream, sent, listed, download, exports>>

ExportNext ==
    \/ \E q \in ExportRequests : RequestExport(q)
    \/ \E n \in 0 .. Len(Catalogue) : ListEvents(n)
    \/ \E f \in Formats : SelectFormat(f)
    \/ Pull \/ CancelStream \/ OpenExport \/ CloseExport \/ handleExport \/ CloseTimer \/ LeavePage

ExportSpec == ExportInit /\ [][ExportNext]_exportvars

-----------------------------------------------------------------------------
(* Properties.                                                           *)

\* What a reader of CSV takes from a text: the fields of each line, by the quotes.
CsvReadChar(s, c) ==
    IF s.quoted
    THEN IF c = QuoteChar THEN [s EXCEPT !.quoted = FALSE, !.closed = TRUE]
         ELSE [s EXCEPT !.field = Append(@, c)]
    ELSE CASE c = QuoteChar -> [s EXCEPT !.quoted = TRUE, !.closed = FALSE,
                                         !.field = IF s.closed THEN Append(@, c) ELSE @]
           [] c = CommaChar -> [s EXCEPT !.fields = Append(@, s.field), !.field = <<>>, !.closed = FALSE]
           [] c = "LF" -> [s EXCEPT !.lines = Append(@, Append(s.fields, s.field)), !.fields = <<>>, !.field = <<>>,
                                    !.closed = FALSE]
           [] c = "CR" -> s
           [] OTHER -> [s EXCEPT !.field = Append(@, c)]
CsvRead(text) ==
    FoldLeft(CsvReadChar, [quoted |-> FALSE, closed |-> FALSE, field |-> <<>>, fields |-> <<>>, lines |-> <<>>], text).lines
CsvHeader == << <<"h1">>, <<"h2">>, <<"h3">>, <<"h4">> >>
CsvFields(row) == << <<row.ledger>>, row.contract, row.name, row.text >>
Reads(text, rows) == CsvRead(text) = <<CsvHeader>> \o [n \in DOMAIN rows |-> CsvFields(rows[n])]

\* What a JSON array of rows looks like, and one row to a line.
JsonArray(rows) ==
    <<Mark("[")>> \o FlattenSeq([n \in DOMAIN rows |-> (IF n = 1 THEN <<>> ELSE <<Mark(",")>>) \o <<Json(rows[n])>>])
        \o <<Mark("]")>>

ExportRows(events) == [n \in DOMAIN events |-> toRow(events[n])]

\* However the client pulls, a stream that ends is a whole file of its format: it reads back
\* as the rows asked for, in their order, each once, up to the limit.
StreamIsWhole ==
    stream.state = "closed" =>
        LET q == stream.query
            wanted == {n \in DOMAIN EventsOf(q.contract) :
                          /\ q.start = 0 \/ EventsOf(q.contract)[n].ledger >= q.start
                          /\ q.end = 0 \/ EventsOf(q.contract)[n].ledger <= q.end}
            order == SetToSortSeq(wanted, LAMBDA a, b : a < b)
            rows == ExportRows([n \in 1 .. (IF Len(order) < limitOf(q.limit) THEN Len(order) ELSE limitOf(q.limit)) |->
                               EventsOf(q.contract)[order[n]]])
        IN  CASE q.format = "csv" -> Reads(sent, rows)
              [] q.format = "json" -> sent = JsonArray(rows)
              [] OTHER -> sent = FlattenSeq([n \in DOMAIN rows |-> <<Json(rows[n]), Mark("LF")>>])

\* A file written in the browser reads back as the rows of the events that were listed: the
\* same ones the route has for them, except that NDJSON names fewer events and has more texts.
FileReadsBack ==
    CASE download.format = "csv" -> Reads(download.content \o CRLF, ExportRows(download.events))
      [] download.format = "json" -> download.content = JsonArray(ExportRows(download.events))
      [] download.format = "ndjson" ->
            LET lines == SelectSeq(download.content, LAMBDA t : t # Mark("LF"))
            IN  /\ Len(lines) = Len(download.events)
                /\ \A n \in DOMAIN lines : LET e == download.events[n] IN
                      lines[n] # Json(toRow(e)) => (e.type = <<>> /\ e.topic # <<>>) \/ (~e.translated /\ e.text # <<>>)
      [] OTHER -> TRUE

\* The button comes back: an export is shown as running only while its timer is.
ExportEnds == exportDialog.isExporting => exportDialog.timer

ExportSafety == StreamIsWhole /\ FileReadsBack /\ ExportEnds
=============================================================================
