------------------------------ MODULE Ingestion ------------------------------
(***************************************************************************)
(* Reading a file into a table: which rows of a CSV or XLSX file are       *)
(* accepted, which are rejected and why, and when the file is refused as a *)
(* whole.  parse_file is a function of the file; the state is one file and *)
(* its result.  Policies are those of ingestion.yaml.                      *)
(*                                                                         *)
(* A cell is a number: Empty, White (only white space) or a text.  A line  *)
(* has its cells, the delimiters that separate them, and quote, the quote  *)
(* that its last cell holds: "opens" when the cell begins with it, "stray" *)
(* when it is inside.  Two quotes in one line cancel out and are not told. *)
(* A worksheet is the same without delimiters and quotes.                  *)
(*                                                                         *)
(* An operator commented "Broken variant" is a plausible bug of the one    *)
(* that follows it; no specification uses it.                              *)
(***************************************************************************)
EXTENDS Naturals, FiniteSetsExt, SequencesExt, Sorting

CONSTANTS
  Files,       \* the files that are explored
  MaxRows,     \* limits.max_row_count
  MaxColumns   \* limits.max_column_count

LimitAssumption == MaxRows \in Nat \ {0} /\ MaxColumns \in Nat \ {0}

VARIABLES source, parsed

vars == <<source, parsed>>

Empty == 0
White == 1

\* A cell that swallowed a delimiter or a line; the first header behind a byte-order mark.
Merged == 90
Marked(header) == 100 + header

Stripped(cell) == IF cell = White THEN Empty ELSE cell

BlankRow(cells) == \A i \in DOMAIN cells : Stripped(cells[i]) = Empty

Refused(code) == [outcome |-> "refused", code |-> code]

NotParsed == [outcome |-> "not parsed"]

-----------------------------------------------------------------------------
(* The lines of a CSV file *)

Delimiters == {",", ";"}

\* Two cells of a line are two because a delimiter is between them.
FileAssumption ==
  \A file \in Files :
    /\ file = [format |-> file.format, exists |-> file.exists, size |-> file.size,
               coding |-> file.coding, lines |-> file.lines]
    /\ file.lines \in Seq(Range(file.lines))
    /\ \A line \in Range(file.lines) :
         /\ line.cells \in Seq(Nat) /\ line.delimiters \subseteq Delimiters
         /\ Len(line.cells) > 1 => line.delimiters # {}

SampleLines == 5

\* Does the line fall into its cells by this delimiter?
SplitBy(line, d) == Len(line.cells) <= 1 \/ d \in line.delimiters

Split(line, d) == IF SplitBy(line, d) THEN line.cells ELSE <<Merged>>

\* A line of white space; one with delimiters is not.
BlankLine(line) == Len(line.cells) <= 1 /\ BlankRow(line.cells)

\* The number of times the sampled lines hold the delimiter, 0 unless all agree.
Evenness(sample, d) ==
  LET counts == {Len(Split(line, d)) - 1 : line \in sample}
  IN IF Cardinality(counts) = 1 THEN Max(counts) ELSE 0

\* The first lines that are not blank.
Sample(lines) ==
  LET nonblank == {i \in DOMAIN lines : ~ BlankLine(lines[i])}
  IN {lines[i] : i \in {j \in nonblank : Cardinality({k \in nonblank : k <= j}) <= SampleLines}}

\* detect_delimiter; with no delimiter at all it is a comma.
Detected(lines) ==
  LET even(d) == Evenness(Sample(lines), d)
      best == {d \in Delimiters : \A e \in Delimiters : even(e) <= even(d)}
  IN IF \A d \in Delimiters : even(d) = 0 THEN {","} ELSE best

Quoted(line) == line.quote # "none"

\* One line of csv.reader: inside a quoted cell a line only adds to it, until a quote.
ReadLine(state, line, d) ==
  CASE state.open # <<>> /\ ~ Quoted(line) -> state
    [] state.open # <<>> /\ Quoted(line)   -> [done |-> Append(state.done, state.open), open |-> <<>>]
    [] state.open = <<>> /\ line.quote = "opens" /\ SplitBy(line, d) ->
         [state EXCEPT !.open = Front(line.cells) \o <<Merged>>]
    [] OTHER -> [state EXCEPT !.done = Append(@, Split(line, d))]

\* csv.reader: a cell that is still open at the end makes one last row.
CsvRows(lines, d) ==
  LET read == FoldLeft(LAMBDA st, line : ReadLine(st, line, d), [done |-> <<>>, open |-> <<>>], lines)
  IN IF read.open = <<>> THEN read.done ELSE Append(read.done, read.open)

\* _has_unclosed_quote_at_eof counts every quote, a stray one too.
UnclosedAtEof(lines) == Cardinality({i \in DOMAIN lines : Quoted(lines[i])}) % 2 = 1

-----------------------------------------------------------------------------
(* Headers *)

Duplicated(headers) == \E i, j \in DOMAIN headers : i # j /\ headers[i] = headers[j]

\* "" when the headers can be used.
HeaderFault(headers) ==
  IF headers = <<>> THEN "missing_header"
  ELSE IF Empty \in Range(headers) THEN "blank_header_cell"
  ELSE IF Duplicated(headers) THEN "duplicate_header"
  ELSE IF Len(headers) > MaxColumns THEN "column_limit_exceeded"
  ELSE ""

\* utf-8 is tried before utf-8-sig: a byte-order mark stays in the first name.
CsvHeaders(first, coding) ==
  [i \in DOMAIN first |-> IF i = 1 /\ coding = "marked" THEN Marked(Stripped(first[1])) ELSE Stripped(first[i])]

\* Empty headers at the end are no columns.
XlsxHeaders(first) ==
  LET names == [i \in DOMAIN first |-> Stripped(first[i])]
  IN SubSeq(names, 1, Max({0} \cup {i \in DOMAIN names : names[i] # Empty}))

-----------------------------------------------------------------------------
(* Rows *)

Accept(row, values) == [row |-> row, verdict |-> "accepted", values |-> values]
Reject(row, reason) == [row |-> row, verdict |-> reason, values |-> <<>>]

\* Broken variant: a short row is filled up, as in a worksheet.
JudgeCsvRowPadding(row, cells, width, last, unclosed) ==
  IF unclosed /\ row = last THEN Reject(row, "unclosed_quote")
  ELSE IF BlankRow(cells) THEN Reject(row, "entirely_blank_row")
  ELSE Accept(row, [i \in 1..width |-> IF i > Len(cells) THEN Empty ELSE cells[i]])

\* White space in a CSV cell is kept; the row in which the file ends is not trusted
\* when a quote is open.
JudgeCsvRow(row, cells, width, last, unclosed) ==
  IF unclosed /\ row = last THEN Reject(row, "unclosed_quote")
  ELSE IF BlankRow(cells) THEN Reject(row, "entirely_blank_row")
  ELSE IF Len(cells) # width THEN Reject(row, "inconsistent_column_count")
  ELSE Accept(row, cells)

\* A short row of a worksheet is filled up, a long one rejected before it is found blank.
JudgeXlsxRow(row, cells, width) ==
  IF Len(cells) > width THEN Reject(row, "inconsistent_column_count")
  ELSE IF BlankRow(cells) THEN Reject(row, "entirely_blank_row")
  ELSE Accept(row, [i \in 1..width |-> IF i > Len(cells) THEN Empty ELSE Stripped(cells[i])])

InRowOrder(judged) == SortedBy(judged, LAMBDA j, k : j.row < k.row)

Accepted(judged) == InRowOrder({j \in Range(judged) : j.verdict = "accepted"})
Rejected(judged) == InRowOrder({j \in Range(judged) : j.verdict # "accepted"})

\* Broken variant: a row that is rejected leaves no trace.
TableDropping(headers, judged) ==
  [outcome |-> "parsed", headers |-> headers, rows |-> Accepted(judged), rejected |-> <<>>]

Table(headers, judged) ==
  [outcome |-> "parsed", headers |-> headers, rows |-> Accepted(judged), rejected |-> Rejected(judged)]

-----------------------------------------------------------------------------
(* parse_file *)

\* parse_csv_file: the limit counts every data row.
ParseCsv(file) ==
  LET lines == file.lines
      found == Detected(lines)
      d     == CHOOSE x \in found : TRUE
      rows  == CsvRows(lines, d)
      headers == CsvHeaders(rows[1], file.coding)
      last  == Len(rows)
      fault == HeaderFault(headers)
  IN IF \A i \in DOMAIN lines : BlankLine(lines[i]) THEN Table(<<>>, <<>>)
     ELSE IF Cardinality(found) > 1 THEN Refused("delimiter_detection_error")
     ELSE IF fault # "" THEN Refused(fault)
     ELSE IF last - 1 > MaxRows THEN Refused("row_limit_exceeded")
     ELSE Table(headers, [n \in 1..(last - 1) |->
                            JudgeCsvRow(n + 1, rows[n + 1], Len(headers), last, UnclosedAtEof(lines))])

\* Broken variant: rows are numbered as they are accepted.
ParseXlsxRenumbered(file) ==
  LET rows == [i \in DOMAIN file.lines |-> file.lines[i].cells]
      headers == XlsxHeaders(rows[1])
      kept == SelectSeq(Tail(rows), LAMBDA cells : ~ BlankRow(cells))
      judged == [n \in DOMAIN kept |-> JudgeXlsxRow(n + 1, kept[n], Len(headers))]
      fault == HeaderFault(headers)
  IN IF rows = <<>> THEN Refused("empty_file")
     ELSE IF fault # "" THEN Refused(fault)
     ELSE IF Len(Accepted(judged)) > MaxRows THEN Refused("row_limit_exceeded")
     ELSE Table(headers, judged)

\* parse_xlsx_file: the limit counts the rows that are accepted.
ParseXlsx(file) ==
  LET rows == [i \in DOMAIN file.lines |-> file.lines[i].cells]
      headers == XlsxHeaders(rows[1])
      judged == [n \in 1..(Len(rows) - 1) |-> JudgeXlsxRow(n + 1, rows[n + 1], Len(headers))]
      fault == HeaderFault(headers)
  IN IF rows = <<>> THEN Refused("empty_file")
     ELSE IF fault # "" THEN Refused(fault)
     ELSE IF Len(Accepted(judged)) > MaxRows THEN Refused("row_limit_exceeded")
     ELSE Table(headers, judged)

ParseFile(file) ==
  IF ~ file.exists THEN Refused("file_not_found")
  ELSE IF file.format \notin {"csv", "xlsx"} THEN Refused("unsupported_file_type")
  ELSE IF file.size = "empty" THEN Refused("empty_file")
  ELSE IF file.size = "large" THEN Refused("file_too_large")
  ELSE IF file.format = "csv" THEN ParseCsv(file)
  ELSE ParseXlsx(file)

Init == source \in Files /\ parsed = NotParsed

Parse ==
  /\ parsed = NotParsed
  /\ parsed' = ParseFile(source)
  /\ UNCHANGED source

Next == Parse

Spec == Init /\ [][Next]_vars

-----------------------------------------------------------------------------
(* Properties *)

Done == parsed.outcome = "parsed"

TypeOK ==
  /\ parsed.outcome \in {"not parsed", "refused", "parsed"}
  /\ Done => \A j \in Range(parsed.rows) : Len(j.values) = Len(parsed.headers)

\* A line of the file is the header, is in a row that was accepted or rejected, or is
\* swallowed by a quoted cell of one; only an open quote in the header itself takes the
\* rows with it (RowAccounting, parse_csv_file).
EveryRowIsAccountedFor ==
  Done =>
    LET numbers == [i \in DOMAIN parsed.rows |-> parsed.rows[i].row] \o
                   [i \in DOMAIN parsed.rejected |-> parsed.rejected[i].row]
        quoted == \E i \in DOMAIN source.lines : Quoted(source.lines[i])
    IN /\ IsInjective(numbers)
       /\ Range(numbers) = 2..(Len(numbers) + 1)
       /\ parsed.headers # <<>> /\ ~ (source.format = "csv" /\ quoted)
            => Len(numbers) = Len(source.lines) - 1
       /\ source.format = "csv" /\ UnclosedAtEof(source.lines) /\ numbers # <<>>
            => \E j \in Range(parsed.rejected) : j.verdict = "unclosed_quote"

\* No value moves to another column: an accepted row is one line of the file cell by
\* cell, or begins as one and swallowed the rest in its last cell.  But for a file of
\* commas, the lines that the delimiter is detected from must agree: with a row of
\* another width among them a file of semicolons is read as a single column.
ValuesStayInTheirColumn ==
  Done /\ source.format = "csv" =>
    LET agree == \A k, l \in Sample(source.lines) :
                   Len(k.cells) = Len(l.cells) /\ k.delimiters = l.delimiters
        commas == \A line \in Range(source.lines) : line.delimiters \subseteq {","}
    IN agree \/ commas
         => \A j \in Range(parsed.rows) :
              \E line \in Range(source.lines) :
                IF Merged \in Range(j.values) THEN Front(j.values) = Front(line.cells)
                ELSE j.values = line.cells

\* A table of even rows without quotes means the same as a CSV file and as a
\* worksheet, but for white space, which only the worksheet loses.
FormatsAgree ==
  LET csv == ParseFile([source EXCEPT !.format = "csv"])
      xlsx == ParseFile([source EXCEPT !.format = "xlsx"])
      width == Len(source.lines[1].cells)
      stripped(rows) == [i \in DOMAIN rows |-> [rows[i] EXCEPT !.values =
                           [c \in DOMAIN @ |-> Stripped(@[c])]]]
  IN /\ Done /\ source.lines # <<>>
     /\ csv.outcome = "parsed" /\ source.coding = "plain"
     /\ \A line \in Range(source.lines) : /\ Len(line.cells) = width /\ ~ Quoted(line)
                                      /\ line.delimiters = source.lines[1].delimiters
     /\ csv.headers # <<>>
     => /\ xlsx.outcome = "parsed"
        /\ xlsx.headers = csv.headers
        /\ xlsx.rows = stripped(csv.rows)
        /\ xlsx.rejected = csv.rejected
=============================================================================
