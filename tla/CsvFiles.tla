------------------------------- MODULE CsvFiles -------------------------------
(***************************************************************************)
(* Files of rows: the export of partners (application/partner-export.ts)   *)
(* and the reading of an upload (application/organization-import.ts,       *)
(* parseCsv).  Text is a sequence of characters; a spreadsheet, outside,   *)
(* writes the table that users fill in, and an upload may be cut short.    *)
(***************************************************************************)
EXTENDS Integers, Sequences, SequencesExt

CONSTANTS
  Header,     \* the first row: cells of letters
  FieldOf,    \* a cell of the header -> the field it names, or None
  Required,   \* the fields that a file must have
  Rows,       \* rows that a table may get: sequences of cells as long as the header
  MaxRows,    \* MAX_IMPORT_ROWS
  MaxTable, MaxText,  \* bounds
  Space, Letters,  \* characters
  None

Quote == "\""
Semicolon == ";"
Comma == ","
Return == "\r"
Newline == "\n"
Formulas == {"=", "+", "-", "@"}
Mark == "BOM"
Apostrophe == "'"

CsvAssumption ==
  /\ \A row \in Rows : Len(row) = Len(Header)
  /\ {MaxRows, MaxTable, MaxText} \subseteq Nat
  /\ Required \subseteq {FieldOf[cell] : cell \in DOMAIN FieldOf}

VARIABLES
  table,   \* rows of an organization's cells each
  file,    \* None or the text that was written: [kind, text, whole]
  read     \* None or what the upload was read as: [kind, rows], or [kind, error]

vars == <<table, file, read>>

Flatten(parts) == FoldLeft(LAMBDA text, part : text \o part, <<>>, parts)

\* The parts with the separator between each two.
Join(parts, separator) ==
  IF parts = <<>> THEN <<>>
  ELSE Head(parts) \o Flatten([i \in 1 .. Len(parts) - 1 |-> separator \o parts[i + 1]])

Map(Op(_), list) == [i \in DOMAIN list |-> Op(list[i])]

-------------------------------------------------------------------------------
(* buildPartnerCsv *)

\* What is blank before the first other character.
Indent(cell) ==
  LET ends == {i \in DOMAIN cell : cell[i] \notin {Space, Return, Newline}}
  IN  IF ends = {} THEN Len(cell) ELSE (CHOOSE i \in ends : \A j \in ends : i <= j) - 1

IsFormula(cell) ==
  /\ Indent(cell) < Len(cell)
  /\ cell[Indent(cell) + 1] \in Formulas

\* A cell that a spreadsheet would compute is told to be text.
Inert(cell) == IF IsFormula(cell) THEN <<Apostrophe>> \o cell ELSE cell

Quoted(cell) ==
  <<Quote>> \o Flatten([i \in DOMAIN cell |-> IF cell[i] = Quote THEN <<Quote, Quote>>
                                              ELSE <<cell[i]>>]) \o <<Quote>>

CsvCell(cell) == Quoted(Inert(cell))

BuildPartnerCsv(rows) ==
  LET line(row) == Join(Map(CsvCell, row), <<Semicolon>>)
  IN  <<Mark>> \o Join(Map(line, <<Header>> \o rows), <<Return, Newline>>) \o <<Return, Newline>>

-------------------------------------------------------------------------------
(* parseCsv *)

\* Counted within the first line, but not within quotes.
DetectDelimiter(text) ==
  LET newlines == {i \in DOMAIN text : text[i] = Newline}
      size == IF newlines = {} THEN Len(text)
              ELSE (CHOOSE i \in newlines : \A j \in newlines : i <= j) - 1
      count == FoldLeft(LAMBDA n, c :
                 CASE c = Quote -> [n EXCEPT !.quoted = ~@]
                   [] c = Comma /\ ~n.quoted -> [n EXCEPT !.commas = @ + 1]
                   [] c = Semicolon /\ ~n.quoted -> [n EXCEPT !.semicolons = @ + 1]
                   [] OTHER -> n,
                 [quoted |-> FALSE, commas |-> 0, semicolons |-> 0], SubSeq(text, 1, size))
  IN  IF count.semicolons > count.commas THEN Semicolon ELSE Comma

\* One character; the second of a pair was read with the first.
Step(text, delimiter, s, i) ==
  LET c == text[i]
      next == IF i < Len(text) THEN text[i + 1] ELSE None
      row == Append(s.row, s.cell)
  IN  CASE s.skip -> [s EXCEPT !.skip = FALSE]
        [] ~s.skip /\ c = Quote /\ s.quoted /\ next = Quote ->
             [s EXCEPT !.cell = Append(@, Quote), !.skip = TRUE]
        [] ~s.skip /\ c = Quote /\ ~(s.quoted /\ next = Quote) -> [s EXCEPT !.quoted = ~@]
        [] ~s.skip /\ c = delimiter /\ ~s.quoted -> [s EXCEPT !.row = row, !.cell = <<>>]
        [] ~s.skip /\ c \in {Newline, Return} /\ ~s.quoted ->
             [s EXCEPT !.rows = Append(@, row), !.row = <<>>, !.cell = <<>>,
                       !.skip = c = Return /\ next = Newline]
        [] OTHER -> [s EXCEPT !.cell = Append(@, c)]

\* None when a quote is left open.
ParseCsv(source) ==
  LET text == IF source # <<>> /\ Head(source) = Mark THEN Tail(source) ELSE source
      delimiter == DetectDelimiter(text)
      end == FoldLeft(LAMBDA s, i : Step(text, delimiter, s, i),
                      [rows |-> <<>>, row |-> <<>>, cell |-> <<>>, quoted |-> FALSE,
                       skip |-> FALSE], [i \in DOMAIN text |-> i])
  IN  CASE end.quoted -> None
        [] ~end.quoted /\ end.cell = <<>> /\ end.row = <<>> -> end.rows
        [] OTHER -> Append(end.rows, Append(end.row, end.cell))

Trim(cell) ==
  LET inner == {i \in DOMAIN cell : cell[i] \notin {Space, Return, Newline}}
  IN  IF inner = {} THEN <<>>
      ELSE SubSeq(cell, Indent(cell) + 1, CHOOSE i \in inner : \A j \in inner : i >= j)

\* normalizeHeader and isImportField
Fields(header) ==
  Map(LAMBDA cell : IF Trim(cell) \in DOMAIN FieldOf THEN FieldOf[Trim(cell)] ELSE None, header)

\* The cells of the fields; what a short row lacks is empty, and what is over is left out.
Values(fields, cells) ==
  [field \in ToSet(fields) \ {None} |->
     LET column == CHOOSE i \in DOMAIN fields : fields[i] = field
     IN  IF column \in DOMAIN cells THEN Trim(cells[column]) ELSE <<>>]

IsBlank(cells) == \A i \in DOMAIN cells : Trim(cells[i]) = <<>>

Error(code) == [rows |-> <<>>, error |-> code]

\* The rows that have something, each with its number in the file.
ParseOrganizationImportFile(text) ==
  LET matrix == ParseCsv(text)
      fields == Fields(matrix[1])
      known == SelectSeq(fields, LAMBDA field : field # None)
      filled == SelectSeq([i \in 1 .. Len(matrix) - 1 |-> i + 1],
                          LAMBDA i : ~IsBlank(matrix[i]))
  IN  CASE matrix = None -> Error("IMPORT_CSV_INVALID")
        [] matrix = <<>> -> Error("IMPORT_EMPTY")
        [] OTHER ->
           CASE ~IsInjective(known) -> Error("IMPORT_DUPLICATE_HEADER")
             [] IsInjective(known) /\ ~(Required \subseteq ToSet(known)) ->
                  Error("IMPORT_REQUIRED_COLUMNS_MISSING")
             [] OTHER ->
                CASE filled = <<>> -> Error("IMPORT_EMPTY")
                  [] Len(filled) > MaxRows -> Error("IMPORT_TOO_MANY_ROWS")
                  [] OTHER ->
                     [rows |-> [i \in DOMAIN filled |->
                                  [rowNo |-> filled[i],
                                   values |-> Values(fields, matrix[filled[i]])]],
                      error |-> None]

-------------------------------------------------------------------------------
TypeOK ==
  /\ table \in Seq(Rows)
  /\ file # None => /\ file.kind \in {"export", "sheet"} /\ file.whole \in BOOLEAN
                    /\ file.text \in Seq(STRING \cup Letters \cup {Space})
  /\ read # None => (read.rows = <<>>) <=> (read.error # None)

Init == table = <<>> /\ file = None /\ read = None

Fill(row) ==
  /\ file = None /\ Len(table) < MaxTable
  /\ table' = Append(table, row) /\ UNCHANGED <<file, read>>

Written(kind, text) == file' = [kind |-> kind, text |-> text, whole |-> TRUE]

\* createPartnerExport
CreatePartnerExport ==
  /\ file = None /\ Written("export", BuildPartnerCsv(table)) /\ UNCHANGED <<table, read>>

\* Outside: a spreadsheet quotes what it must.
Sheet(rows, delimiter, newline) ==
  LET cell(c) == IF ToSet(c) \cap {Quote, delimiter, Return, Newline} = {} THEN c ELSE Quoted(c)
      line(row) == Join(Map(cell, row), <<delimiter>>)
  IN  Join(Map(line, <<Header>> \o rows), newline) \o newline

Save(delimiter, newline) ==
  /\ file = None /\ Written("sheet", Sheet(table, delimiter, newline))
  /\ UNCHANGED <<table, read>>

\* Outside: the transfer ends early.
Cut(size) ==
  /\ file # None /\ file.whole /\ read = None /\ size < Len(file.text)
  /\ file' = [file EXCEPT !.text = SubSeq(@, 1, size), !.whole = FALSE]
  /\ UNCHANGED <<table, read>>

Upload ==
  /\ file # None /\ file.kind = "sheet" /\ read = None
  /\ read' = ParseOrganizationImportFile(file.text) /\ UNCHANGED <<table, file>>

Next ==
  \/ \E row \in Rows : Fill(row)
  \/ CreatePartnerExport \/ Upload
  \/ \E delimiter \in {Semicolon, Comma}, newline \in {<<Newline>>, <<Return, Newline>>} :
       Save(delimiter, newline)
  \/ \E size \in 0 .. MaxText : Cut(size)

Spec == Init /\ [][Next]_vars

-------------------------------------------------------------------------------
\* docs/runbooks/partner-export.md:24: whatever the cells hold, a reader of quoted cells gets
\* back each of them, in its row and column, and no cell that a spreadsheet would compute.
ExportReadsBack ==
  (file # None /\ file.kind = "export" /\ file.whole) =>
    LET back == ParseCsv(file.text) IN
    /\ back = <<Header>> \o Map(LAMBDA row : Map(Inert, row), table)
    /\ \A i \in DOMAIN back, j \in DOMAIN Header : ~IsFormula(back[i][j])

\* What a spreadsheet wrote, by either delimiter, is read as the table: each row that is not
\* blank under its number in the sheet, and each value in its field.
SheetReadsBack ==
  (read # None /\ file.whole /\ Len(table) <= MaxRows) =>
    LET filled == SelectSeq([i \in DOMAIN table |-> i], LAMBDA i : ~IsBlank(table[i])) IN
    /\ Len(read.rows) = Len(filled)
    /\ \A k \in DOMAIN filled :
         read.rows[k] = [rowNo  |-> filled[k] + 1,
                         values |-> Values(Fields(Header), table[filled[k]])]

\* An upload that was cut within a quoted cell is refused.  Of one that was cut elsewhere all
\* rows but the last are as written and the last has the beginnings of its values: no rows
\* run into each other, and no value comes to another field.
CutKeepsRows ==
  (read # None /\ ~file.whole) =>
    /\ (read.error = "IMPORT_CSV_INVALID")
         <=> (Len(SelectSeq(file.text, LAMBDA c : c = Quote)) % 2 = 1)
    /\ \A k \in DOMAIN read.rows :
         LET row == read.rows[k]
             values == Values(Fields(Header), table[row.rowNo - 1])
         IN  IF k < Len(read.rows) THEN row.values = values
             ELSE \A field \in DOMAIN values : IsPrefix(row.values[field], values[field])
===============================================================================
