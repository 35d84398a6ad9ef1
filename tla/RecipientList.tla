---------------------------- MODULE RecipientList -----------------------------
(***************************************************************************)
(* The import of a list of recipients: parse_recipients of                 *)
(* bulk/importing.py, and the look-up of what it has read in the address   *)
(* book, import_rows and _import_one of bulk/service.py. Nothing is stored. *)
(*                                                                         *)
(* A sheet is a sequence of lines, a line the cells it was written with and *)
(* their delimiter; a cell is a value or Missing. Text a delimiter does not    *)
(* split is the cell Joined.                                               *)
(***************************************************************************)
EXTENDS Naturals, FiniteSets, FiniteSetsExt, Sequences, SequencesExt

CONSTANTS
    Synonym,   \* the column a heading names
    Numbers,   \* cells with a number that is not negative
    Inns,      \* cells with digits
    Opening,   \* cells that begin with a quote and do not end with one
    Joined,
    Book,      \* counterparties: [id, inn, name, live, addresses]
    Sheets,    \* the lists that are imported
    Missing

(* The identifiers of addresses are primary keys, over the tenant's book.   *)
ASSUME RecipientsAssumption ==
    /\ IsFiniteSet(Book) /\ \A c \in Book : IsFiniteSet(c.addresses)
    /\ \A c, e \in Book : \A a \in c.addresses, b \in e.addresses : a.id = b.id => c = e /\ a = b

Delimiters == <<"tab", "semicolon", "comma">>
Blank(cells) == \A i \in DOMAIN cells : cells[i] = Missing

\* str.strip leaves nothing of it: tabs are white, other delimiters are text.
Empty(line) == Blank(line.cells) /\ (line.by = "tab" \/ Len(line.cells) <= 1)
FirstLine(sheet) == Min({i \in DOMAIN sheet : ~Empty(sheet[i])})

Split(line, d) == IF line.by = d \/ Len(line.cells) = 1 THEN line.cells ELSE <<Joined>>

\* _detect_header: the columns a line names by this delimiter, and the first
\* delimiter by which it names the most.
Layout(line, d) ==
    LET cells == Split(line, d)
    IN  [i \in {j \in DOMAIN cells : cells[j] \in DOMAIN Synonym} |-> Synonym[cells[i]]]
ColumnsNamed(line, d) == Cardinality(DOMAIN Layout(line, d))
Delimiter(line) ==
    LET best == Max({ColumnsNamed(line, Delimiters[i]) : i \in 1..3})
    IN  IF best = 0 THEN Missing
        ELSE Delimiters[Min({i \in 1..3 : ColumnsNamed(line, Delimiters[i]) = best})]

\* csv.reader over the lines joined again: a quote swallows cells and lines up
\* to the next quote, or to the end of the sheet.
Read(reader, line, d) ==
    LET cells == Split(line, d)
        Take(r, i) ==
            LET quoted == IF cells[i] \in Opening THEN ~r.quoted ELSE r.quoted
                record == IF r.quoted THEN r.record ELSE Append(r.record, cells[i])
            IN  IF i = Len(cells) /\ ~quoted
                  THEN [records |-> Append(r.records, record), record |-> <<>>, quoted |-> FALSE]
                  ELSE [r EXCEPT !.record = record, !.quoted = quoted]
    IN  IF cells = <<>> /\ ~reader.quoted THEN [reader EXCEPT !.records = Append(@, <<>>)]
        ELSE FoldLeft(Take, reader, [i \in DOMAIN cells |-> i])
Records(body, d) ==
    LET reader == FoldLeft(LAMBDA r, line : Read(r, line, d),
                           [records |-> <<>>, record |-> <<>>, quoted |-> FALSE], body)
    IN  IF reader.quoted THEN Append(reader.records, reader.record) ELSE reader.records

\* The last of the columns called so.
Field(cells, layout, field) ==
    LET columns == {i \in DOMAIN layout : layout[i] = field}
    IN  IF columns = {} \/ Max(columns \cup {0}) > Len(cells) THEN Missing ELSE cells[Max(columns)]

\* _decimal.
IsNumber(cell) == cell = Missing \/ cell \in Numbers
HasKey(row) == row.inn # Missing \/ row.name # Missing
HasAddress(row) == row.city # Missing /\ row.address # Missing

\* A record of a table as a row; an address may come in parts.
TableRow(cells, layout, line) ==
    LET of(field) == Field(cells, layout, field)
        parts == SelectSeq(<<of("address_line"), of("street"), of("house"), of("flat")>>,
                           LAMBDA part : part # Missing)
    IN  [line |-> line, city |-> of("city"), address |-> IF parts = <<>> THEN Missing ELSE parts[1],
         inn |-> IF of("inn") \in Inns THEN of("inn") ELSE Missing, name |-> of("name")]

\* _parse_table: rows, and the lines an error names.
ParseTable(sheet, first, d) ==
    LET layout == Layout(sheet[first], d)
        records == Records(SubSeq(sheet, first + 1, Len(sheet)), d)
        rows == {TableRow(records[i], layout, first + i) : i \in {j \in DOMAIN records : ~Blank(records[j])}}
        Bad(row) ==
            LET cells == records[row.line - first]
            IN  \/ ~IsNumber(Field(cells, layout, "weight_kg"))
                \/ ~IsNumber(Field(cells, layout, "value_rub"))
                \/ ~HasAddress(row) /\ ~HasKey(row)
    IN  [rows |-> {row \in rows : ~Bad(row)}, errors |-> {row.line : row \in {r \in rows : Bad(r)}}]

\* _parse_lines: "city; address", the first separator is the boundary.
ParseLines(sheet) ==
    LET lines == {i \in DOMAIN sheet : ~Empty(sheet[i])}
        Good(i) == LET cells == Split(sheet[i], "semicolon")
                   IN  Len(cells) > 1 /\ cells[1] # Missing /\ (Len(cells) > 2 \/ cells[2] # Missing)
    IN  [rows |-> {[line |-> i, city |-> sheet[i].cells[1], address |-> sheet[i].cells[2],
                    inn |-> Missing, name |-> Missing] : i \in {j \in lines : Good(j)}},
         errors |-> {i \in lines : ~Good(i)}]

\* parse_recipients.
Parse(sheet) ==
    IF \A i \in DOMAIN sheet : Empty(sheet[i]) THEN [rows |-> {}, errors |-> {}]
    ELSE LET first == FirstLine(sheet)
         IN  IF Delimiter(sheet[first]) = Missing THEN ParseLines(sheet)
             ELSE ParseTable(sheet, first, Delimiter(sheet[first]))

-----------------------------------------------------------------------------
\* Mutant of Found: the first counterparty with the key.
FoundFirst(row) ==
    LET found == {c \in Book : c.live /\ IF row.inn # Missing THEN c.inn = row.inn ELSE c.name = row.name}
    IN  IF found = {} THEN {} ELSE {CHOOSE c \in found : \A e \in found : c.id <= e.id}

\* find_by_inn or find_by_name.
Found(row) == {c \in Book : c.live /\ IF row.inn # Missing THEN c.inn = row.inn ELSE c.name = row.name}

\* The addresses with a line, of the city of the row if there is one in it.
Usable(c, row) ==
    LET live == {a \in c.addresses : a.live}
        near == {a \in live : a.city = row.city}
    IN  {a \in (IF row.city # Missing /\ near # {} THEN near ELSE live) : a.line # Missing}

\* _import_one.
ImportOne(row) ==
    LET found == Found(row)
        usable == UNION {Usable(c, row) : c \in found}
        Count(set) == IF set = {} THEN "not_found" ELSE IF Cardinality(set) > 1 THEN "ambiguous" ELSE "resolved"
        status == IF ~HasKey(row) THEN "parsed"
                  ELSE IF Count(found) # "resolved" THEN Count(found) ELSE Count(usable)
    IN  [line |-> row.line, status |-> status, read |-> row,
         address |-> IF status = "resolved" THEN (CHOOSE a \in usable : TRUE).id ELSE Missing]

\* import_rows.
Import(sheet) ==
    [rows |-> {ImportOne(row) : row \in Parse(sheet).rows}, errors |-> Parse(sheet).errors]

-----------------------------------------------------------------------------
VARIABLE upload   \* the list that is imported

ListInit == upload \in Sheets
ListSpec == ListInit /\ [][FALSE]_upload

-----------------------------------------------------------------------------
(* Properties *)

\* Whom a row can mean: the live addresses with a line, of the live counterparties
\* with its key. A city narrows the choice down if the counterparty has a live
\* address in it, and not otherwise.
IsMeant(c, row) == c.live /\ IF row.inn # Missing THEN c.inn = row.inn ELSE c.name = row.name
Fits(c, a, row) ==
    /\ a.live /\ a.line # Missing
    /\ row.city # Missing /\ (\E near \in c.addresses : near.live /\ near.city = row.city) => a.city = row.city

\* BulkService.import_rows: which of two recipients is meant is for the operator.
\* A row is resolved to an address of the only counterparty it names, no other
\* address of which fits it; and a row that names one is not passed over if one
\* address fits. An address in another city is taken if the counterparty has
\* none in the row's: whether anybody should be asked then is OtherCityIsAsked.
OneIsMeant ==
    \A out \in Import(upload).rows :
        LET row == out.read
            meant == {c \in Book : IsMeant(c, row)}
        IN  /\ out.status = "resolved" =>
                 \E c \in meant : \E a \in c.addresses :
                    /\ meant = {c} /\ out.address = a.id /\ Fits(c, a, row)
                    /\ \A b \in c.addresses : Fits(c, b, row) => b = a
            /\ \A c \in meant : \A a \in c.addresses :
                 /\ HasKey(row) /\ meant = {c} /\ Fits(c, a, row)
                 /\ \A b \in c.addresses : Fits(c, b, row) => b = a
                 => out.status = "resolved" /\ out.address = a.id

\* "An address in another city is a question" (_import_one; ADR-0022 says the
\* same): a resolved row goes to the city it names. It does not hold: the only
\* usable address of the counterparty is taken wherever it is.
OtherCityIsAsked ==
    \A out \in Import(upload).rows :
        out.status = "resolved" /\ out.read.city # Missing =>
            \E c \in Book : \E a \in c.addresses : a.id = out.address /\ a.city = out.read.city

\* A line that is not the heading or blank and has come neither to a row nor
\* to an error.
Lost(sheet) ==
    {i \in DOMAIN sheet :
        /\ ~Blank(sheet[i].cells)
        /\ i = FirstLine(sheet) => Delimiter(sheet[i]) = Missing
        /\ i \notin Import(sheet).errors \cup {out.line : out \in Import(sheet).rows}}

\* "A line with an error is not dropped silently" (importing.py): every line of
\* a list comes to a row or to an error that names it.
NobodyIsLost == Lost(upload) = {}
=============================================================================
