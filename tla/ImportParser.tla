---------------------------- MODULE ImportParser ----------------------------
(***************************************************************************)
(* How a batch import is cut into rows, and which of them are in error.    *)
(*                                                                         *)
(* A text is what the handler has accepted: its format and its lines.  A   *)
(* line of plain text is a string; a line of CSV is a sequence of cells, a *)
(* line of JSONL an object (a function from keys to values), and either    *)
(* may be Blank or Malformed.  Cells and values are strings that stand for *)
(* what the parsers tell apart: "instant" and "day" are dates with and     *)
(* without a time, "inside" and "outside" are coordinates in and out of    *)
(* range, "NaN" parses as a number, and any other string is neither a date *)
(* nor a number.  Every string is trimmed.                                 *)
(*                                                                         *)
(* Timezone, source_url, location_name and activity are copied unread and  *)
(* are left out.                                                           *)
(***************************************************************************)
EXTENDS Integers, Sequences, FiniteSets, SequencesExt

CONSTANT MaxRows  \* maxImportRows: rows in one job

ASSUME MaxRowsAssumption == MaxRows \in Nat \ {0}

Separator == "---"
Blank == [kind |-> "blank"]
Malformed == [kind |-> "malformed"]
Cells(s) == [kind |-> "cells", cells |-> s]
Object(o) == [kind |-> "object", object |-> o]

Columns == {"external_id", "content", "title", "tags", "captured_at", "latitude", "longitude"}

Absent == "absent"  \* there is no such column or key
Null == "null"      \* the column is declared and the line too short, or JSON null

\* asString: what is no string, number or boolean counts as missing.
AsString(v) == IF v \in {Absent, Null} THEN "" ELSE v

-----------------------------------------------------------------------------
\* Content is a sequence of lines without blank ones at its ends; its hash
\* is taken over its words, so blank lines do not count.
Content(s) == IF s = "" THEN <<>> ELSE <<s>>
Words(content) == SelectSeq(content, LAMBDA line : line # "")

\* The tags between the bars; "|" alone has none.
HasTags(v) == AsString(v) \notin {"", "|"}

CapturedAtPrecision(s) ==
  CASE s = "instant" -> "exact"
    [] s = "day"     -> "date_only"
    [] OTHER         -> "unknown"

InvalidDate(s) == s \notin {"", "instant", "day"}

\* Either both coordinates are given, as numbers in range, or neither is.
\* A comparison with NaN is false: it is not out of range.
InvalidCoordinates(lat, lng) ==
  /\ {lat, lng} # {Absent}
  /\ ~ {lat, lng} \subseteq {"inside", "NaN"}

\* The fields of a row and its errors, from what "v" holds in every column.
PopulateRow(v) ==
  LET content == Content(AsString(v["content"]))
      at == AsString(v["captured_at"])
      lost == InvalidCoordinates(v["latitude"], v["longitude"])
  IN [content |-> content,
      external_id |-> AsString(v["external_id"]),
      given |-> {f \in {"title"} : AsString(v[f]) # ""}
                  \cup {f \in {"tags"} : HasTags(v[f])},
      precision |-> CapturedAtPrecision(at),
      nan |-> ~ lost /\ "NaN" \in {v["latitude"], v["longitude"]},
      errors |-> {e \in {"missing_content"} : content = <<>>}
                   \cup {e \in {"invalid_date"} : InvalidDate(at)}
                   \cup {e \in {"invalid_coordinates"} : lost}]

NoFields == PopulateRow([c \in Columns |-> Absent])

-----------------------------------------------------------------------------
Failure == [ok |-> FALSE, rows |-> <<>>]
Parsed(rows) == [ok |-> TRUE, rows |-> rows]

\* The blocks between the lines that equal the separator.
SplitBySeparator(lines) ==
  LET cuts == SetToSortSeq({i \in 1..Len(lines) : lines[i] = Separator}
                             \cup {0, Len(lines) + 1}, LAMBDA i, j : i < j)
  IN [k \in 1..(Len(cuts) - 1) |-> SubSeq(lines, cuts[k] + 1, cuts[k + 1] - 1)]

\* strings.TrimSpace of a block: from its first to its last line with text.
TrimBlock(block) ==
  LET text == {i \in DOMAIN block : block[i] # ""}
  IN IF text = {} THEN <<>>
     ELSE SubSeq(block, CHOOSE i \in text : \A j \in text : i <= j,
                        CHOOSE i \in text : \A j \in text : j <= i)

ParsePlain(lines) ==
  LET blocks == [k \in DOMAIN SplitBySeparator(lines) |-> TrimBlock(SplitBySeparator(lines)[k])]
      kept == SelectSeq(blocks, LAMBDA b : b # <<>>)
  IN Parsed([k \in DOMAIN kept |-> [NoFields EXCEPT !.content = kept[k], !.errors = {}]])

\* Lines with nothing on them are not records.
Filled(lines) == SelectSeq(lines, LAMBDA l : l.kind # "blank")

\* Mutation: a header has to use the names of the fields.
CanonicalColumnAsIs(name) == name

\* The names that a header may use; any other passes as it is.
CanonicalColumn(name) ==
  CASE name \in {"externalid", "id"} -> "external_id"
    [] name \in {"text", "body"} -> "content"
    [] name = "tag" -> "tags"
    [] name \in {"created_at", "datetime", "date"} -> "captured_at"
    [] name = "lat" -> "latitude"
    [] name \in {"lng", "lon"} -> "longitude"
    [] OTHER -> name

\* The first column of that name counts; a record may be short.
Lookup(columns, cells) ==
  [c \in Columns |->
     LET at == {i \in DOMAIN columns : columns[i] = c}
         first == CHOOSE i \in at : \A j \in at : i <= j
     IN IF at = {} THEN Absent ELSE IF first <= Len(cells) THEN cells[first] ELSE Null]

\* One record that encoding/csv cannot read fails the whole text.
ParseCSV(lines) ==
  LET records == Filled(lines)
  IN IF records = <<>> \/ \E i \in DOMAIN records : records[i].kind = "malformed" THEN Failure
     ELSE LET header == records[1].cells
              columns == [i \in DOMAIN header |-> CanonicalColumn(header[i])]
          IN Parsed([k \in 1..(Len(records) - 1) |->
                       PopulateRow(Lookup(columns, records[k + 1].cells))])

\* A line that is no JSON object is a row in error.
ParseJSONL(lines) ==
  LET kept == Filled(lines)
      value(object, c) == IF c \in DOMAIN object THEN object[c] ELSE Absent
  IN Parsed([k \in DOMAIN kept |->
       IF kept[k].kind = "malformed" THEN [NoFields EXCEPT !.errors = {"invalid_json"}]
       ELSE PopulateRow([c \in Columns |-> value(kept[k].object, c)])])

Parse(text) ==
  CASE text.format = "csv"   -> ParseCSV(text.lines)
    [] text.format = "jsonl" -> ParseJSONL(text.lines)
    [] OTHER                 -> ParsePlain(text.lines)

\* A file extension that stands for plain text.
NormalizeFormat(format) ==
  IF format \in {"txt", "text", "markdown", "md"} THEN "plain_text" ELSE format

\* What CreateJob takes: a source, a known format, rows, and not too many of
\* them; and all of them can be encoded, which NaN cannot.
Accepted(text) ==
  LET parsed == Parse([text EXCEPT !.format = NormalizeFormat(text.format)])
  IN /\ text.source # ""
     /\ NormalizeFormat(text.format) \in {"plain_text", "csv", "jsonl"}
     /\ parsed.ok
     /\ Len(parsed.rows) \in 1..MaxRows
     /\ \A k \in DOMAIN parsed.rows : ~ parsed.rows[k].nan

ParsedRows(text) == Parse([text EXCEPT !.format = NormalizeFormat(text.format)]).rows
=============================================================================
