---------------------------- MODULE ContactsCsv ----------------------------
(* The contacts file and its two parsers (ingestion/parser.py): the batch   *)
(* one, which also reports the rows it rejects, and the streaming one that  *)
(* the lambda uses. Cells are opaque; what the code does to them (strip,    *)
(* ZoneInfo) is given by constants. Metadata columns are left out.          *)
EXTENDS Naturals, SequencesExt

CONSTANTS
    PhoneCells,         \* raw cells of the column "phone"
    ZoneCells,          \* raw cells of the column "timezone"
    StripPhone,         \* what is left of a phone cell: a phone, or NoPhone
    StripZone,          \* what is left of a timezone cell
    Phones,             \* phone numbers, named by their place in ORDER BY phone
    NoPhone,            \* the empty string
    Zones               \* names ZoneInfo accepts

ASSUME CsvAssumption ==
    /\ StripPhone \in [PhoneCells -> Phones \cup {NoPhone}]
    /\ DOMAIN StripZone = ZoneCells
    /\ Phones \subseteq Nat
    /\ NoPhone \notin Phones

BlankLine == [phone |-> "", timezone |-> "", blank |-> TRUE]

Line(phone, zone) == [phone |-> phone, timezone |-> zone, blank |-> FALSE]

RequiredColumns == {"phone", "timezone"}

\* Both parsers raise a ValueError for a file without the required columns.
Readable(file) == RequiredColumns \subseteq file.columns

\* What csv.reader may find on a line. A record is one line: a quoted cell with
\* a line break in it is left out. It would be read by parse_contacts with the
\* break, and by the lambda without, since iter_lines() strips the line ends of
\* what it hands to the reader (handler.py:35).
RawLines == {BlankLine} \cup {Line(phone, zone) : phone \in PhoneCells, zone \in ZoneCells}

\* class ContactRow
ContactRows == [phone : Phones, timezone : Zones]

ValidTimezone(zone) == zone \in Zones

Contact(raw) == [phone |-> StripPhone[raw.phone], timezone |-> StripZone[raw.timezone]]
-----------------------------------------------------------------------------
\* csv.DictReader skips blank lines; parse_contacts numbers the rows it yields
\* from 0, and takes the first for line 2.
NothingParsed == [offset |-> 0, valid |-> <<>>, errors |-> <<>>]

\* One turn of the loop of parse_contacts.
ParseRow(result, raw) ==
    LET contact == Contact(raw)
        counted == [result EXCEPT !.offset = result.offset + 1]
        error(reason) == [counted EXCEPT !.errors =
                   Append(result.errors, [line |-> result.offset + 2, reason |-> reason])]
    IN  IF contact.phone = NoPhone
          THEN error("missing phone")
          ELSE IF ~ValidTimezone(contact.timezone)
            THEN error("invalid timezone")
            ELSE [counted EXCEPT !.valid = Append(result.valid, contact)]

ParseLine(result, raw) == IF raw.blank THEN result ELSE ParseRow(result, raw)

\* parse_contacts, after each line of the file.
ParseContacts(file) ==
    LET parsed[i \in 0..Len(file.lines)] ==
          IF i = 0 THEN NothingParsed ELSE ParseLine(parsed[i - 1], file.lines[i])
    IN  parsed[Len(file.lines)]
-----------------------------------------------------------------------------
\* _row_to_contact without the test of the phone.
IsContactZoneOnly(raw) == ValidTimezone(Contact(raw).timezone)

\* And without the test of the timezone.
IsContactPhoneOnly(raw) == Contact(raw).phone # NoPhone

\* _row_to_contact does not return None.
IsContact(raw) == Contact(raw).phone # NoPhone /\ ValidTimezone(Contact(raw).timezone)

\* What iter_valid_contacts yields. The rows go into a table and their order
\* and number are of no account there, so they are a set.
IterValidContacts(file) ==
    {Contact(raw) : raw \in {row \in ToSet(file.lines) : ~row.blank /\ IsContact(row)}}
-----------------------------------------------------------------------------
\* Where the file has no blank lines, an error names the line of its row.
LinesAreRight(file) ==
    (\A i \in 1..Len(file.lines) : ~file.lines[i].blank) =>
        {e.line : e \in ToSet(ParseContacts(file).errors)}
            = {i + 1 : i \in {k \in 1..Len(file.lines) : ~IsContact(file.lines[k])}}

\* What the streaming parser feeds to the database is what the batch parser
\* calls valid, and the batch parser reports every other row.
SameContacts(file) ==
    LET result == ParseContacts(file) IN
      /\ IterValidContacts(file) = ToSet(result.valid)
      /\ Cardinality({i \in 1..Len(file.lines) : ~file.lines[i].blank})
             = Len(result.valid) + Len(result.errors)
      /\ LinesAreRight(file)
=============================================================================
