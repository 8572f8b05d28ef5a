-------------------------- MODULE ContactsCsvProofs --------------------------
(* The two parsers of a contacts file agree on the valid contacts, for any  *)
(* list of records (RawLines). parse_contacts is a recursion over it: first *)
(* that it is well defined, then what it has collected after each record.   *)
EXTENDS ContactsCsv, FiniteSetTheorems, WellFoundedInduction, TLAPS

USE CsvAssumption

(* Induction up to a number, and recursion. *)

\* A nonempty set of numbers has a least one.
LEMMA LeastNumber ==
  ASSUME NEW S \in SUBSET Nat, S # {}
  PROVE  \E x \in S : \A y \in S : x <= y
<1>1. PICK x \in S : \A y \in S : ~(<<y, x>> \in OpToRel(<, Nat))
  BY NatLessThanWellFounded, WFMin
<1>2. \A y \in S : ~(y < x)
  BY <1>1 DEF OpToRel
<1>. QED
  BY <1>2

\* What holds of 0, and of each number up to n if of the one before, holds up
\* to n.
LEMMA UpTo ==
  ASSUME NEW n \in Nat, NEW S, 0 \in S, \A i \in 1..n : i - 1 \in S => i \in S
  PROVE  \A i \in 0..n : i \in S
<1>. DEFINE T == {i \in 0..n : i \notin S}
<1>. SUFFICES ASSUME T # {}
              PROVE  FALSE
  OBVIOUS
<1>0. T \in SUBSET Nat
  OBVIOUS
<1>. HIDE DEF T
<1>1. PICK x \in T : \A y \in T : x <= y
  BY <1>0, LeastNumber
<1>. USE DEF T
<1>2. x \in 1..n /\ x - 1 \in 0..n /\ ~(x <= x - 1)
  BY <1>1
<1>3. x - 1 \in S
  BY <1>1, <1>2
<1>. QED
  BY <1>1, <1>2, <1>3

\* A function can be given by where it starts and how it goes on.
LEMMA Recursion ==
  ASSUME NEW R, NEW start \in R, NEW n \in Nat, NEW step \in [(1..n) \X R -> R]
  PROVE  \E f \in [0..n -> R] : f[0] = start /\ \A i \in 1..n : f[i] = step[<<i, f[i - 1]>>]
<1>. DEFINE GoesTo(f, m) == f[0] = start /\ \A i \in 1..m : f[i] = step[<<i, f[i - 1]>>]
            S == {m \in 0..n : \E f \in [0..m -> R] : GoesTo(f, m)}
<1>1. 0 \in S
  <2>. DEFINE f == [i \in 0..0 |-> start]
  <2>1. f \in [0..0 -> R] /\ GoesTo(f, 0)
    OBVIOUS
  <2>. HIDE DEF f
  <2>. QED
    BY <2>1
<1>2. ASSUME NEW m \in 1..n, m - 1 \in S
      PROVE  m \in S
  <2>1. PICK f \in [0..(m - 1) -> R] : GoesTo(f, m - 1)
    BY <1>2
  <2>. DEFINE g == [i \in 0..m |-> IF i = m THEN step[<<m, f[m - 1]>>] ELSE f[i]]
  <2>2. f[m - 1] \in R /\ step[<<m, f[m - 1]>>] \in R
    <3>1. m - 1 \in 0..(m - 1)
      OBVIOUS
    <3>. QED
      BY <3>1
  <2>3. g \in [0..m -> R]
    <3>1. \A i \in 0..m : i # m => i \in 0..(m - 1)
      OBVIOUS
    <3>. QED
      BY <2>2, <3>1
  <2>4. g[0] = start
    BY <2>1
  <2>5. ASSUME NEW i \in 1..m
        PROVE  g[i] = step[<<i, g[i - 1]>>]
    <3>1. i - 1 \in 0..m /\ i - 1 # m /\ i \in 0..m
      OBVIOUS
    <3>2. g[i - 1] = f[i - 1]
      BY <3>1
    <3>3. CASE i = m
      BY <3>1, <3>2, <3>3
    <3>4. CASE i # m
      <4>1. i \in 1..(m - 1)
        BY <3>4
      <4>. QED
        BY <2>1, <3>1, <3>2, <3>4, <4>1
    <3>. QED
      BY <3>3, <3>4
  <2>. HIDE DEF g
  <2>6. m \in 0..n
    OBVIOUS
  <2>. QED
    BY <2>3, <2>4, <2>5, <2>6
<1>. HIDE DEF S
<1>3. n \in S
  <2>1. \A i \in 0..n : i \in S
    BY <1>1, <1>2, UpTo
  <2>. QED
    BY <2>1
<1>. QED
  BY <1>3 DEF S
-----------------------------------------------------------------------------
(* One line. *)

RowErrors == [line : Nat, reason : {"missing phone", "invalid timezone"}]

\* What the batch parser may have collected.
Results == [offset : Nat, valid : Seq(ContactRows), errors : Seq(RowErrors)]

\* A line that is not blank has cells that can be stripped.
LEMMA LineTypes ==
  ASSUME NEW raw \in RawLines
  PROVE  /\ raw.blank \in BOOLEAN
         /\ ~raw.blank => /\ Contact(raw).phone \in Phones \cup {NoPhone}
                          /\ IsContact(raw) => Contact(raw) \in ContactRows
<1>1. CASE raw = BlankLine
  BY <1>1 DEF BlankLine
<1>2. CASE \E phone \in PhoneCells, zone \in ZoneCells : raw = Line(phone, zone)
  <2>1. raw.blank = FALSE /\ raw.phone \in PhoneCells
    BY <1>2 DEF Line
  <2>2. Contact(raw).phone \in Phones \cup {NoPhone}
    BY <2>1 DEF Contact
  <2>. QED
    BY <2>1, <2>2 DEF Contact, ContactRows, IsContact, ValidTimezone
<1>. QED
  BY <1>1, <1>2 DEF RawLines

\* What Append adds.
LEMMA AppendAdds ==
  ASSUME NEW T, NEW s \in Seq(T), NEW e \in T
  PROVE  /\ Append(s, e) \in Seq(T)
         /\ Len(Append(s, e)) = Len(s) + 1
         /\ ToSet(Append(s, e)) = ToSet(s) \cup {e}
<1>. DEFINE t == Append(s, e)
<1>1. /\ t \in Seq(T) /\ Len(s) \in Nat
      /\ Len(t) = Len(s) + 1
      /\ \A i \in 1..Len(s) : t[i] = s[i]
      /\ t[Len(s) + 1] = e
  OBVIOUS
<1>. HIDE DEF t
<1>2. /\ DOMAIN t = 1..(Len(s) + 1)
      /\ DOMAIN s = 1..Len(s)
  BY <1>1
<1>3. ToSet(t) = ToSet(s) \cup {e}
  BY <1>1, <1>2 DEF ToSet
<1>. QED
  BY <1>1, <1>3 DEF t

\* A line adds a valid contact, or an error with its number, or nothing.
LineAdds(result, raw, next) ==
    IF raw.blank
      THEN next = result
      ELSE /\ next.offset = result.offset + 1
           /\ IF IsContact(raw)
                THEN /\ next.valid = Append(result.valid, Contact(raw))
                     /\ next.errors = result.errors
                ELSE /\ next.valid = result.valid
                     /\ \E e \in RowErrors : /\ e.line = result.offset + 2
                                             /\ next.errors = Append(result.errors, e)

LEMMA ParseLineAdds ==
  ASSUME NEW result \in Results, NEW raw \in RawLines
  PROVE  /\ ParseLine(result, raw) \in Results
         /\ LineAdds(result, raw, ParseLine(result, raw))
<1>. DEFINE next == ParseLine(result, raw)
<1>0. /\ result.offset \in Nat /\ result.offset + 1 \in Nat /\ result.offset + 2 \in Nat
      /\ result.valid \in Seq(ContactRows)
      /\ result.errors \in Seq(RowErrors)
      /\ result = [offset |-> result.offset, valid |-> result.valid, errors |-> result.errors]
  BY DEF Results
<1>1. CASE raw.blank
  BY <1>1 DEF ParseLine, LineAdds
<1>2. CASE ~raw.blank /\ IsContact(raw)
  <2>1. next = [offset |-> result.offset + 1, valid |-> Append(result.valid, Contact(raw)),
                errors |-> result.errors]
    BY <1>0, <1>2 DEF ParseLine, ParseRow, IsContact
  <2>2. Contact(raw) \in ContactRows
    BY <1>2, LineTypes
  <2>3. Append(result.valid, Contact(raw)) \in Seq(ContactRows)
    BY <1>0, <2>2, AppendAdds
  <2>. HIDE DEF next
  <2>4. next \in Results
    BY <1>0, <2>1, <2>3 DEF Results
  <2>. QED
    BY <1>2, <2>1, <2>4 DEF next, LineAdds
<1>3. CASE ~raw.blank /\ ~IsContact(raw)
  <2>1. PICK e \in [line : {result.offset + 2}, reason : {"missing phone", "invalid timezone"}] :
          next = [offset |-> result.offset + 1, valid |-> result.valid,
                  errors |-> Append(result.errors, e)]
    <3>. DEFINE missing == [line |-> result.offset + 2, reason |-> "missing phone"]
                invalid == [line |-> result.offset + 2, reason |-> "invalid timezone"]
    <3>1. CASE Contact(raw).phone = NoPhone
      <4>1. next = [offset |-> result.offset + 1, valid |-> result.valid,
                    errors |-> Append(result.errors, missing)]
        BY <1>0, <1>3, <3>1 DEF ParseLine, ParseRow
      <4>. QED
        BY <4>1
    <3>2. CASE Contact(raw).phone # NoPhone
      <4>1. next = [offset |-> result.offset + 1, valid |-> result.valid,
                    errors |-> Append(result.errors, invalid)]
        BY <1>0, <1>3, <3>2 DEF ParseLine, ParseRow, IsContact
      <4>. QED
        BY <4>1
    <3>. QED
      BY <3>1, <3>2
  <2>. HIDE DEF next
  <2>2. e \in RowErrors
    BY <1>0 DEF RowErrors
  <2>3. Append(result.errors, e) \in Seq(RowErrors)
    BY <1>0, <2>2, AppendAdds
  <2>4. next \in Results
    BY <1>0, <2>1, <2>3 DEF Results
  <2>5. e \in RowErrors /\ e.line = result.offset + 2
    BY <2>2
  <2>6. /\ next.offset = result.offset + 1
        /\ next.valid = result.valid
        /\ next.errors = Append(result.errors, e)
    BY <2>1
  <2>7. LineAdds(result, raw, next)
    BY <1>3, <2>5, <2>6 DEF LineAdds
  <2>. QED
    BY <2>4, <2>7 DEF next
<1>. QED
  BY <1>1, <1>2, <1>3
-----------------------------------------------------------------------------
(* The whole file. *)

RowsUpTo(file, n) == {k \in 1..n : ~file.lines[k].blank}

\* What is collected from the first n lines.
Collected(file, n, result) ==
    LET rows == RowsUpTo(file, n) IN
      /\ result \in Results
      /\ IsFiniteSet(rows)
      /\ Cardinality(rows) = result.offset
      /\ Len(result.valid) + Len(result.errors) = result.offset
      /\ ToSet(result.valid) = {Contact(file.lines[k]) : k \in {i \in rows : IsContact(file.lines[i])}}
      /\ rows = 1..n =>
            /\ result.offset = n
            /\ {e.line : e \in ToSet(result.errors)}
                 = {k + 1 : k \in {i \in 1..n : ~IsContact(file.lines[i])}}

LEMMA NothingCollected ==
  ASSUME NEW file
  PROVE  Collected(file, 0, NothingParsed)
<1>1. RowsUpTo(file, 0) = {} /\ 1..0 = {}
  BY DEF RowsUpTo
<1>2. <<>> \in Seq(ContactRows) /\ <<>> \in Seq(RowErrors) /\ ToSet(<<>>) = {}
      /\ Len(<<>>) = 0
  BY DEF ToSet
<1>3. NothingParsed \in Results
  BY <1>2 DEF Results, NothingParsed
<1>4. NothingParsed.offset = 0 /\ NothingParsed.valid = <<>> /\ NothingParsed.errors = <<>>
  BY DEF NothingParsed
<1>5. IsFiniteSet({}) /\ Cardinality({}) = 0
  BY FS_EmptySet
<1>6. /\ {Contact(file.lines[k]) : k \in {i \in {} : IsContact(file.lines[i])}} = {}
      /\ {k + 1 : k \in {i \in 1..0 : ~IsContact(file.lines[i])}} = {}
      /\ {e.line : e \in {}} = {}
  BY <1>1
<1>7. 0 + 0 = 0
  OBVIOUS
<1>. QED
  BY <1>1, <1>2, <1>3, <1>4, <1>5, <1>6, <1>7 DEF Collected

LEMMA OneLineMore ==
  ASSUME NEW file, file.lines \in Seq(RawLines), NEW n \in 1..Len(file.lines),
         NEW result, Collected(file, n - 1, result)
  PROVE  Collected(file, n, ParseLine(result, file.lines[n]))
<1>. DEFINE raw == file.lines[n]
            next == ParseLine(result, raw)
            before == RowsUpTo(file, n - 1)
            rows == RowsUpTo(file, n)
<1>0. n \in Nat /\ n - 1 \in Nat /\ raw \in RawLines /\ 1..n = 1..(n - 1) \cup {n}
      /\ n \notin 1..(n - 1)
  OBVIOUS
<1>1. /\ result \in Results
      /\ IsFiniteSet(before)
      /\ Cardinality(before) = result.offset
      /\ Len(result.valid) + Len(result.errors) = result.offset
      /\ ToSet(result.valid) = {Contact(file.lines[k]) : k \in {i \in before : IsContact(file.lines[i])}}
      /\ before = 1..(n - 1) =>
            /\ result.offset = n - 1
            /\ {e.line : e \in ToSet(result.errors)}
                 = {k + 1 : k \in {i \in 1..(n - 1) : ~IsContact(file.lines[i])}}
  BY DEF Collected
<1>2. next \in Results /\ LineAdds(result, raw, next)
  BY <1>0, <1>1, ParseLineAdds
<1>3. /\ result.valid \in Seq(ContactRows) /\ result.errors \in Seq(RowErrors) /\ result.offset \in Nat
      /\ next.valid \in Seq(ContactRows) /\ next.errors \in Seq(RowErrors)
      /\ Len(result.valid) \in Nat /\ Len(result.errors) \in Nat
  BY <1>1, <1>2 DEF Results
<1>4. rows = IF raw.blank THEN before ELSE before \cup {n}
  BY <1>0 DEF RowsUpTo
<1>5. before \subseteq 1..(n - 1) /\ n \notin before
  BY <1>0 DEF RowsUpTo
<1>. HIDE DEF next, before, rows
<1>6. CASE raw.blank
  <2>1. next = result /\ rows = before /\ rows # 1..n
    BY <1>0, <1>2, <1>4, <1>5, <1>6 DEF LineAdds
  <2>. QED
    BY <1>1, <2>1 DEF Collected, next, rows
<1>7. CASE ~raw.blank
  <2>1. rows = before \cup {n}
    BY <1>4, <1>7
  <2>2. next.offset = result.offset + 1
    BY <1>2, <1>7 DEF LineAdds
  <2>3. IsFiniteSet(rows) /\ Cardinality(rows) = next.offset
    BY <1>1, <1>5, <2>1, <2>2, FS_AddElement
  <2>4. rows = 1..n => before = 1..(n - 1)
    BY <1>0, <1>5, <2>1
  <2>5. CASE IsContact(raw)
    <3>1. next.valid = Append(result.valid, Contact(raw)) /\ next.errors = result.errors
      BY <1>2, <1>7, <2>5 DEF LineAdds
    <3>2. Contact(raw) \in ContactRows
      BY <1>0, <1>7, <2>5, LineTypes
    <3>3. Len(next.valid) + Len(next.errors) = next.offset
      <4>. DEFINE v == Len(result.valid)
                  w == Len(result.errors)
      <4>0. v \in Nat /\ w \in Nat /\ Len(next.errors) = w
        BY <1>3, <3>1
      <4>1. Len(next.valid) = v + 1
        BY <1>3, <3>1, <3>2, AppendAdds
      <4>2. result.offset = v + w /\ next.offset = result.offset + 1
        BY <1>1, <2>2
      <4>. HIDE DEF v, w
      <4>. QED
        BY <4>0, <4>1, <4>2
    <3>4. ToSet(next.valid) = {Contact(file.lines[k]) : k \in {i \in rows : IsContact(file.lines[i])}}
      <4>1. ToSet(next.valid) = ToSet(result.valid) \cup {Contact(raw)}
        BY <1>3, <3>1, <3>2, AppendAdds
      <4>. QED
        BY <1>1, <2>1, <2>5, <4>1
    <3>5. rows = 1..n =>
            /\ next.offset = n
            /\ {e.line : e \in ToSet(next.errors)}
                 = {k + 1 : k \in {i \in 1..n : ~IsContact(file.lines[i])}}
      <4>1. {i \in 1..n : ~IsContact(file.lines[i])} = {i \in 1..(n - 1) : ~IsContact(file.lines[i])}
        BY <1>0, <2>5
      <4>2. rows = 1..n => next.offset = n
        BY <1>0, <1>1, <2>2, <2>4
      <4>3. rows = 1..n => {e.line : e \in ToSet(result.errors)}
                             = {k + 1 : k \in {i \in 1..(n - 1) : ~IsContact(file.lines[i])}}
        BY <1>1, <2>4
      <4>. QED
        BY <3>1, <4>1, <4>2, <4>3
    <3>. QED
      BY <1>2, <2>3, <3>3, <3>4, <3>5 DEF Collected, next, rows
  <2>6. CASE ~IsContact(raw)
    <3>1. next.valid = result.valid
      BY <1>2, <1>7, <2>6 DEF LineAdds
    <3>2. PICK e \in RowErrors : e.line = result.offset + 2 /\ next.errors = Append(result.errors, e)
      BY <1>2, <1>7, <2>6 DEF LineAdds
    <3>3. Len(next.valid) + Len(next.errors) = next.offset
      <4>. DEFINE v == Len(result.valid)
                  w == Len(result.errors)
      <4>0. v \in Nat /\ w \in Nat /\ Len(next.valid) = v
        BY <1>3, <3>1
      <4>1. Len(next.errors) = w + 1
        BY <1>3, <3>2, AppendAdds
      <4>2. result.offset = v + w /\ next.offset = result.offset + 1
        BY <1>1, <2>2
      <4>. HIDE DEF v, w
      <4>. QED
        BY <4>0, <4>1, <4>2
    <3>4. ToSet(next.valid) = {Contact(file.lines[k]) : k \in {i \in rows : IsContact(file.lines[i])}}
      <4>1. {i \in rows : IsContact(file.lines[i])} = {i \in before : IsContact(file.lines[i])}
        BY <2>1, <2>6
      <4>. QED
        BY <1>1, <3>1, <4>1
    <3>5. rows = 1..n =>
            /\ next.offset = n
            /\ {d.line : d \in ToSet(next.errors)}
                 = {k + 1 : k \in {i \in 1..n : ~IsContact(file.lines[i])}}
      <4>. SUFFICES ASSUME rows = 1..n
                    PROVE  /\ next.offset = n
                           /\ {d.line : d \in ToSet(next.errors)}
                                = {k + 1 : k \in {i \in 1..n : ~IsContact(file.lines[i])}}
        OBVIOUS
      <4>1. /\ result.offset = n - 1
            /\ {d.line : d \in ToSet(result.errors)}
                 = {k + 1 : k \in {i \in 1..(n - 1) : ~IsContact(file.lines[i])}}
        BY <1>1, <2>4
      <4>2. next.offset = n /\ e.line = n + 1
        BY <1>0, <2>2, <3>2, <4>1
      <4>3. {i \in 1..n : ~IsContact(file.lines[i])}
              = {i \in 1..(n - 1) : ~IsContact(file.lines[i])} \cup {n}
        BY <1>0, <2>6
      <4>4. ToSet(next.errors) = ToSet(result.errors) \cup {e}
        BY <1>3, <3>2, AppendAdds
      <4>5. {d.line : d \in ToSet(next.errors)} = {d.line : d \in ToSet(result.errors)} \cup {n + 1}
        BY <4>2, <4>4
      <4>6. {k + 1 : k \in {i \in 1..n : ~IsContact(file.lines[i])}}
              = {k + 1 : k \in {i \in 1..(n - 1) : ~IsContact(file.lines[i])}} \cup {n + 1}
        BY <4>3
      <4>. QED
        BY <4>1, <4>2, <4>5, <4>6
    <3>. QED
      BY <1>2, <2>3, <3>3, <3>4, <3>5 DEF Collected, next, rows
  <2>. QED
    BY <2>5, <2>6
<1>. QED
  BY <1>6, <1>7 DEF next

\* The batch parser's recursion has a value, which is what it has collected.
LEMMA ParseContactsCollects ==
  ASSUME NEW file, file.lines \in Seq(RawLines)
  PROVE  Collected(file, Len(file.lines), ParseContacts(file))
<1>. DEFINE n == Len(file.lines)
            Step(i, result) == ParseLine(result, file.lines[i])
            Meant(f) == [i \in 0..n |-> IF i = 0 THEN NothingParsed ELSE Step(i, f[i - 1])]
            parsed == CHOOSE f : f = Meant(f)
<1>0. n \in Nat /\ \A i \in 1..n : file.lines[i] \in RawLines
  OBVIOUS
<1>. HIDE DEF n
<1>1. NothingParsed \in Results
  BY NothingCollected DEF Collected
<1>2. \E f : f = Meant(f)
  <2>. DEFINE step == [p \in (1..n) \X Results |-> Step(p[1], p[2])]
  <2>1. step \in [(1..n) \X Results -> Results]
    BY <1>0, ParseLineAdds
  <2>2. \A i \in 1..n : \A result \in Results : step[<<i, result>>] = Step(i, result)
    OBVIOUS
  <2>. HIDE DEF step
  <2>3. PICK f \in [0..n -> Results] : f[0] = NothingParsed
                                       /\ \A i \in 1..n : f[i] = step[<<i, f[i - 1]>>]
    <3>1. n \in Nat
      BY <1>0
    <3>. QED
      BY ONLY <1>1, <2>1, <3>1, Recursion
  <2>4. ASSUME NEW i \in 0..n
        PROVE  f[i] = IF i = 0 THEN NothingParsed ELSE Step(i, f[i - 1])
    <3>1. CASE i = 0
      BY <2>3, <3>1
    <3>2. CASE i # 0
      <4>1. i \in 1..n /\ i - 1 \in 0..n
        BY <1>0, <3>2
      <4>. QED
        BY <2>2, <2>3, <3>2, <4>1
    <3>. QED
      BY <3>1, <3>2
  <2>5. f = Meant(f)
    BY <2>3, <2>4
  <2>. QED
    BY <2>5
<1>3. parsed = Meant(parsed)
  BY <1>2
<1>4. ParseContacts(file) = parsed[n]
  BY DEF ParseContacts, n
<1>. HIDE DEF parsed
<1>5. parsed[0] = NothingParsed /\ \A i \in 1..n : parsed[i] = Step(i, parsed[i - 1])
  BY <1>0, <1>3
<1>. DEFINE S == {i \in 0..n : Collected(file, i, parsed[i])}
<1>6. 0 \in S
  BY <1>0, <1>5, NothingCollected
<1>7. \A i \in 1..n : i - 1 \in S => i \in S
  <2>. TAKE i \in 1..n
  <2>. HAVE i - 1 \in S
  <2>1. Collected(file, i, Step(i, parsed[i - 1]))
    BY OneLineMore DEF n
  <2>. QED
    BY <1>5, <2>1
<1>. HIDE DEF S
<1>8. n \in S
  <2>1. \A i \in 0..n : i \in S
    BY <1>0, <1>6, <1>7, UpTo
  <2>. QED
    BY <1>0, <2>1
<1>. QED
  BY <1>4, <1>8 DEF S, n

\* On any list of records the streaming parser yields the contacts that the
\* batch parser calls valid, and the batch parser accounts for every record
\* that is not blank, as a contact or as an error. That an error has its line
\* right is said of files without blank lines only: after one, the enumeration
\* of parser.py:45-47 is behind.
THEOREM ParsersCollectTheSame ==
  ASSUME NEW file, file.lines \in Seq(RawLines)
  PROVE  SameContacts(file)
<1>. DEFINE n == Len(file.lines)
            result == ParseContacts(file)
            rows == RowsUpTo(file, n)
<1>1. Collected(file, n, result)
  BY ParseContactsCollects
<1>2. rows = {i \in 1..n : ~file.lines[i].blank} /\ DOMAIN file.lines = 1..n
  BY DEF RowsUpTo
<1>3. IterValidContacts(file) = {Contact(file.lines[k]) : k \in {i \in rows : IsContact(file.lines[i])}}
  BY <1>2 DEF IterValidContacts, ToSet
<1>. HIDE DEF result, n
<1>4. IterValidContacts(file) = ToSet(result.valid)
  BY <1>1, <1>3 DEF Collected
<1>5. Cardinality({i \in 1..n : ~file.lines[i].blank}) = Len(result.valid) + Len(result.errors)
  BY <1>1, <1>2 DEF Collected
<1>6. (\A i \in 1..n : ~file.lines[i].blank) =>
          {e.line : e \in ToSet(result.errors)}
            = {i + 1 : i \in {k \in 1..n : ~IsContact(file.lines[k])}}
  <2>1. (\A i \in 1..n : ~file.lines[i].blank) => rows = 1..n
    BY <1>2
  <2>. QED
    BY <1>1, <2>1 DEF Collected
<1>. QED
  BY <1>4, <1>5, <1>6 DEF SameContacts, LinesAreRight, result, n
=============================================================================
