----------------------------- MODULE NumberingProofs -----------------------------
(***************************************************************************)
(* Theorems about Numbering that hold for every number of ranges, months,  *)
(* collections, administrators and requests.                               *)
(***************************************************************************)
EXTENDS Numbering, FiniteSetTheorems, TLAPS

-----------------------------------------------------------------------------
(* The inductive invariant *)

Bill == [row: Rows, n: Nat, month: Months, own: Prefixes, width: SUBSET Tens]
Waiting == {NoOpening} \cup [on: {TRUE}, ended: {0} \cup Rows]
Task ==
  [step: {"marked", "locked"}, row: {0} \cup Rows, ask: Request, marks: SUBSET Rows]

\* A row that is not there yet is as it will be found, so that nothing was numbered with it.
Untouched == \A r \in Rows : rows[r].st = "none" => rows[r] = NoCorrelativo

\* What an administrator is to write was compared, and a range that is created is whole.
Asked ==
  \A a \in Administrators : switch[a].step # "none" =>
    /\ ~Refused(switch[a].ask)
    /\ switch[a].row = 0 => Complete(switch[a].ask)

Begun == \A r \in Rows : rows[r].free => rows[r].first <= rows[r].next

\* What holds whatever is made active at the same time.
Book == NumberingTypeOK /\ RangesAccounted /\ Begun /\ Untouched /\ Asked

OneInForce == \A p, q \in InForce : p = q

\* A collection that opens a range ends the one in force, or will be refused because
\* another one took the first number.
OpeningsReplace ==
  \A t \in Opening : Taken(Opened("AUTO-")) \/ InForce \subseteq {opening[t].ended}

\* An administrator who holds the rows ends whatever is in force.
SwitchesReplace ==
  \A a \in Switching : InForce \subseteq switch[a].marks \cup {switch[a].row}
SwitchesAlone == (\A a, b \in Switching : a = b) /\ (Switching # {} => Opening = {})

Control == OneInForce /\ OpeningsReplace /\ SwitchesReplace /\ SwitchesAlone

-----------------------------------------------------------------------------
(* Facts about rows and numbers *)

LEMMA Sorts ==
  /\ Rows \subseteq Nat /\ Months \subseteq Nat /\ 0..MaxMonth \subseteq Nat
  /\ 0 \notin Rows /\ Months \subseteq 0..MaxMonth
  BY NumberingAssumption DEF Rows, Months

LEMMA Types ==
  NumberingTypeOK <=>
    /\ rows \in [Rows -> Correlativo] /\ bills \subseteq Bill /\ skipped \in [Rows -> SUBSET Nat]
    /\ opening \in [Collectors -> Waiting]
    /\ switch \in [Administrators -> {NoSwitch} \cup Task]
    /\ asked \in 0..MaxAsked /\ month \in Months
  BY DEF NumberingTypeOK, Bill, Waiting, Task

LEMMA RowShape ==
  ASSUME NEW row \in Correlativo
  PROVE  /\ row.st \in {"none", "ACTIVO", "AGOTADO", "VENCIDO", "deleted"}
         /\ row.start \in Nat /\ row.end \in Nat /\ row.next \in Nat /\ row.first \in Nat
         /\ row.until \in 0..MaxMonth /\ row.until \in Nat /\ row.own \in Prefixes
         /\ row.resolution \in Resolutions /\ row.free \in BOOLEAN
  BY Sorts DEF Correlativo

LEMMA TaskShape ==
  /\ NoSwitch.step = "none"
  /\ \A w \in Task : /\ w.step \in {"marked", "locked"} /\ w.step # "none"
                     /\ w.row \in {0} \cup Rows /\ w.ask \in Request /\ w.marks \subseteq Rows
  BY DEF NoSwitch, Task

LEMMA OpeningShape ==
  ASSUME NEW w \in Waiting
  PROVE  w.on => w.ended \in {0} \cup Rows
<1>1. w = NoOpening \/ w \in [on: {TRUE}, ended: {0} \cup Rows]
  BY DEF Waiting
<1>2. ~NoOpening.on
  BY DEF NoOpening
<1> QED
  BY <1>1, <1>2

LEMMA NoRowIsOne ==
  /\ NoCorrelativo \in Correlativo /\ NoCorrelativo.st = "none" /\ NoCorrelativo.free
  /\ NoCorrelativo.start = 1 /\ NoCorrelativo.first = 1 /\ NoCorrelativo.next = 1
  /\ NoCorrelativo.end = 0 /\ NoCorrelativo.until = 0
  BY NumberingAssumption DEF NoCorrelativo, Correlativo, Resolutions

\* A range that nobody renumbered or made smaller is in its limits.
Sound(row) ==
  row.free => row.start <= row.first /\ row.first <= row.next /\ row.next <= row.end + 1

\* What was numbered with the old row can be numbered with the new one.
Keeps(old, new) ==
  new.free =>
    /\ old.free /\ old.until <= new.until
    /\ new.first..(new.next - 1) = old.first..(old.next - 1)
    /\ new.start <= new.first /\ new.first <= new.next /\ new.next <= new.end + 1

\* A row whose status changes keeps its numbers.
LEMMA Restated ==
  ASSUME NEW row \in Correlativo, Sound(row),
         NEW st \in {"none", "ACTIVO", "AGOTADO", "VENCIDO", "deleted"}
  PROVE  LET new == [row EXCEPT !.st = st] IN
         new \in Correlativo /\ new.st = st /\ Keeps(row, new)
<1>1. PICK new : new = [row EXCEPT !.st = st]
  OBVIOUS
<1>2. /\ new \in Correlativo /\ new.st = st /\ new.start = row.start /\ new.end = row.end
      /\ new.next = row.next /\ new.until = row.until /\ new.free = row.free
      /\ new.first = row.first
  BY <1>1 DEF Correlativo
<1>3. Keeps(row, new)
  BY <1>2, RowShape DEF Keeps, Sound
<1> QED
  BY <1>1, <1>2, <1>3

\* Taking a number leaves the range as it is, but for its next number.
LEMMA AdvancedRow ==
  ASSUME NEW row \in Correlativo, row.st = "ACTIVO"
  PROVE  /\ Advanced(row) \in Correlativo /\ Advanced(row).next = row.next + 1
         /\ Advanced(row).st \in {"ACTIVO", "AGOTADO"} /\ Advanced(row).first = row.first
         /\ Advanced(row).start = row.start /\ Advanced(row).end = row.end
         /\ Advanced(row).until = row.until /\ Advanced(row).free = row.free
<1> DEFINE n == row.next + 1
           st == IF row.next + 1 > row.end THEN "AGOTADO" ELSE row.st
<1>1. n \in Nat /\ st \in {"ACTIVO", "AGOTADO"}
  BY DEF Correlativo
<1>2. Advanced(row) = [row EXCEPT !.next = n, !.st = st]
  BY DEF Advanced
<1>3. n = row.next + 1
  OBVIOUS
<1> HIDE DEF n, st
<1> QED
  BY <1>1, <1>2, <1>3 DEF Correlativo

\* The range that a collection opens.
LEMMA OpenedRow ==
  ASSUME NumberingTypeOK, NEW resolution \in Resolutions
  PROVE  LET row == Opened(resolution) IN
         /\ row \in Correlativo /\ row.st = "ACTIVO" /\ row.free
         /\ row.start = ConfigRange.start /\ row.first = ConfigRange.start
         /\ row.next = ConfigRange.start /\ row.end = ConfigRange.end /\ row.until = month
         /\ row.own = Plain
         /\ ConfigRange.start \in Nat /\ ConfigRange.end \in Nat
         /\ ConfigRange.start <= ConfigRange.end
<1>1. /\ ConfigRange.start \in Nat /\ ConfigRange.end \in Nat /\ Plain \in Prefixes
      /\ ConfigRange.start <= ConfigRange.end
  BY NumberingAssumption DEF NumberRange
<1>2. month \in 0..MaxMonth
  BY Types, Sorts
<1> QED
  BY <1>1, <1>2 DEF Opened, MonthEnd, Correlativo

\* It is the same for every resolution, as far as numbers go.
LEMMA OpenedTaken ==
  \A a, b : Taken(Opened(a)) <=> Taken(Opened(b))
  BY DEF Taken, Opened

\* A range that an administrator creates begins in its limits.
LEMMA CreatedRow ==
  ASSUME NEW p \in Request, ~Refused(p), Complete(p), NEW st \in {"ACTIVO", "AGOTADO", "VENCIDO"}
  PROVE  /\ Created(p, st) \in Correlativo /\ Created(p, st).st = st
         /\ Keeps(NoCorrelativo, Created(p, st))
<1> DEFINE n == Given(p.next, p.start)
           own == Given(p.own, Plain)
<1>1. /\ p.start \in Nat /\ p.end \in Nat /\ p.next \in Nat /\ p.until \in 0..MaxMonth
      /\ p.until \in Nat /\ p.own \in {NotGiven} \cup Prefixes /\ p.resolution \in Resolutions
  BY Sorts DEF Request, Complete
<1>2. n \in Nat /\ own \in Prefixes /\ p.start <= n /\ n <= p.end + 1
  <2>1. own \in Prefixes
    BY <1>1, NumberingAssumption DEF Given
  <2>2. p.start <= p.end /\ (p.next # NotGiven => p.start <= p.next /\ p.next <= p.end + 1)
    <3>1. p.start # NotGiven /\ p.end # NotGiven
      BY DEF Complete
    <3>2. /\ ~(p.end < p.start)
          /\ p.next # NotGiven => ~(p.next < p.start) /\ ~(p.next > p.end + 1)
      BY <3>1 DEF Refused
    <3> QED
      BY <1>1, <3>2
  <2> QED
    BY <1>1, <2>1, <2>2 DEF Given
<1>3. Created(p, st) =
        [st |-> st, start |-> p.start, end |-> p.end, next |-> n, until |-> p.until,
         own |-> own, resolution |-> p.resolution, first |-> n, free |-> TRUE]
  BY DEF Created
<1> HIDE DEF n, own
<1>4. /\ Created(p, st) \in Correlativo /\ Created(p, st).st = st
  BY <1>1, <1>2, <1>3 DEF Correlativo
<1>5. n..(n - 1) = NoCorrelativo.first..(NoCorrelativo.next - 1)
  BY <1>2, NoRowIsOne
<1>6. Keeps(NoCorrelativo, Created(p, st))
  BY <1>1, <1>2, <1>3, <1>5, NoRowIsOne DEF Keeps
<1> QED
  BY <1>4, <1>6

\* A range that an administrator changes keeps its numbers, or is no longer accounted for.
LEMMA PatchedRow ==
  ASSUME NEW row \in Correlativo, Sound(row), NEW p \in Request,
         NEW st \in {"none", "ACTIVO", "AGOTADO", "VENCIDO", "deleted"}
  PROVE  /\ Patched(row, p, st) \in Correlativo /\ Patched(row, p, st).st = st
         /\ Keeps(row, Patched(row, p, st))
<1> DEFINE start == Given(p.start, row.start)
           end == Given(p.end, row.end)
           next == Given(p.next, row.next)
           until == Given(p.until, row.until)
           own == Given(p.own, row.own)
           resolution == IF p.resolution = "not given" THEN row.resolution ELSE p.resolution
           widened == next = row.next /\ start <= row.start /\ row.end <= end /\ row.until <= until
           free == row.free /\ widened
<1>1. /\ row.start \in Nat /\ row.end \in Nat /\ row.next \in Nat /\ row.first \in Nat
      /\ row.until \in 0..MaxMonth /\ row.own \in Prefixes /\ row.resolution \in Resolutions
      /\ row.free \in BOOLEAN
  BY RowShape
<1>2. /\ p.start \in Nat /\ p.end \in Nat /\ p.next \in Nat /\ p.until \in 0..MaxMonth
      /\ p.own \in {NotGiven} \cup Prefixes
      /\ p.resolution \in {"not given"} \cup Resolutions
  BY DEF Request
<1>3. /\ start \in Nat /\ end \in Nat /\ next \in Nat /\ until \in 0..MaxMonth
      /\ own \in Prefixes /\ resolution \in Resolutions
  BY <1>1, <1>2 DEF Given, NotGiven
<1>4. free \in BOOLEAN /\ (free => row.free /\ widened)
  BY <1>1
<1>5. widened => next = row.next /\ start <= row.start /\ row.end <= end /\ row.until <= until
  OBVIOUS
<1>6. Patched(row, p, st) =
        [st |-> st, start |-> start, end |-> end, next |-> next, until |-> until, own |-> own,
         resolution |-> resolution, first |-> row.first, free |-> free]
  BY DEF Patched
<1> HIDE DEF start, end, next, until, own, resolution, widened, free
<1>7. Patched(row, p, st) \in Correlativo /\ Patched(row, p, st).st = st
  BY <1>1, <1>3, <1>4, <1>6 DEF Correlativo
<1>8. Keeps(row, Patched(row, p, st))
  <2>1. SUFFICES ASSUME free
                 PROVE  /\ row.free /\ row.until <= until /\ next = row.next
                        /\ start <= row.first /\ row.first <= next /\ next <= end + 1
    BY <1>6 DEF Keeps
  <2>2. row.start <= row.first /\ row.first <= row.next /\ row.next <= row.end + 1
    BY <1>4, <2>1 DEF Sound
  <2> QED
    BY <1>1, <1>3, <1>4, <1>5, <2>1, <2>2
<1> QED
  BY <1>7, <1>8

\* A new invoice adds its number to those of its row.
LEMMA NumbersGrow ==
  ASSUME NEW b, bills' = bills \cup {b}, NEW r
  PROVE  NumbersOf(r)' = IF b.row = r THEN NumbersOf(r) \cup {b.n} ELSE NumbersOf(r)
  BY DEF NumbersOf

LEMMA NumbersStay ==
  ASSUME bills' = bills
  PROVE  \A r : NumbersOf(r)' = NumbersOf(r)
  BY DEF NumbersOf

LEMMA BookRows ==
  ASSUME Book
  PROVE  \A r \in Rows : rows[r] \in Correlativo /\ Sound(rows[r])
  BY Types DEF Book, Begun, RangesAccounted, Sound

\* Nothing is numbered with a row that is not there.
LEMMA NothingBooked ==
  ASSUME Book, NEW r \in Rows, rows[r].st = "none"
  PROVE  /\ rows[r] = NoCorrelativo /\ NumbersOf(r) = {} /\ skipped[r] = {}
         /\ \A b \in bills : b.row # r
<1>1. rows[r] = NoCorrelativo
  BY DEF Book, Untouched
<1>2. NumbersOf(r) \cup skipped[r] = {}
  BY <1>1, NoRowIsOne DEF Book, RangesAccounted
<1> QED
  BY <1>1, <1>2 DEF NumbersOf

-----------------------------------------------------------------------------
(* The accounts of the ranges *)

\* A step that numbers nothing keeps the accounts when each row keeps its numbers.
LEMMA BookKept ==
  ASSUME Book, UNCHANGED <<bills, skipped>>, rows' \in [Rows -> Correlativo],
         month' \in Months, opening' \in [Collectors -> Waiting], asked' \in 0..MaxAsked,
         switch' \in [Administrators -> {NoSwitch} \cup Task], Asked',
         \A q \in Rows : rows'[q] = rows[q] \/ (rows'[q].st # "none" /\ Keeps(rows[q], rows'[q]))
  PROVE  Book'
<1>1. NumberingTypeOK'
  BY Types DEF Book, NumberingTypeOK, Bill, Waiting, Task
<1>2. RangesAccounted'
  <2> SUFFICES ASSUME NEW r \in Rows, rows'[r].free
               PROVE  /\ NumbersOf(r)' \cup skipped[r] = rows'[r].first..(rows'[r].next - 1)
                      /\ NumbersOf(r)' \cap skipped[r] = {}
                      /\ rows'[r].start <= rows'[r].first /\ rows'[r].next <= rows'[r].end + 1
                      /\ \A b \in bills : b.row = r => b.month <= rows'[r].until
    BY DEF RangesAccounted
  <2>1. NumbersOf(r)' = NumbersOf(r)
    BY NumbersStay
  <2>2. CASE rows'[r] = rows[r]
    BY <2>1, <2>2 DEF Book, RangesAccounted
  <2>3. CASE rows'[r] # rows[r]
    <3>1. /\ rows[r].free /\ rows[r].until <= rows'[r].until
          /\ rows'[r].first..(rows'[r].next - 1) = rows[r].first..(rows[r].next - 1)
          /\ rows'[r].start <= rows'[r].first /\ rows'[r].next <= rows'[r].end + 1
      BY <2>3 DEF Keeps
    <3>2. /\ NumbersOf(r) \cup skipped[r] = rows[r].first..(rows[r].next - 1)
          /\ NumbersOf(r) \cap skipped[r] = {}
          /\ \A b \in bills : b.row = r => b.month <= rows[r].until
      BY <3>1 DEF Book, RangesAccounted
    <3>3. rows[r].until \in Nat /\ rows'[r].until \in Nat
      BY BookRows, RowShape
    <3>4. \A b \in bills : b.month \in Nat
      BY Types, Sorts DEF Book, Bill
    <3>5. \A b \in bills : b.row = r => b.month <= rows'[r].until
      BY <3>1, <3>2, <3>3, <3>4
    <3> QED
      BY <2>1, <3>1, <3>2, <3>5
  <2> QED
    BY <2>2, <2>3
<1>3. Untouched'
  BY DEF Book, Untouched
<1>4. Begun'
  BY DEF Book, Begun, Keeps
<1> QED
  BY <1>1, <1>2, <1>3, <1>4 DEF Book

\* A number is taken from a range in force, for an invoice or for nobody.
LEMMA NumberBooked ==
  ASSUME Book, NEW r \in InForce, Usable(r),
         rows' = [rows EXCEPT ![r] = Advanced(@)], UNCHANGED <<opening, switch, asked, month>>,
         \/ bills' = bills \cup {Invoice(r, rows[r])} /\ skipped' = skipped
         \/ bills' = bills /\ skipped' = [skipped EXCEPT ![r] = @ \cup {rows[r].next}]
  PROVE  /\ Book' /\ \A q \in Rows : rows'[q] = IF q = r THEN Advanced(rows[r]) ELSE rows[q]
         /\ Advanced(rows[r]).st \in {"ACTIVO", "AGOTADO"}
<1> DEFINE n == rows[r].next
           first == rows[r].first
<1>0. r \in Rows /\ rows[r].st = "ACTIVO" /\ Sound(rows[r])
  BY BookRows DEF InForce
<1>1. /\ rows[r] \in Correlativo /\ n \in Nat /\ first \in Nat
      /\ rows[r].end \in Nat /\ n <= rows[r].end /\ month <= rows[r].until
      /\ rows[r].until \in Nat /\ rows[r].own \in Prefixes
  BY <1>0, BookRows, RowShape DEF Usable
<1>2. /\ Advanced(rows[r]) \in Correlativo /\ Advanced(rows[r]).next = n + 1
      /\ Advanced(rows[r]).st \in {"ACTIVO", "AGOTADO"} /\ Advanced(rows[r]).first = first
      /\ Advanced(rows[r]).start = rows[r].start /\ Advanced(rows[r]).end = rows[r].end
      /\ Advanced(rows[r]).until = rows[r].until /\ Advanced(rows[r]).free = rows[r].free
  BY <1>0, <1>1, AdvancedRow
<1>3. rows \in [Rows -> Correlativo] /\ skipped \in [Rows -> SUBSET Nat] /\ month \in Months
      /\ bills \subseteq Bill
  BY Types DEF Book
<1>4. \A q \in Rows : rows'[q] = IF q = r THEN Advanced(rows[r]) ELSE rows[q]
  BY <1>0, <1>3
<1>5. /\ Invoice(r, rows[r]).row = r /\ Invoice(r, rows[r]).n = n
      /\ Invoice(r, rows[r]).month = month /\ Invoice(r, rows[r]) \in Bill
  BY <1>0, <1>1, <1>3 DEF Invoice, Bill, Digits
<1>6. NumberingTypeOK'
  <2>1. rows' \in [Rows -> Correlativo]
    BY <1>2, <1>3
  <2>2. skipped' \in [Rows -> SUBSET Nat]
    BY <1>1, <1>3
  <2>3. bills' \subseteq Bill
    BY <1>3, <1>5
  <2> QED
    BY <2>1, <2>2, <2>3, Types DEF Book, NumberingTypeOK, Bill
<1>7. RangesAccounted'
  <2> SUFFICES ASSUME NEW q \in Rows, rows'[q].free
               PROVE  /\ NumbersOf(q)' \cup skipped'[q] = rows'[q].first..(rows'[q].next - 1)
                      /\ NumbersOf(q)' \cap skipped'[q] = {}
                      /\ rows'[q].start <= rows'[q].first /\ rows'[q].next <= rows'[q].end + 1
                      /\ \A b \in bills' : b.row = q => b.month <= rows'[q].until
    BY DEF RangesAccounted
  <2>1. rows[q].free
    BY <1>2, <1>4
  <2>2. /\ NumbersOf(q) \cup skipped[q] = rows[q].first..(rows[q].next - 1)
        /\ NumbersOf(q) \cap skipped[q] = {}
        /\ rows[q].start <= rows[q].first /\ rows[q].next <= rows[q].end + 1
        /\ \A b \in bills : b.row = q => b.month <= rows[q].until
    BY <2>1 DEF Book, RangesAccounted
  <2>3. CASE q # r
    <3>1. NumbersOf(q)' = NumbersOf(q)
      BY <2>3, <1>5, NumbersGrow, NumbersStay
    <3>2. skipped'[q] = skipped[q]
      BY <2>3, <1>3
    <3>3. \A b \in bills' : b.row = q => b \in bills
      BY <2>3, <1>5
    <3> QED
      BY <2>2, <2>3, <3>1, <3>2, <3>3, <1>4
  <2>4. CASE q = r
    <3>1. rows'[r].first = first /\ rows'[r].next = n + 1
      BY <1>0, <1>2, <1>4
    <3>2. first <= n
      BY <1>0, <2>1, <2>4 DEF Sound
    <3>3. first..((n + 1) - 1) = (first..(n - 1)) \cup {n} /\ n \notin first..(n - 1)
      BY <1>1, <3>2
    <3>4. \/ NumbersOf(r)' = NumbersOf(r) \cup {n} /\ skipped'[r] = skipped[r]
          \/ NumbersOf(r)' = NumbersOf(r) /\ skipped'[r] = skipped[r] \cup {n}
      BY <1>0, <1>3, <1>5, NumbersGrow, NumbersStay
    <3>5. \A b \in bills' : b.row = r => b.month <= rows'[r].until
      BY <1>0, <1>1, <1>2, <1>4, <1>5, <2>2, <2>4
    <3>6. rows'[r].start <= first /\ n + 1 <= rows'[r].end + 1
      BY <1>0, <1>1, <1>2, <1>4, <2>2, <2>4
    <3> HIDE DEF n, first
    <3>7. NumbersOf(r) \cup skipped[r] = first..(n - 1)
      BY <2>2, <2>4 DEF n, first
    <3> QED
      BY <2>2, <2>4, <3>1, <3>3, <3>4, <3>5, <3>6, <3>7
  <2> QED
    BY <2>3, <2>4
<1>8. Untouched'
  BY <1>0, <1>2, <1>4 DEF Untouched, Book
<1>9. Asked'
  BY DEF Asked, Book
<1>10. Begun'
  <2>1. rows[r].free => first <= n + 1
    BY <1>0, <1>1 DEF Sound
  <2> QED
    BY <1>0, <1>2, <1>4, <2>1 DEF Begun, Book
<1> QED
  BY <1>2, <1>4, <1>6, <1>7, <1>8, <1>9, <1>10 DEF Book

\* A collection opens a range and takes its first number.
LEMMA OpeningBooked ==
  ASSUME Book, NEW t \in Collectors, NEW r \in Rows, CommitOpening(t, r)
  PROVE  /\ Book' /\ rows'[r].st \in {"ACTIVO", "AGOTADO"}
         /\ \A q \in Rows : q # r =>
              rows'[q].st = IF q = opening[t].ended THEN "VENCIDO" ELSE rows[q].st
         /\ Taken(Opened("AUTO-"))'
<1>1. PICK resolution \in Resolutions :
        LET row == Opened(resolution) IN
        /\ rows' = [q \in Rows |-> IF q = r THEN Advanced(row)
                                   ELSE IF q = opening[t].ended
                                     THEN [rows[q] EXCEPT !.st = "VENCIDO"]
                                   ELSE rows[q]]
        /\ bills' = bills \cup {Invoice(r, row)}
  BY DEF CommitOpening
<1> DEFINE row == Opened(resolution)
           new == Advanced(row)
           b == Invoice(r, row)
<1>2. /\ opening' = [opening EXCEPT ![t] = NoOpening] /\ UNCHANGED <<skipped, switch, asked, month>>
      /\ rows[r].st = "none"
  BY DEF CommitOpening, Fresh, Used
<1>3. /\ row \in Correlativo /\ row.st = "ACTIVO" /\ row.free /\ row.start = row.first
      /\ row.next = row.first /\ row.until = month /\ row.own = Plain
      /\ row.first \in Nat /\ row.end \in Nat /\ row.first <= row.end
  BY OpenedRow DEF Book
<1>4. /\ new \in Correlativo /\ new.next = row.first + 1 /\ new.st \in {"ACTIVO", "AGOTADO"}
      /\ new.start = row.first /\ new.end = row.end /\ new.until = month /\ new.free
      /\ new.first = row.first
  BY <1>3, AdvancedRow
<1>5. month \in Months /\ month \in Nat
  BY Types, Sorts DEF Book
<1>6. b.row = r /\ b.n = row.first /\ b.month = month /\ b \in Bill
  BY <1>3, <1>5, RowShape DEF Invoice, Bill, Digits
<1>7. Taken(Opened("AUTO-"))'
  <2>1. b.month = month /\ b.own = row.own /\ b.n = row.next /\ b.width = Digits(row.end)
    BY DEF Invoice
  <2>2. b \in bills' /\ month' = month
    BY <1>1, <1>2
  <2>3. row.own = Opened("AUTO-").own /\ row.next = Opened("AUTO-").next
        /\ row.end = Opened("AUTO-").end
    BY DEF Opened
  <2>4. UNCHANGED <<Opened("AUTO-").own, Opened("AUTO-").next, Opened("AUTO-").end>>
    BY DEF Opened
  <2> HIDE DEF row, b
  <2> QED
    BY <2>1, <2>2, <2>3, <2>4 DEF Taken
<1>8. \A q \in Rows : rows'[q] = IF q = r THEN new
                                 ELSE IF q = opening[t].ended THEN [rows[q] EXCEPT !.st = "VENCIDO"]
                                 ELSE rows[q]
  BY <1>1
<1>9. bills' = bills \cup {b} /\ rows' = [q \in Rows |-> rows'[q]]
  BY <1>1
<1> HIDE DEF row, new, b
<1>10. ASSUME NEW q \in Rows, q # r
       PROVE  /\ rows'[q].st = IF q = opening[t].ended THEN "VENCIDO" ELSE rows[q].st
              /\ rows'[q] \in Correlativo
              /\ rows'[q] = rows[q] \/ (rows'[q].st = "VENCIDO" /\ Keeps(rows[q], rows'[q]))
  <2>1. rows[q] \in Correlativo /\ Sound(rows[q])
    BY BookRows
  <2>2. PICK ended : ended = [rows[q] EXCEPT !.st = "VENCIDO"]
    OBVIOUS
  <2>3. ended \in Correlativo /\ ended.st = "VENCIDO" /\ Keeps(rows[q], ended)
    BY <2>1, <2>2, Restated
  <2>4. rows'[q] = IF q = opening[t].ended THEN ended ELSE rows[q]
    BY <1>8, <1>10, <2>2
  <2> QED
    BY <2>1, <2>3, <2>4
<1>11. rows' \in [Rows -> Correlativo]
  BY <1>4, <1>8, <1>9, <1>10
<1>12. NumberingTypeOK'
  <2>1. opening' \in [Collectors -> Waiting] /\ bills' \subseteq Bill
    BY <1>2, <1>6, <1>9, Types DEF Book, Waiting
  <2>2. /\ skipped' \in [Rows -> SUBSET Nat] /\ switch' \in [Administrators -> {NoSwitch} \cup Task]
        /\ asked' \in 0..MaxAsked /\ month' \in Months
    BY <1>2, Types DEF Book
  <2> QED
    BY <1>11, <2>1, <2>2 DEF NumberingTypeOK, Bill, Waiting, Task
<1>13. NumbersOf(r) = {} /\ skipped[r] = {} /\ \A d \in bills : d.row # r
  BY <1>2, NothingBooked
<1>18. /\ rows'[r].first = row.first /\ rows'[r].next = row.first + 1
       /\ rows'[r].start = row.first /\ rows'[r].end = row.end /\ rows'[r].until = month
  <2>1. rows'[r] = new
    BY <1>8
  <2> QED
    BY <1>4, <2>1
<1>14. RangesAccounted'
  <2> SUFFICES ASSUME NEW q \in Rows, rows'[q].free
               PROVE  /\ NumbersOf(q)' \cup skipped[q] = rows'[q].first..(rows'[q].next - 1)
                      /\ NumbersOf(q)' \cap skipped[q] = {}
                      /\ rows'[q].start <= rows'[q].first /\ rows'[q].next <= rows'[q].end + 1
                      /\ \A d \in bills' : d.row = q => d.month <= rows'[q].until
    BY <1>2 DEF RangesAccounted
  <2>1. CASE q = r
    <3>1. NumbersOf(r)' = {row.first} /\ (row.first)..((row.first + 1) - 1) = {row.first}
      BY <1>3, <1>6, <1>9, <1>13, NumbersGrow
    <3>2. \A d \in bills' : d.row = q => d.month <= month
      BY <1>5, <1>6, <1>9, <1>13, <2>1
    <3> QED
      BY <1>3, <1>13, <1>18, <2>1, <3>1, <3>2
  <2>2. CASE q # r
    <3>1. NumbersOf(q)' = NumbersOf(q)
      BY <1>6, <1>9, <2>2, NumbersGrow
    <3>2. \A d \in bills' : d.row = q => d \in bills
      BY <1>6, <1>9, <2>2
    <3>3. CASE rows'[q] = rows[q]
      BY <3>1, <3>2, <3>3 DEF Book, RangesAccounted
    <3>4. CASE Keeps(rows[q], rows'[q])
      <4>1. /\ rows[q].free /\ rows[q].until <= rows'[q].until
            /\ rows'[q].first..(rows'[q].next - 1) = rows[q].first..(rows[q].next - 1)
            /\ rows'[q].start <= rows'[q].first /\ rows'[q].next <= rows'[q].end + 1
        BY <3>4 DEF Keeps
      <4>2. rows[q].until \in Nat /\ rows'[q].until \in Nat /\ \A d \in bills : d.month \in Nat
        BY <1>11, BookRows, RowShape, Types, Sorts DEF Book, Bill
      <4>3. /\ NumbersOf(q) \cup skipped[q] = rows[q].first..(rows[q].next - 1)
            /\ NumbersOf(q) \cap skipped[q] = {}
            /\ \A d \in bills : d.row = q => d.month <= rows[q].until
        BY <4>1 DEF Book, RangesAccounted
      <4>4. \A d \in bills' : d.row = q => d.month <= rows'[q].until
        BY <3>2, <4>1, <4>2, <4>3
      <4> QED
        BY <3>1, <4>1, <4>3, <4>4
    <3> QED
      BY <1>10, <2>2, <3>3, <3>4
  <2> QED
    BY <2>1, <2>2
<1>15. Untouched'
  BY <1>4, <1>8, <1>10 DEF Untouched, Book
<1>16. Begun'
  <2> SUFFICES ASSUME NEW q \in Rows, rows'[q].free
               PROVE  rows'[q].first <= rows'[q].next
    BY DEF Begun
  <2>1. CASE q = r
    BY <1>3, <1>18, <2>1
  <2>2. CASE q # r
    BY <1>10, <2>2 DEF Keeps, Begun, Book
  <2> QED
    BY <2>1, <2>2
<1>17. Asked'
  BY <1>2 DEF Asked, Book
<1> QED
  BY <1>4, <1>7, <1>8, <1>10, <1>12, <1>14, <1>15, <1>16, <1>17 DEF Book

LEMMA BookTypes ==
  ASSUME Book
  PROVE  /\ rows \in [Rows -> Correlativo] /\ month \in Months /\ asked \in 0..MaxAsked
         /\ opening \in [Collectors -> Waiting]
         /\ switch \in [Administrators -> {NoSwitch} \cup Task]
  BY Types DEF Book

\* One more request.
LEMMA AskedMore ==
  ASSUME Book, Ask
  PROVE  asked' \in 0..MaxAsked
  BY Types, NumberingAssumption DEF Book, Ask

\* One row is written.
LEMMA RowBooked ==
  ASSUME Book, NEW r \in Rows, NEW new \in Correlativo, new.st # "none", Keeps(rows[r], new),
         rows' = [rows EXCEPT ![r] = new], Ask, UNCHANGED <<bills, skipped, opening, switch, month>>
  PROVE  Book'
<1>1. \A q \in Rows : rows'[q] = IF q = r THEN new ELSE rows[q]
  BY BookTypes
<1>2. rows' \in [Rows -> Correlativo] /\ asked' \in 0..MaxAsked
  BY BookTypes, AskedMore
<1>3. Asked'
  BY DEF Asked, Book
<1> QED
  BY <1>1, <1>2, <1>3, BookTypes, BookKept

\* A range that is created without being active, changed or deleted.
LEMMA RowChanged ==
  ASSUME Book, NEW r \in Rows, CreateIdle(r) \/ ChangeRow(r) \/ DeleteRow(r)
  PROVE  Book' /\ \A q \in Rows : rows'[q].st = "ACTIVO" => rows[q].st = "ACTIVO"
<1>0. /\ rows[r] \in Correlativo /\ Sound(rows[r])
      /\ rows[r].st \in {"none", "ACTIVO", "AGOTADO", "VENCIDO", "deleted"}
  BY BookRows, RowShape
<1>1. ASSUME NEW new \in Correlativo, new.st # "none", Keeps(rows[r], new),
             rows' = [rows EXCEPT ![r] = new], Ask, new.st = "ACTIVO" => rows[r].st = "ACTIVO",
             UNCHANGED <<bills, skipped, opening, switch, month>>
      PROVE  Book' /\ \A q \in Rows : rows'[q].st = "ACTIVO" => rows[q].st = "ACTIVO"
  BY <1>1, BookTypes, RowBooked
<1>2. CASE CreateIdle(r)
  <2>1. PICK p \in Requests, st \in {"AGOTADO", "VENCIDO"} :
          Complete(p) /\ ~Refused(p) /\ rows' = [rows EXCEPT ![r] = Created(p, st)]
    BY <1>2 DEF CreateIdle
  <2>2. /\ Created(p, st) \in Correlativo /\ Created(p, st).st = st
        /\ Keeps(NoCorrelativo, Created(p, st))
    BY <2>1, NumberingAssumption, CreatedRow
  <2>3. rows[r] = NoCorrelativo
    BY <1>2, NothingBooked DEF CreateIdle, Fresh, Used
  <2> QED
    BY <1>1, <1>2, <2>1, <2>2, <2>3 DEF CreateIdle
<1>3. CASE ChangeRow(r)
  <2>1. PICK p \in Requests, st \in {rows[r].st, "AGOTADO", "VENCIDO"} :
          rows' = [rows EXCEPT ![r] = Patched(rows[r], p, st)]
    BY <1>3 DEF ChangeRow
  <2>2. /\ Patched(rows[r], p, st) \in Correlativo /\ Patched(rows[r], p, st).st = st
        /\ Keeps(rows[r], Patched(rows[r], p, st))
    BY <1>0, NumberingAssumption, PatchedRow
  <2>3. rows[r].st # "none" /\ Ask /\ UNCHANGED <<bills, skipped, opening, switch, month>>
    BY <1>3 DEF ChangeRow, Present, Used
  <2> QED
    BY <1>1, <2>1, <2>2, <2>3
<1>4. CASE DeleteRow(r)
  <2>1. PICK new : new = [rows[r] EXCEPT !.st = "deleted"]
    OBVIOUS
  <2>2. new \in Correlativo /\ new.st = "deleted" /\ Keeps(rows[r], new)
    BY <1>0, <2>1, Restated
  <2>3. /\ rows' = [rows EXCEPT ![r] = new] /\ Ask
        /\ UNCHANGED <<bills, skipped, opening, switch, month>>
    BY <1>4, <2>1 DEF DeleteRow
  <2> QED
    BY <1>1, <2>2, <2>3
<1> QED
  BY <1>2, <1>3, <1>4

\* Steps that write no row.
LEMMA BookStays ==
  ASSUME Book, \/ \E t \in Collectors : BeginOpening(t) \/ FailOpening(t)
               \/ NextMonth
               \/ UNCHANGED numberingVars
  PROVE  Book'
<1>0. ASSUME UNCHANGED <<rows, bills, skipped, switch, asked>>, month' \in Months,
             opening' \in [Collectors -> Waiting]
      PROVE  Book'
  <2>1. Asked'
    BY <1>0 DEF Asked, Book
  <2> QED
    BY <1>0, <2>1, BookTypes, BookKept
<1>1. ASSUME NEW t \in Collectors, BeginOpening(t) \/ FailOpening(t)
      PROVE  Book'
  <2>1. PICK w \in Waiting : opening' = [opening EXCEPT ![t] = w]
    <3>1. CASE BeginOpening(t)
      BY <3>1 DEF BeginOpening, InForce, Waiting
    <3>2. CASE FailOpening(t)
      BY <3>2 DEF FailOpening, Waiting
    <3> QED
      BY <1>1, <3>1, <3>2
  <2>2. UNCHANGED <<rows, bills, skipped, switch, asked, month>>
    BY <1>1 DEF BeginOpening, FailOpening
  <2> QED
    BY <1>0, <2>1, <2>2, BookTypes
<1>2. ASSUME NextMonth
      PROVE  Book'
  <2>1. month' \in Months /\ UNCHANGED <<rows, bills, skipped, opening, switch, asked>>
    BY <1>2, BookTypes, NumberingAssumption DEF NextMonth, Months
  <2> QED
    BY <1>0, <2>1, BookTypes
<1>3. CASE UNCHANGED numberingVars
  BY <1>0, <1>3, BookTypes DEF numberingVars
<1> QED
  BY <1>1, <1>2, <1>3

\* The active ranges end.
LEMMA FirstMarked ==
  ASSUME Book, MarkFirst
  PROVE  /\ rows' \in [Rows -> Correlativo]
         /\ \A q \in Rows : /\ rows'[q].st # "ACTIVO"
                            /\ \/ rows'[q] = rows[q]
                               \/ rows'[q].st # "none" /\ Keeps(rows[q], rows'[q])
<1>1. rows' = [q \in Rows |-> IF q \in InForce THEN [rows[q] EXCEPT !.st = "VENCIDO"] ELSE rows[q]]
  BY DEF MarkFirst
<1>2. ASSUME NEW q \in Rows
      PROVE  /\ rows'[q].st # "ACTIVO" /\ rows'[q] \in Correlativo
             /\ rows'[q] = rows[q] \/ (rows'[q].st # "none" /\ Keeps(rows[q], rows'[q]))
  <2>1. rows[q] \in Correlativo /\ Sound(rows[q])
    BY BookRows
  <2>2. PICK new : new = [rows[q] EXCEPT !.st = "VENCIDO"]
    OBVIOUS
  <2>3. new \in Correlativo /\ new.st = "VENCIDO" /\ Keeps(rows[q], new)
    BY <2>1, <2>2, Restated
  <2>4. rows'[q] = IF q \in InForce THEN new ELSE rows[q]
    BY <1>1, <2>2
  <2> QED
    BY <2>1, <2>3, <2>4 DEF InForce
<1> QED
  BY <1>1, <1>2

LEMMA BookMarked ==
  ASSUME Book, NEW a \in Administrators, NEW r \in {0} \cup Rows, BeginActive(a, r)
  PROVE  Book'
<1>1. PICK p \in Requests :
        /\ ~Refused(p) /\ (r = 0 => Complete(p)) /\ (MarkFirst \/ rows' = rows)
        /\ switch' = [switch EXCEPT ![a] = [step |-> "marked", row |-> r, ask |-> p, marks |-> {}]]
  BY DEF BeginActive
<1>2. Ask /\ UNCHANGED <<bills, skipped, opening, month>>
  BY DEF BeginActive
<1>3. PICK w : w = [step |-> "marked", row |-> r, ask |-> p, marks |-> {}]
  OBVIOUS
<1>4. w \in Task /\ w.row = r /\ w.ask = p
  BY <1>3, NumberingAssumption DEF Task
<1>5. switch' = [switch EXCEPT ![a] = w]
  BY <1>1, <1>3
<1>6. /\ switch' \in [Administrators -> {NoSwitch} \cup Task]
      /\ \A b \in Administrators : switch'[b] = IF b = a THEN w ELSE switch[b]
  BY <1>4, <1>5, BookTypes
<1>7. Asked'
  <2> SUFFICES ASSUME NEW b \in Administrators, switch'[b].step # "none"
               PROVE  ~Refused(switch'[b].ask) /\ (switch'[b].row = 0 => Complete(switch'[b].ask))
    BY DEF Asked, Refused, Complete
  <2> QED
    BY <1>1, <1>4, <1>6 DEF Asked, Book
<1>8. /\ rows' \in [Rows -> Correlativo]
      /\ \A q \in Rows : rows'[q] = rows[q] \/ (rows'[q].st # "none" /\ Keeps(rows[q], rows'[q]))
  BY <1>1, FirstMarked, BookTypes
<1> QED
  BY <1>2, <1>6, <1>7, <1>8, AskedMore, BookTypes, BookKept

\* The row that becomes active, and those that end.
LEMMA SwitchBooked ==
  ASSUME Book, NEW a \in Administrators, NEW r \in Rows, CommitSwitch(a, r)
  PROVE  /\ Book'
         /\ \A q \in Rows : q # r /\ rows'[q].st = "ACTIVO" =>
              rows[q].st = "ACTIVO" /\ q \notin switch[a].marks
<1> DEFINE w == switch[a]
           ask == switch[a].ask
           created == switch[a].row = 0
<1>1. /\ w \in Task /\ w.step # "none" /\ ask \in Request /\ w.marks \subseteq Rows
      /\ ~Refused(ask) /\ (created => Complete(ask))
  BY BookTypes, TaskShape DEF CommitSwitch, Asked, Book
<1>2. /\ IF created THEN rows[r].st = "none" ELSE rows[r].st # "none"
      /\ rows' = [q \in Rows |->
           IF q = r THEN IF created THEN Created(ask, "ACTIVO") ELSE Patched(rows[r], ask, "ACTIVO")
           ELSE IF q \in w.marks THEN [rows[q] EXCEPT !.st = "VENCIDO"]
           ELSE rows[q]]
      /\ switch' = [switch EXCEPT ![a] = NoSwitch]
      /\ UNCHANGED <<bills, skipped, opening, asked, month>>
  BY DEF CommitSwitch, Present, Fresh, Used
<1> HIDE DEF w, ask, created
<1>3. rows'[r] \in Correlativo /\ rows'[r].st = "ACTIVO" /\ Keeps(rows[r], rows'[r])
  <2>1. CASE created
    <3>1. rows[r] = NoCorrelativo /\ rows'[r] = Created(ask, "ACTIVO")
      BY <1>2, <2>1, NothingBooked
    <3> QED
      BY <1>1, <2>1, <3>1, CreatedRow
  <2>2. CASE ~created
    <3>1. rows'[r] = Patched(rows[r], ask, "ACTIVO")
      BY <1>2, <2>2
    <3> QED
      BY <1>1, <3>1, BookRows, PatchedRow
  <2> QED
    BY <2>1, <2>2
<1>4. ASSUME NEW q \in Rows, q # r
      PROVE  /\ rows'[q] \in Correlativo
             /\ rows'[q] = rows[q] \/ (rows'[q].st # "none" /\ Keeps(rows[q], rows'[q]))
             /\ rows'[q].st = "ACTIVO" => rows[q].st = "ACTIVO" /\ q \notin w.marks
  <2>1. rows[q] \in Correlativo /\ Sound(rows[q])
    BY BookRows
  <2>2. PICK new : new = [rows[q] EXCEPT !.st = "VENCIDO"]
    OBVIOUS
  <2>3. new \in Correlativo /\ new.st = "VENCIDO" /\ Keeps(rows[q], new)
    BY <2>1, <2>2, Restated
  <2>4. rows'[q] = IF q \in w.marks THEN new ELSE rows[q]
    BY <1>2, <1>4, <2>2
  <2> QED
    BY <2>1, <2>3, <2>4
<1>5. rows' \in [Rows -> Correlativo]
  BY <1>2, <1>3, <1>4
<1>6. /\ switch' \in [Administrators -> {NoSwitch} \cup Task]
      /\ \A b \in Administrators : switch'[b] = NoSwitch \/ switch'[b] = switch[b]
  BY <1>2, BookTypes
<1>7. Asked'
  <2> SUFFICES ASSUME NEW b \in Administrators, switch'[b].step # "none"
               PROVE  ~Refused(switch'[b].ask) /\ (switch'[b].row = 0 => Complete(switch'[b].ask))
    BY DEF Asked, Refused, Complete
  <2>1. switch'[b] = switch[b]
    BY <1>6, TaskShape
  <2> QED
    BY <2>1 DEF Asked, Book
<1>8. \A q \in Rows : rows'[q] = rows[q] \/ (rows'[q].st # "none" /\ Keeps(rows[q], rows'[q]))
  BY <1>3, <1>4
<1>9. Book'
  BY <1>2, <1>5, <1>6, <1>7, <1>8, BookTypes, BookKept
<1> QED
  BY <1>4, <1>9 DEF w

LEMMA BookLocked ==
  ASSUME Book, NEW a \in Administrators, BeginSwitch(a) \/ FailSwitch(a)
  PROVE  Book'
<1>1. PICK w : w = [switch[a] EXCEPT !.step = "locked", !.marks = Others(switch[a].row)]
  OBVIOUS
<1>2. switch' = [switch EXCEPT ![a] = w] \/ switch' = [switch EXCEPT ![a] = NoSwitch]
  BY <1>1 DEF BeginSwitch, FailSwitch
<1>3. switch[a] \in Task /\ switch[a].step # "none"
  BY BookTypes, TaskShape DEF BeginSwitch, FailSwitch
<1>4. w \in Task /\ w.row = switch[a].row /\ w.ask = switch[a].ask
  BY <1>1, <1>3 DEF Task, Others, InForce
<1>5. /\ switch' \in [Administrators -> {NoSwitch} \cup Task]
      /\ \A b \in Administrators :
           switch'[b] = switch[b] \/ (b = a /\ switch'[b] = w) \/ switch'[b] = NoSwitch
  BY <1>2, <1>4, BookTypes
<1>6. Asked'
  <2> SUFFICES ASSUME NEW b \in Administrators, switch'[b].step # "none"
               PROVE  ~Refused(switch'[b].ask) /\ (switch'[b].row = 0 => Complete(switch'[b].ask))
    BY DEF Asked, Refused, Complete
  <2>1. switch'[b] # NoSwitch
    BY TaskShape
  <2>2. switch'[b].row = switch[b].row /\ switch'[b].ask = switch[b].ask /\ switch[b].step # "none"
    BY <1>3, <1>4, <1>5, <2>1
  <2> QED
    BY <2>2 DEF Asked, Book
<1>7. UNCHANGED <<rows, bills, skipped, opening, asked, month>>
  BY DEF BeginSwitch, FailSwitch
<1> QED
  BY <1>5, <1>6, <1>7, BookTypes, BookKept

LEMMA BookNext ==
  ASSUME Book, [NumberingNext]_numberingVars
  PROVE  Book'
<1>1. ASSUME NEW r \in Rows, IssueFrom(r) \/ ConsumeNext(r)
      PROVE  Book'
  <2>1. r \in InForce /\ Usable(r) /\ UNCHANGED <<opening, switch, asked, month>>
        /\ rows' = [rows EXCEPT ![r] = Advanced(@)]
        /\ \/ bills' = bills \cup {Invoice(r, rows[r])} /\ skipped' = skipped
           \/ bills' = bills /\ skipped' = [skipped EXCEPT ![r] = @ \cup {rows[r].next}]
    BY <1>1 DEF IssueFrom, ConsumeNext
  <2> QED
    BY <2>1, NumberBooked
<1> QED
  BY <1>1, OpeningBooked, RowChanged, BookStays, BookMarked, SwitchBooked, BookLocked
     DEF NumberingNext

LEMMA NumberingStarts == NumberingInit => Book
<1> SUFFICES ASSUME NumberingInit
             PROVE  Book
  OBVIOUS
<1>1. /\ rows = [r \in Rows |-> NoCorrelativo] /\ bills = {} /\ skipped = [r \in Rows |-> {}]
      /\ opening = [t \in Collectors |-> NoOpening]
      /\ switch = [a \in Administrators |-> NoSwitch] /\ asked = 0 /\ month = 1
  BY DEF NumberingInit
<1>2. NumberingTypeOK
  <2>1. asked \in 0..MaxAsked /\ month \in Months
    BY <1>1, NumberingAssumption DEF Months
  <2>2. rows \in [Rows -> Correlativo] /\ bills \subseteq Bill /\ skipped \in [Rows -> SUBSET Nat]
    BY <1>1, NoRowIsOne
  <2>3. /\ opening \in [Collectors -> Waiting]
        /\ switch \in [Administrators -> {NoSwitch} \cup Task]
    BY <1>1 DEF Waiting
  <2> QED
    BY <2>1, <2>2, <2>3, Types
<1>3. RangesAccounted
  <2> SUFFICES ASSUME NEW r \in Rows
               PROVE  /\ NumbersOf(r) \cup skipped[r] = rows[r].first..(rows[r].next - 1)
                      /\ NumbersOf(r) \cap skipped[r] = {}
                      /\ rows[r].start <= rows[r].first /\ rows[r].next <= rows[r].end + 1
                      /\ \A b \in bills : b.row = r => b.month <= rows[r].until
    BY DEF RangesAccounted
  <2>1. NumbersOf(r) = {} /\ skipped[r] = {} /\ rows[r] = NoCorrelativo
    BY <1>1 DEF NumbersOf
  <2> QED
    BY <1>1, <2>1, NoRowIsOne
<1>4. Begun /\ Untouched
  BY <1>1, NoRowIsOne DEF Begun, Untouched
<1>5. Asked
  BY <1>1, TaskShape DEF Asked
<1> QED
  BY <1>2, <1>3, <1>4, <1>5 DEF Book

LEMMA BookAlways == NumberingSpec => []Book
<1>1. Book /\ [NumberingNext]_numberingVars => Book'
  BY BookNext
<1> QED
  BY <1>1, NumberingStarts, PTL DEF NumberingSpec

-----------------------------------------------------------------------------
(* One range in force *)

\* A number that was issued this month stays so.
LEMMA TakenStays ==
  ASSUME bills \subseteq bills', month' = month
  PROVE  Taken(Opened("AUTO-")) => Taken(Opened("AUTO-"))'
<1>1. UNCHANGED <<Opened("AUTO-").own, Opened("AUTO-").next, Opened("AUTO-").end>>
  BY DEF Opened
<1> QED
  BY <1>1 DEF Taken

\* Steps that bring no range in force and lock none.
LEMMA ControlKept ==
  ASSUME Control, InForce' \subseteq InForce, bills \subseteq bills', month' = month,
         opening' = opening,
         \A a \in Administrators : switch'[a] = switch[a] \/ switch'[a].step # "locked"
  PROVE  Control'
<1>1. Opening' = Opening /\ Switching' \subseteq Switching
      /\ \A a \in Switching' : switch'[a] = switch[a]
  BY DEF Opening, Switching
<1>2. OpeningsReplace'
  BY <1>1, TakenStays DEF Control, OpeningsReplace
<1>3. SwitchesReplace' /\ SwitchesAlone' /\ OneInForce'
  BY <1>1 DEF Control, SwitchesReplace, SwitchesAlone, OneInForce
<1> QED
  BY <1>2, <1>3 DEF Control

LEMMA ControlOpening ==
  ASSUME SwitchesApart, Book, Control, NEW t \in Collectors,
         BeginOpening(t) \/ FailOpening(t) \/ \E r \in Rows : CommitOpening(t, r)
  PROVE  Control'
<1>1. CASE BeginOpening(t)
  <2>1. Switching = {} /\ UNCHANGED <<rows, bills, switch, month>>
    BY <1>1 DEF BeginOpening
  <2>2. PICK w \in Waiting : w.on /\ InForce \subseteq {w.ended}
                           /\ opening' = [opening EXCEPT ![t] = w]
    BY <1>1 DEF BeginOpening, Waiting, Control, OneInForce, InForce
  <2>3. \A u \in Collectors : opening'[u] = IF u = t THEN w ELSE opening[u]
    BY <2>2, BookTypes
  <2>4. Switching' = {} /\ InForce' = InForce
    BY <2>1 DEF Switching, InForce
  <2>5. OpeningsReplace'
    BY <2>1, <2>2, <2>3, <2>4, TakenStays DEF Control, OpeningsReplace, Opening
  <2>6. SwitchesReplace' /\ SwitchesAlone' /\ OneInForce'
    BY <2>4 DEF Control, SwitchesReplace, SwitchesAlone, OneInForce
  <2> QED
    BY <2>5, <2>6 DEF Control
<1>2. CASE FailOpening(t)
  <2>1. UNCHANGED <<rows, bills, switch, month>> /\ ~NoOpening.on
    BY <1>2 DEF FailOpening, NoOpening
  <2>2. \A u \in Collectors : opening'[u] = IF u = t THEN NoOpening ELSE opening[u]
    BY <1>2, BookTypes DEF FailOpening
  <2>3. Opening' \subseteq Opening /\ (\A u \in Opening' : opening'[u] = opening[u])
    BY <2>1, <2>2 DEF Opening
  <2>4. Switching' = Switching /\ InForce' = InForce
    BY <2>1 DEF Switching, InForce
  <2>5. OpeningsReplace'
    BY <2>1, <2>3, <2>4, TakenStays DEF Control, OpeningsReplace
  <2>6. SwitchesReplace' /\ SwitchesAlone' /\ OneInForce'
    BY <2>1, <2>3, <2>4 DEF Control, SwitchesReplace, SwitchesAlone, OneInForce
  <2> QED
    BY <2>5, <2>6 DEF Control
<1>3. ASSUME NEW r \in Rows, CommitOpening(t, r)
      PROVE  Control'
  <2>1. Taken(Opened("AUTO-"))' /\ UNCHANGED switch
        /\ \A q \in Rows : q # r =>
             rows'[q].st = IF q = opening[t].ended THEN "VENCIDO" ELSE rows[q].st
    BY <1>3, OpeningBooked DEF CommitOpening
  <2>2. t \in Opening
    BY <1>3 DEF CommitOpening, Opening
  <2>3. InForce \subseteq {opening[t].ended}
    <3>1. ~Taken(Opened("AUTO-"))
      BY <1>3, OpenedTaken DEF CommitOpening
    <3> QED
      BY <2>2, <3>1 DEF Control, OpeningsReplace
  <2>4. InForce' \subseteq {r}
    <3> SUFFICES ASSUME NEW q \in Rows, rows'[q].st = "ACTIVO", q # r
                 PROVE  FALSE
      BY DEF InForce
    <3>1. q # opening[t].ended /\ rows[q].st = "ACTIVO"
      BY <2>1
    <3> QED
      BY <2>3, <3>1 DEF InForce
  <2>5. Switching' = {}
    BY <2>1, <2>2 DEF Control, SwitchesAlone, Switching
  <2> QED
    BY <2>1, <2>4, <2>5 DEF Control, OneInForce, OpeningsReplace, SwitchesReplace, SwitchesAlone
<1> QED
  BY <1>1, <1>2, <1>3

LEMMA ControlSwitching ==
  ASSUME SwitchesApart, Book, Control, NEW a \in Administrators,
         BeginSwitch(a) \/ FailSwitch(a) \/ \E r \in Rows : CommitSwitch(a, r)
  PROVE  Control'
<1> USE TaskShape
<1>1. CASE BeginSwitch(a)
  <2>1. Switching = {} /\ Opening = {} /\ UNCHANGED <<rows, bills, opening, month>>
    BY <1>1 DEF BeginSwitch
  <2>2. PICK w : w = [switch[a] EXCEPT !.step = "locked", !.marks = Others(switch[a].row)]
    OBVIOUS
  <2>3. switch[a] \in Task /\ switch' = [switch EXCEPT ![a] = w]
    BY <1>1, <2>2, BookTypes DEF BeginSwitch
  <2>4. w.marks = InForce \ {w.row}
    BY <2>2, <2>3 DEF Task, Others
  <2>5. \A b \in Administrators : switch'[b] = IF b = a THEN w ELSE switch[b]
    BY <2>3, BookTypes
  <2>6. Switching' \subseteq {a} /\ Opening' = {} /\ InForce' = InForce
    BY <2>1, <2>5 DEF Switching, Opening, InForce
  <2>7. SwitchesReplace'
    BY <2>4, <2>5, <2>6 DEF SwitchesReplace, InForce
  <2> QED
    BY <2>6, <2>7 DEF Control, OneInForce, OpeningsReplace, SwitchesAlone
<1>2. CASE FailSwitch(a)
  <2>1. \A b \in Administrators : switch'[b] = switch[b] \/ switch'[b] = NoSwitch
    BY <1>2, BookTypes DEF FailSwitch
  <2>2. UNCHANGED <<rows, bills, opening, month>> /\ InForce' = InForce
    BY <1>2 DEF FailSwitch, InForce
  <2> QED
    BY <2>1, <2>2, ControlKept
<1>3. ASSUME NEW r \in Rows, CommitSwitch(a, r)
      PROVE  Control'
  <2>1. a \in Switching /\ UNCHANGED <<bills, opening, month>>
    BY <1>3 DEF CommitSwitch, Switching
  <2>2. Switching = {a} /\ Opening = {} /\ InForce \subseteq switch[a].marks \cup {switch[a].row}
    BY <2>1 DEF Control, SwitchesAlone, SwitchesReplace
  <2>3. \A b \in Administrators : switch'[b] = IF b = a THEN NoSwitch ELSE switch[b]
    BY <1>3, BookTypes DEF CommitSwitch
  <2>4. Switching' = {} /\ Opening' = {}
    BY <2>1, <2>2, <2>3 DEF Switching, Opening
  <2>5. InForce' \subseteq {r}
    <3> SUFFICES ASSUME NEW q \in Rows, rows'[q].st = "ACTIVO", q # r
                 PROVE  FALSE
      BY DEF InForce
    <3>1. rows[q].st = "ACTIVO" /\ q \notin switch[a].marks
      BY <1>3, SwitchBooked
    <3>2. q = switch[a].row
      BY <2>2, <3>1 DEF InForce
    <3> QED
      BY <1>3, <3>2, Sorts DEF CommitSwitch
  <2> QED
    BY <2>4, <2>5 DEF Control, OneInForce, OpeningsReplace, SwitchesReplace, SwitchesAlone
<1> QED
  BY <1>1, <1>2, <1>3

LEMMA ControlNext ==
  ASSUME SwitchesApart, Book, Control, [NumberingNext]_numberingVars
  PROVE  Control'
<1> USE TaskShape
<1>1. ASSUME NEW r \in Rows, IssueFrom(r) \/ ConsumeNext(r)
      PROVE  Control'
  <2>1. r \in InForce /\ Usable(r) /\ UNCHANGED <<opening, switch, asked, month>>
        /\ rows' = [rows EXCEPT ![r] = Advanced(@)]
        /\ \/ bills' = bills \cup {Invoice(r, rows[r])} /\ skipped' = skipped
           \/ bills' = bills /\ skipped' = [skipped EXCEPT ![r] = @ \cup {rows[r].next}]
    BY <1>1 DEF IssueFrom, ConsumeNext
  <2>2. \A q \in Rows : rows'[q] = IF q = r THEN Advanced(rows[r]) ELSE rows[q]
    BY <2>1, NumberBooked
  <2>3. InForce' \subseteq InForce
    BY <2>1, <2>2 DEF InForce
  <2> QED
    BY <2>1, <2>3, ControlKept
<1>2. ASSUME NEW r \in Rows, CreateIdle(r) \/ ChangeRow(r) \/ DeleteRow(r)
      PROVE  Control'
  <2>1. InForce' \subseteq InForce
    BY <1>2, RowChanged DEF InForce
  <2>2. UNCHANGED <<bills, opening, switch, month>>
    BY <1>2 DEF CreateIdle, ChangeRow, DeleteRow
  <2> QED
    BY <2>1, <2>2, ControlKept
<1>3. ASSUME NEW a \in Administrators, NEW r \in {0} \cup Rows, BeginActive(a, r)
      PROVE  Control'
  <2>1. InForce' \subseteq InForce
    BY <1>3, FirstMarked DEF BeginActive, InForce
  <2>2. PICK p : switch' = [switch EXCEPT ![a] =
                              [step |-> "marked", row |-> r, ask |-> p, marks |-> {}]]
    BY <1>3 DEF BeginActive
  <2>3. \A b \in Administrators : switch'[b] = switch[b] \/ switch'[b].step = "marked"
    BY <2>2, BookTypes
  <2>4. UNCHANGED <<bills, opening, month>>
    BY <1>3 DEF BeginActive
  <2> QED
    BY <2>1, <2>3, <2>4, ControlKept
<1>4. CASE NextMonth
  <2>1. Opening = {} /\ UNCHANGED <<rows, bills, opening, switch>>
    BY <1>4 DEF NextMonth
  <2>2. Opening' = {} /\ InForce' = InForce /\ Switching' = Switching
    BY <2>1 DEF Opening, InForce, Switching
  <2> QED
    BY <2>1, <2>2 DEF Control, OneInForce, OpeningsReplace, SwitchesReplace, SwitchesAlone
<1>5. CASE UNCHANGED numberingVars
  <2>1. UNCHANGED <<rows, bills, opening, switch, month>> /\ InForce' = InForce
    BY <1>5 DEF numberingVars, InForce
  <2> QED
    BY <2>1, ControlKept
<1> QED
  BY <1>1, <1>2, <1>3, <1>4, <1>5, ControlOpening, ControlSwitching DEF NumberingNext

-----------------------------------------------------------------------------
(* Theorems *)

\* Ranges, invoices, requests and what is in flight are well formed, whatever administrators
\* ask for and whatever is made active at the same time.
THEOREM NumberingTyped == NumberingSpec => []NumberingTypeOK
<1>1. Book => NumberingTypeOK
  BY DEF Book
<1> QED
  BY <1>1, BookAlways, PTL

\* The numbers of a range that nobody renumbered, made smaller or ended earlier are issued or
\* skipped once and in order, from the one that it began with, none outside its limits or
\* after its month (issue, consumeNext, create, update), even when two ranges are made active
\* at the same time.
THEOREM RangesStayAccounted == NumberingSpec => []RangesAccounted
<1>1. Book => RangesAccounted
  BY DEF Book
<1> QED
  BY <1>1, BookAlways, PTL

\* One range at most is in force besides, when no two ranges are made active at once: two
\* collections that open one at the same time are told apart by the number that they issue.
THEOREM EveryNumberAccounted ==
  ASSUME SwitchesApart
  PROVE  NumberingSpec => []NumbersAccounted
<1> DEFINE Inv == Book /\ Control
<1>1. NumberingInit => Inv
  BY NumberingStarts, TaskShape, NoRowIsOne
     DEF NumberingInit, NoOpening, Control, OneInForce, OpeningsReplace, SwitchesReplace,
         SwitchesAlone, Switching, Opening, InForce
<1>2. Inv /\ [NumberingNext]_numberingVars => Inv'
  BY BookNext, ControlNext
<1>3. Inv => NumbersAccounted
  <2> SUFFICES ASSUME Book, Control
               PROVE  NumbersAccounted
    OBVIOUS
  <2>1. CASE InForce = {}
    BY <2>1, FS_EmptySet DEF NumbersAccounted, Book
  <2>2. ASSUME NEW r \in InForce
        PROVE  NumbersAccounted
    <3>1. InForce = {r}
      BY <2>2 DEF Control, OneInForce
    <3>2. Cardinality({r}) = 1
      BY FS_Singleton
    <3> QED
      BY <3>1, <3>2 DEF NumbersAccounted, Book
  <2> QED
    BY <2>1, <2>2
<1> QED
  BY <1>1, <1>2, <1>3, PTL DEF NumberingSpec
=============================================================================
