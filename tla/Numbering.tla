--------------------------------- MODULE Numbering ---------------------------------
(***************************************************************************)
(* The correlativos, the authorized ranges of invoice numbers: how         *)
(* InvoiceIssuingService takes a number, opens a range of its own when     *)
(* there is none or it ended with its month, and how administrators create *)
(* and change ranges in CorrelativosService meanwhile.                     *)
(*                                                                         *)
(* Nothing in the database makes the active range unique; that of          *)
(* Order.invoiceNumber is.  An invoice number is the month of the issue,   *)
(* the own part of the prefix of the range, and the padded number.  A      *)
(* collection locks the row it numbers with, so that one is a single step, *)
(* but a range it opens is not seen by others before the commit.  A        *)
(* transaction that ends with an error leaves nothing, not even the        *)
(* VENCIDO or AGOTADO that it wrote: it is no step at all.                 *)
(***************************************************************************)
EXTENDS Naturals, FiniteSets

CONSTANTS
  MaxRows,         \* bound of the exploration: ranges that are created
  MaxMonth,        \* bound of the exploration: months
  MaxAsked,        \* bound of the exploration: requests of administrators that change ranges
  Prefixes,        \* own parts of prefixes
  Plain,           \* the empty one, which ranges opened by a collection have
  ConfigRange,     \* startNumber and endNumber of the resolution that is configured
  Requests,        \* what administrators ask for
  Tens,            \* the numbers with which another digit begins
  Collectors,      \* collections in flight that open a range
  Administrators,  \* administrators at work
  SwitchesApart    \* TRUE: no two ranges are made active at the same time

NumberRange == [start: Nat \ {0}, end: Nat]

\* The fields of CreateCorrelativoDto and UpdateCorrelativoDto that numbers depend on.
NotGiven == 0
Resolutions == {"AUTO-", "other"}   \* what a resolutionNumber begins with
Request ==
  [start: Nat, end: Nat, next: Nat, until: 0..MaxMonth, own: {NotGiven} \cup Prefixes,
   resolution: {"not given"} \cup Resolutions]

ASSUME NumberingAssumption ==
  /\ MaxRows \in Nat /\ MaxMonth \in Nat \ {0} /\ MaxAsked \in Nat
  /\ Plain \in Prefixes /\ NotGiven \notin Prefixes
  /\ ConfigRange \in NumberRange /\ ConfigRange.start <= ConfigRange.end
  /\ Requests \subseteq Request
  /\ Tens \subseteq Nat
  /\ SwitchesApart \in BOOLEAN

VARIABLES
  rows,       \* the Correlativo rows, in the order of createdAt
  bills,      \* the invoices: who numbered them, and with what
  skipped,    \* history: the numbers that POST /correlativos/next took, by row
  opening,    \* collections that are to open a range
  switch,     \* administrators who are to make a range active
  asked,      \* how many requests of administrators came in
  month

numberingVars == <<rows, bills, skipped, opening, switch, asked, month>>

-----------------------------------------------------------------------------
Rows == 1..MaxRows
Months == 1..MaxMonth

\* own: the prefix without a month; history: the number that the range began with,
\* and whether all that was changed since made it wider.
Correlativo ==
  [st: {"none", "ACTIVO", "AGOTADO", "VENCIDO", "deleted"}, start: Nat, end: Nat, next: Nat,
   until: 0..MaxMonth, own: Prefixes, resolution: Resolutions, first: Nat, free: BOOLEAN]
NoCorrelativo ==
  [st |-> "none", start |-> 1, end |-> 0, next |-> 1, until |-> 0,
   own |-> Plain, resolution |-> "AUTO-", first |-> 1, free |-> TRUE]

NoOpening == [on |-> FALSE]
NoSwitch == [step |-> "none"]

NumberingTypeOK ==
  /\ rows \in [Rows -> Correlativo]
  /\ bills \subseteq [row: Rows, n: Nat, month: Months, own: Prefixes, width: SUBSET Tens]
  /\ skipped \in [Rows -> SUBSET Nat]
  /\ opening \in [Collectors -> {NoOpening} \cup [on: {TRUE}, ended: {0} \cup Rows]]
  /\ switch \in [Administrators -> {NoSwitch} \cup
       [step: {"marked", "locked"}, row: {0} \cup Rows, ask: Request, marks: SUBSET Rows]]
  /\ asked \in 0..MaxAsked
  /\ month \in Months

InForce == {r \in Rows : rows[r].st = "ACTIVO"}

\* Rows that a transaction in flight has locked.
Locked ==
  {opening[t].ended : t \in {t \in Collectors : opening[t].on}}
    \cup UNION {switch[a].marks : a \in {a \in Administrators : switch[a].step = "locked"}}

Switching == {a \in Administrators : switch[a].step = "locked"}
Opening == {t \in Collectors : opening[t].on}

\* create puts a row behind the others.
Used == {r \in Rows : rows[r].st # "none"}
Fresh(r) == r \notin Used /\ Used = 1..(r - 1)

Present(r) == r \in Used /\ rows[r].st # "deleted"

\* invoiceNumber is padded to the width of the last number of the range.
Digits(n) == {t \in Tens : t <= n}

\* The number with its month, prefix and padding is another invoice's.
Taken(row) ==
  \E b \in bills : b.month = month /\ b.own = row.own /\ b.n = row.next
                 /\ b.width = Digits(row.end)

Invoice(r, row) ==
  [row |-> r, n |-> row.next, month |-> month, own |-> row.own, width |-> Digits(row.end)]

\* The row after its next number was taken.
Advanced(row) ==
  [row EXCEPT !.next = @ + 1,
              !.st = IF row.next + 1 > row.end THEN "AGOTADO" ELSE @]

-----------------------------------------------------------------------------
(* Numbers *)

\* Fault: the date is not looked at.
InRange(r) == rows[r].start <= rows[r].next /\ rows[r].next <= rows[r].end

Usable(r) ==
  /\ rows[r].until >= month
  /\ rows[r].start <= rows[r].next /\ rows[r].next <= rows[r].end

\* issue with an active range, whichever the database finds first.
IssueFrom(r) ==
  /\ r \in InForce \ Locked
  /\ Usable(r)
  /\ ~Taken(rows[r])
  /\ bills' = bills \cup {Invoice(r, rows[r])}
  /\ rows' = [rows EXCEPT ![r] = Advanced(@)]
  /\ UNCHANGED <<skipped, opening, switch, asked, month>>

\* issue finds no active range, or one of its own that ended with its month.
BeginOpening(t) ==
  /\ ~opening[t].on
  /\ SwitchesApart => Switching = {}
  /\ \/ /\ InForce = {}
        /\ opening' = [opening EXCEPT ![t] = [on |-> TRUE, ended |-> 0]]
     \/ \E r \in InForce \ Locked :
          /\ rows[r].until < month /\ rows[r].resolution = "AUTO-"
          /\ opening' = [opening EXCEPT ![t] = [on |-> TRUE, ended |-> r]]
  /\ UNCHANGED <<rows, bills, skipped, switch, asked, month>>

\* Fault: the range lasts one month too long.
NextMonthEnd == month + 1

MonthEnd == month

\* createDefaultCorrelativo.  AUTO- without a configured resolution.
Opened(resolution) ==
  [st |-> "ACTIVO", start |-> ConfigRange.start, end |-> ConfigRange.end,
   next |-> ConfigRange.start, until |-> MonthEnd, own |-> Plain, resolution |-> resolution,
   first |-> ConfigRange.start, free |-> TRUE]

CommitOpening(t, r) ==
  \E resolution \in Resolutions :
    LET row == Opened(resolution) IN
    /\ opening[t].on /\ Fresh(r)
    /\ ~Taken(row)
    /\ rows' = [q \in Rows |-> IF q = r THEN Advanced(row)
                               ELSE IF q = opening[t].ended THEN [rows[q] EXCEPT !.st = "VENCIDO"]
                               ELSE rows[q]]
    /\ bills' = bills \cup {Invoice(r, row)}
    /\ opening' = [opening EXCEPT ![t] = NoOpening]
    /\ UNCHANGED <<skipped, switch, asked, month>>

\* The number was issued this month: the unique index refuses the collection.
FailOpening(t) ==
  /\ opening[t].on /\ Taken(Opened("AUTO-"))
  /\ opening' = [opening EXCEPT ![t] = NoOpening]
  /\ UNCHANGED <<rows, bills, skipped, switch, asked, month>>

\* consumeNext takes a number of the newest active range for nobody.
ConsumeNext(r) ==
  /\ r \in InForce \ Locked /\ \A q \in InForce : q <= r
  /\ Usable(r)
  /\ skipped' = [skipped EXCEPT ![r] = @ \cup {rows[r].next}]
  /\ rows' = [rows EXCEPT ![r] = Advanced(@)]
  /\ UNCHANGED <<bills, opening, switch, asked, month>>

-----------------------------------------------------------------------------
(* Administration *)

\* create and update compare what the request itself gives, and never the row: a number, or
\* an end, that comes alone is not compared with anything.
Refused(p) ==
  \/ p.start # NotGiven /\ p.end # NotGiven /\ p.end < p.start
  \/ p.next # NotGiven /\ p.start # NotGiven /\ p.next < p.start
  \/ p.next # NotGiven /\ p.end # NotGiven /\ p.next > p.end + 1

Given(value, kept) == IF value = NotGiven THEN kept ELSE value

\* What CreateCorrelativoDto requires.
Complete(p) ==
  /\ p.start # NotGiven /\ p.end # NotGiven /\ p.until # NotGiven
  /\ p.resolution # "not given"

Created(p, st) ==
  LET n == Given(p.next, p.start) IN
  [st |-> st, start |-> p.start, end |-> p.end, next |-> n, until |-> p.until,
   own |-> Given(p.own, Plain), resolution |-> p.resolution, first |-> n, free |-> TRUE]

\* A row keeps what update was not given.
Patched(row, p, st) ==
  LET start == Given(p.start, row.start)
      end == Given(p.end, row.end)
      next == Given(p.next, row.next)
      until == Given(p.until, row.until)
      widened == next = row.next /\ start <= row.start /\ row.end <= end /\ row.until <= until
  IN
  [st |-> st, start |-> start, end |-> end, next |-> next, until |-> until,
   own |-> Given(p.own, row.own),
   resolution |-> IF p.resolution = "not given" THEN row.resolution ELSE p.resolution,
   first |-> row.first, free |-> row.free /\ widened]

Ask == asked < MaxAsked /\ asked' = asked + 1

\* create of a range that is not active, and update that makes none active
CreateIdle(r) ==
  \E p \in Requests, st \in {"AGOTADO", "VENCIDO"} :
    /\ Fresh(r) /\ Complete(p) /\ ~Refused(p)
    /\ rows' = [rows EXCEPT ![r] = Created(p, st)]
    /\ Ask
    /\ UNCHANGED <<bills, skipped, opening, switch, month>>

ChangeRow(r) ==
  \E p \in Requests, st \in {rows[r].st, "AGOTADO", "VENCIDO"} :
    /\ Present(r) /\ r \notin Locked /\ ~Refused(p)
    /\ rows' = [rows EXCEPT ![r] = Patched(rows[r], p, st)]
    /\ Ask
    /\ UNCHANGED <<bills, skipped, opening, switch, month>>

\* The active ranges end, in a statement of its own (markActiveAsVencido).
MarkFirst ==
  /\ InForce \cap Locked = {}
  /\ rows' = [q \in Rows |-> IF q \in InForce THEN [rows[q] EXCEPT !.st = "VENCIDO"]
                             ELSE rows[q]]

\* create of an active range (r = 0), and update that makes one active; without a
\* documentType the second leaves the first statement out.  The row is not looked at.
BeginActive(a, r) ==
  \E p \in Requests :
    /\ switch[a] = NoSwitch /\ ~Refused(p)
    /\ IF r = 0 THEN Complete(p) ELSE r \in Used
    /\ MarkFirst \/ (r # 0 /\ rows' = rows)
    /\ switch' = [switch EXCEPT ![a] = [step |-> "marked", row |-> r, ask |-> p, marks |-> {}]]
    /\ Ask
    /\ UNCHANGED <<bills, skipped, opening, month>>

\* The other ranges that are active when the transaction begins.
Others(r) == InForce \ {r}

BeginSwitch(a) ==
  /\ switch[a].step = "marked"
  /\ InForce \cap Locked = {}
  /\ SwitchesApart => Switching = {} /\ Opening = {}
  /\ switch' = [switch EXCEPT ![a].step = "locked", ![a].marks = Others(switch[a].row)]
  /\ UNCHANGED <<rows, bills, skipped, opening, asked, month>>

\* Row r becomes the active one: a new one, or the one that was asked for.
CommitSwitch(a, r) ==
  LET ask == switch[a].ask
      created == switch[a].row = 0
  IN
  /\ switch[a].step = "locked" /\ r \notin Locked
  /\ IF created THEN Fresh(r) ELSE r = switch[a].row /\ Present(r)
  /\ rows' = [q \in Rows |->
       IF q = r THEN IF created THEN Created(ask, "ACTIVO") ELSE Patched(rows[r], ask, "ACTIVO")
       ELSE IF q \in switch[a].marks THEN [rows[q] EXCEPT !.st = "VENCIDO"]
       ELSE rows[q]]
  /\ switch' = [switch EXCEPT ![a] = NoSwitch]
  /\ UNCHANGED <<bills, skipped, opening, asked, month>>

\* It is not there any more: the transaction leaves the others as they were, but what the
\* first statement ended stays ended.
FailSwitch(a) ==
  /\ switch[a].step = "locked" /\ switch[a].row # 0 /\ ~Present(switch[a].row)
  /\ switch' = [switch EXCEPT ![a] = NoSwitch]
  /\ UNCHANGED <<rows, bills, skipped, opening, asked, month>>

DeleteRow(r) ==
  /\ Present(r) /\ r \notin Locked
  /\ rows' = [rows EXCEPT ![r].st = "deleted"]
  /\ Ask
  /\ UNCHANGED <<bills, skipped, opening, switch, month>>

NextMonth ==
  /\ month < MaxMonth /\ Opening = {}
  /\ month' = month + 1
  /\ UNCHANGED <<rows, bills, skipped, opening, switch, asked>>

NumberingInit ==
  /\ rows = [r \in Rows |-> NoCorrelativo]
  /\ bills = {} /\ skipped = [r \in Rows |-> {}]
  /\ opening = [t \in Collectors |-> NoOpening]
  /\ switch = [a \in Administrators |-> NoSwitch]
  /\ asked = 0 /\ month = 1

NumberingNext ==
  \/ \E r \in Rows :
       IssueFrom(r) \/ ConsumeNext(r) \/ CreateIdle(r) \/ ChangeRow(r) \/ DeleteRow(r)
  \/ \E t \in Collectors :
       BeginOpening(t) \/ FailOpening(t) \/ \E r \in Rows : CommitOpening(t, r)
  \/ \E a \in Administrators :
       \/ \E r \in {0} \cup Rows : BeginActive(a, r)
       \/ \E r \in Rows : CommitSwitch(a, r)
       \/ BeginSwitch(a) \/ FailSwitch(a)
  \/ NextMonth

NumberingSpec == NumberingInit /\ [][NumberingNext]_numberingVars

-----------------------------------------------------------------------------
(* Properties *)

NumbersOf(r) == {b.n : b \in {b \in bills : b.row = r}}

\* The numbers of a range, from the one that it began with, were given to one invoice each,
\* or skipped on request, up to the current one; none is outside the range or after its
\* month.  A range that an administrator renumbers, makes smaller or ends earlier is left
\* out from then on: update compares nothing with the row.
RangesAccounted ==
  \A r \in Rows : rows[r].free =>
    /\ NumbersOf(r) \cup skipped[r] = rows[r].first..(rows[r].next - 1)
    /\ NumbersOf(r) \cap skipped[r] = {}
    /\ rows[r].start <= rows[r].first /\ rows[r].next <= rows[r].end + 1
    /\ \A b \in bills : b.row = r => b.month <= rows[r].until

\* The ranges are accounted for, and at most one range is in force, however collections and
\* administrators open them (issue, consumeNext, CorrelativosService.create, update): two
\* collections that open one at once are told apart by the number that they issue.
NumbersAccounted == RangesAccounted /\ Cardinality(InForce) <= 1
=============================================================================
