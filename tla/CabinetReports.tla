--------------------------- MODULE CabinetReports ---------------------------
(***************************************************************************)
(* The figures of a cabinet: its report, the open data, the trend of its   *)
(* dashboard, the metrics, the summary of a month, and the dashboard of a  *)
(* neighborhood.  Each is put together from several statements.  The batch *)
(* transaction that sends them is read committed, so every statement sees  *)
(* the demands as they are when it runs, with what was written since the   *)
(* one before.                                                             *)
(*                                                                         *)
(* Demands are told apart by what the statements ask: whether they are in  *)
(* scope (of the cabinet or the neighborhood, and enabled), their status,  *)
(* their category, and when they were created and last updated.            *)
(***************************************************************************)
EXTENDS Integers, Sequences, FiniteSets, FiniteSetsExt

CONSTANTS
  Filings,       \* ids of demands
  Statuses,      \* the statuses that demands take here
  Categories,    \* ids of categories
  NULL,          \* null
  DayLength,     \* instants of a day; the last one is 23:59:59.999
  MonthLength,   \* days of a month
  DailyLimit,    \* longest period, in days, with a point for each day: 60
  WeeklyLimit,   \* longest period, in days, with a point for each week: 180
  Week,          \* 7
  TrendDays,     \* days of the dashboard's trend
  TrendMonths,   \* months of the open data's trend: 12
  MaxInstant,    \* bound: instants
  MaxWrites,     \* bound: writes to demands
  MaxReadings    \* bound: figures asked for

Closed == {"RESOLVED", "REJECTED", "CANCELED"}

ASSUME ReportsAssumption ==
  /\ Statuses \subseteq Closed \cup {"SUBMITTED", "IN_ANALYSIS", "IN_PROGRESS"}
  /\ {"SUBMITTED", "RESOLVED"} \subseteq Statuses
  /\ NULL \notin Categories
  /\ IsFiniteSet(Filings) /\ IsFiniteSet(Categories)
  /\ DayLength \in Nat \ {0, 1} /\ MonthLength \in Nat \ {0} /\ Week \in Nat \ {0}
  /\ DailyLimit \in Nat /\ WeeklyLimit \in Nat /\ DailyLimit <= WeeklyLimit
  /\ TrendDays \in Nat \ {0} /\ TrendMonths \in Nat \ {0}
  /\ MaxInstant \in Nat /\ MaxWrites \in Nat /\ MaxReadings \in Nat

VARIABLES
  filed,      \* table demands
  instant,    \* the clock
  reading,    \* the figures being put together
  writes,     \* writes so far
  readings    \* figures asked for so far

reportVars == <<filed, instant, reading, writes, readings>>

Row == [inScope : BOOLEAN, status : Statuses, category : Categories \cup {NULL},
        createdAt : 0..MaxInstant, updatedAt : 0..MaxInstant]

Period == [start : Int, end : Nat]

Day(t) == t \div DayLength
Month(day) == day \div MonthLength
Days == 0..Day(MaxInstant)

(* setHours(0, 0, 0, 0) and setHours(23, 59, 59, 999) *)
Midnight(day) == day * DayLength
LastInstant(day) == Midnight(day + 1) - 1

AllTime == [start |-> 0, end |-> MaxInstant + 1]
ThisMonth ==
  LET first == Month(Day(instant)) * MonthLength
  IN [start |-> Midnight(first), end |-> Midnight(first + MonthLength)]
LastDays(n) == [start |-> Midnight(Day(instant) - n + 1), end |-> MaxInstant + 1]

(* The statements of each kind of figures, in the order they are sent; the *)
(* trend reads the clock again for its labels when its rows have arrived.  *)
Statements ==
  [report       |-> <<"total", "byStatus", "byCategory", "created", "resolved">>,
   openData     |-> <<"byStatus", "byCategory", "byMonth">>,
   trend        |-> <<"created", "resolved", "today">>,
   metrics      |-> <<"total", "resolvedCount", "everByStatus">>,
   summary      |-> <<"total", "resolvedCount", "byCategory">>,
   neighborhood |-> <<"total", "resolvedCount", "active", "byCategory">>]

NoReading == [kind |-> "none", period |-> AllTime, answers |-> <<>>, disturbed |-> FALSE]

Complete == reading.kind # "none" /\ Len(reading.answers) = Len(Statements[reading.kind])

ReportsTypeOK ==
  /\ filed \in [Filings -> Row \cup {NULL}]
  /\ instant \in 0..MaxInstant
  /\ reading.kind \in DOMAIN Statements \cup {"none"}
  /\ reading.period \in Period /\ reading.disturbed \in BOOLEAN
  /\ reading # NoReading => Len(reading.answers) <= Len(Statements[reading.kind])
  /\ writes \in 0..MaxWrites /\ readings \in 0..MaxReadings

(* Some demands have been there since before the first instant. *)
ReportsInit ==
  /\ filed \in [Filings -> {NULL} \cup {r \in Row : /\ r.inScope /\ r.category # NULL
                                                  /\ r.createdAt = 0 /\ r.updatedAt = 0}]
  /\ instant = 0 /\ reading = NoReading
  /\ writes = 0 /\ readings = 0

-----------------------------------------------------------------------------
(* What a statement returns at the moment it runs.                         *)
InScope == {d \in Filings : filed[d] # NULL /\ filed[d].inScope}
Between(t, p) == p.start <= t /\ t < p.end
CreatedIn(p) == {d \in InScope : Between(filed[d].createdAt, p)}
ResolvedIn(p) ==
  {d \in InScope : filed[d].status = "RESOLVED" /\ Between(filed[d].updatedAt, p)}

ByStatus(D) == [s \in Statuses |-> Cardinality({d \in D : filed[d].status = s})]

Answer(statement, p) ==
  CASE statement = "total" -> Cardinality(CreatedIn(p))
    [] statement = "resolvedCount" -> ByStatus(CreatedIn(p))["RESOLVED"]
    [] statement = "active" -> Cardinality({d \in CreatedIn(p) : filed[d].status \notin Closed})
    [] statement = "byStatus" -> ByStatus(CreatedIn(p))
    [] statement = "everByStatus" -> ByStatus(InScope)
    [] statement = "byCategory" ->
         [c \in Categories |-> Cardinality({d \in CreatedIn(p) : filed[d].category = c})]
    [] statement = "created" ->
         [day \in Days |-> Cardinality({d \in CreatedIn(p) : Day(filed[d].createdAt) = day})]
    [] statement = "resolved" ->
         [day \in Days |-> Cardinality({d \in ResolvedIn(p) : Day(filed[d].updatedAt) = day})]
    [] statement = "byMonth" ->
         [m \in {Month(day) : day \in Days} |->
            IF m > Month(Day(instant)) - TrendMonths
            THEN Cardinality({d \in CreatedIn(p) : Month(Day(filed[d].createdAt)) = m}) ELSE 0]
    [] statement = "today" -> Day(instant)

-----------------------------------------------------------------------------
(* What the code makes of the answers.                                     *)
Total(f, S) == MapThenSumSet(LAMBDA x : f[x], S)
SumOf(f) == Total(f, DOMAIN f)

(* Math.round of a percentage *)
Percentage(count, total) == IF total > 0 THEN (200 * count + total) \div (2 * total) ELSE 0

OpenCount(total, byStatus) ==
  LET open == total - Total(byStatus, Statuses \cap Closed)
  IN IF open > 0 THEN open ELSE 0

PeriodDaysRounded(p) ==            \* variant: whole days only
  (p.end - p.start) \div DayLength

(* Math.ceil: the period ends an instant before midnight. *)
PeriodDays(p) == (p.end - p.start + DayLength - 1) \div DayLength

OnDay(rows, day) == IF day \in DOMAIN rows THEN rows[day] ELSE 0

DailyTrend(first, days, created, resolved) ==
  [i \in 1..days |-> [date |-> first + i - 1,
                      created |-> OnDay(created, first + i - 1),
                      resolved |-> OnDay(resolved, first + i - 1)]]

Bucket(daily, I) ==
  [date |-> daily[Min(I)].date,
   created |-> SumOf([i \in I |-> daily[i].created]),
   resolved |-> SumOf([i \in I |-> daily[i].resolved])]

(* Days, weeks from the first day on, or months of the calendar. *)
AggregateTrend(daily, days) ==
  IF days <= DailyLimit THEN daily
  ELSE IF days <= WeeklyLimit
  THEN [w \in 1..((days + Week - 1) \div Week) |->
          Bucket(daily, ((w - 1) * Week + 1)..Min({w * Week, days}))]
  ELSE LET MonthAt(i) == Month(daily[i].date) - Month(daily[1].date) + 1
       IN [m \in 1..MonthAt(days) |-> Bucket(daily, {i \in 1..days : MonthAt(i) = m})]

Got(statement) ==
  reading.answers[CHOOSE i \in DOMAIN reading.answers : Statements[reading.kind][i] = statement]

ReportTrend ==
  LET days == PeriodDays(reading.period)
  IN AggregateTrend(DailyTrend(Day(reading.period.start), days, Got("created"), Got("resolved")),
                    days)

DashboardTrend == DailyTrend(Got("today") - TrendDays + 1, TrendDays, Got("created"), Got("resolved"))

(* The counts that are shown as percentages, and what they are parts of.   *)
Parts == IF reading.kind \in {"report", "openData"} THEN Got("byStatus") ELSE Got("byCategory")

WholeByMonth ==                    \* variant: the open data count what their trend shows
  CASE reading.kind = "report" -> Got("total")
    [] reading.kind = "openData" -> SumOf(Got("byMonth"))
    [] reading.kind \in {"summary", "neighborhood"} -> SumOf(Parts)

Whole == IF reading.kind = "report" THEN Got("total") ELSE SumOf(Parts)

-----------------------------------------------------------------------------
Ask(kind, p) ==
  /\ reading = NoReading /\ readings < MaxReadings
  /\ reading' = [NoReading EXCEPT !.kind = kind, !.period = p]
  /\ readings' = readings + 1
  /\ UNCHANGED <<filed, instant, writes>>

AskReport(from, to) ==
  /\ Midnight(from) < LastInstant(to)
  /\ Ask("report", [start |-> Midnight(from), end |-> LastInstant(to)])

AskFigures ==
  \/ Ask("openData", AllTime) \/ Ask("neighborhood", AllTime)
  \/ Ask("trend", LastDays(TrendDays))
  \/ Ask("metrics", ThisMonth) \/ Ask("summary", ThisMonth)

RunStatement ==
  /\ reading.kind # "none" /\ ~Complete
  /\ reading' = [reading EXCEPT !.answers =
       Append(@, Answer(Statements[reading.kind][Len(@) + 1], reading.period))]
  /\ UNCHANGED <<filed, instant, writes, readings>>

Deliver ==
  /\ Complete
  /\ reading' = NoReading
  /\ UNCHANGED <<filed, instant, writes, readings>>

-----------------------------------------------------------------------------
Disturb == reading' = IF reading = NoReading THEN reading ELSE [reading EXCEPT !.disturbed = TRUE]

Write(d, row) ==
  /\ writes < MaxWrites
  /\ writes' = writes + 1
  /\ filed' = [filed EXCEPT ![d] = row]
  /\ Disturb
  /\ UNCHANGED <<instant, readings>>

FileDemand(d, c) ==
  /\ filed[d] = NULL
  /\ Write(d, [inScope |-> TRUE, status |-> "SUBMITTED", category |-> c,
               createdAt |-> instant, updatedAt |-> instant])

(* Any UPDATE of the row sets updated_at. *)
SetStatus(d, s) ==
  /\ filed[d] # NULL
  /\ Write(d, [filed[d] EXCEPT !.status = s, !.updatedAt = instant])

MoveInOrOut(d) ==
  /\ filed[d] # NULL
  /\ Write(d, [filed[d] EXCEPT !.inScope = ~@, !.updatedAt = instant])

PassTime ==
  /\ instant < MaxInstant
  /\ instant' = instant + 1
  /\ Disturb
  /\ UNCHANGED <<filed, writes, readings>>

PublishFigures ==
  \/ \E from, to \in Days : AskReport(from, to)
  \/ AskFigures \/ RunStatement \/ Deliver
  \/ \E d \in Filings :
       \/ \E c \in Categories \cup {NULL} : FileDemand(d, c)
       \/ \E s \in Statuses : SetStatus(d, s)
       \/ MoveInOrOut(d)
  \/ PassTime

ReportsSpec == ReportsInit /\ [][PublishFigures]_reportVars

-----------------------------------------------------------------------------
(* Percentages make a whole: each is at most 100, and together they differ *)
(* from 100 by no more than rounding, half a point for each.  The open     *)
(* data, the summary and the neighborhood add the whole up from the parts, *)
(* so this holds whatever is written between their statements; the report  *)
(* counts it by a statement of its own (demands.repository.ts:886, 1198).  *)
SharesMakeAWhole ==
  /\ Complete /\ reading.kind \in {"report", "openData", "summary", "neighborhood"}
  /\ reading.kind = "report" => ~reading.disturbed
  /\ SumOf(Parts) > 0
  => LET share == [x \in DOMAIN Parts |-> Percentage(Parts[x], Whole)]
         shown == {x \in DOMAIN Parts : Parts[x] > 0}
         off == SumOf(share) - 100
     IN /\ \A x \in shown : share[x] <= 100
        /\ 2 * off <= Cardinality(shown) /\ -2 * off <= Cardinality(shown)

(* Figures that nothing was written under agree with one another, and no   *)
(* trend loses a demand to a label: every row that was counted is in a     *)
(* day, week or month that is shown, also on the first and the last day of *)
(* the period (demands.repository.ts:1010, 1068, 855).                     *)
Keeps(trend) ==
  /\ SumOf([i \in DOMAIN trend |-> trend[i].created]) = SumOf(Got("created"))
  /\ SumOf([i \in DOMAIN trend |-> trend[i].resolved]) = SumOf(Got("resolved"))

ReportAgrees ==
  /\ SumOf(Got("byStatus")) = Got("total") /\ SumOf(Got("created")) = Got("total")
  /\ SumOf(Got("byCategory")) <= Got("total")
  /\ OpenCount(Got("total"), Got("byStatus")) =
       Total(Got("byStatus"), Statuses \ Closed)

FiguresAgree ==
  Complete =>
    /\ reading.kind = "report" => Keeps(ReportTrend)
    /\ ~reading.disturbed =>
         CASE reading.kind = "report" -> ReportAgrees
           [] reading.kind = "trend" -> Keeps(DashboardTrend)
           [] reading.kind \in {"metrics", "summary"} -> Got("resolvedCount") <= Got("total")
           [] reading.kind = "neighborhood" -> Got("resolvedCount") + Got("active") <= Got("total")
           [] reading.kind = "openData" -> TRUE
=============================================================================
