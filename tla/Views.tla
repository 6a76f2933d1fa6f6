------------------------------- MODULE Views -------------------------------
(***************************************************************************)
(* What the read-only commands say of the store: `show`, `today` and `top` *)
(* (src/main.rs), the totals of `live` (src/live.rs), over the queries and *)
(* the calendar of src/db.rs.  They run beside the daemon, at any moment,  *)
(* so what they must satisfy are invariants of Store.                      *)
(*                                                                         *)
(* A view is a function from the buckets it prints to the sample rows each *)
(* of them sums (every row is in a table once, by NeverTwice of Store).    *)
(* Days, weeks and months have fixed lengths here: no daylight saving.     *)
(***************************************************************************)
EXTENDS Days

CONSTANTS
  DaysPerWeek, DaysPerMonth,
  HourSpan, DaySpan, WeekSpan, MonthSpan   \* how far `show` looks back

(* A day is so many hours, and `show` looks back for a bucket at least.    *)
ASSUME ViewsAssumption ==
  /\ DayLen % HourLen = 0
  /\ DaysPerWeek \in Nat \ {0} /\ DaysPerMonth \in Nat \ {0}
  /\ HourSpan \in Nat /\ DaySpan \in Nat /\ WeekSpan \in Nat /\ MonthSpan \in Nat
  /\ HourLen <= HourSpan /\ DayLen <= DaySpan
  /\ DayLen * DaysPerWeek <= WeekSpan /\ DayLen * DaysPerMonth <= MonthSpan

-----------------------------------------------------------------------------
(* The calendar: the floors of db.rs.                                      *)

(* The Monday of the week of t.                                            *)
WeekOf(t) ==
  LET day == t \div DayLen IN DayLen * (day - (day % DaysPerWeek))

MonthOf(t) ==
  LET day == t \div DayLen IN DayLen * (day - (day % DaysPerMonth))

WindowStart(period, t) ==
  CASE period = "hour"  -> HourOf(t)
    [] period = "day"   -> DayOf(t)
    [] period = "week"  -> WeekOf(t)
    [] period = "month" -> MonthOf(t)

Period == {"hour", "day", "week", "month"}

-----------------------------------------------------------------------------
(* The queries.                                                            *)

(* Gather the rows R in buckets, bucket[r] being that of row r.            *)
Gather(R, bucket) ==
  [b \in {bucket[r] : r \in R} |-> {r \in R : bucket[r] = b}]

(* query_range: the buckets of a table in from .. to - 1, for one          *)
(* interface or, summed, for all of them.                                  *)
QueryRange(R, bucket, from, to, I) ==
  Gather({r \in R : bucket[r] \in from .. to - 1 /\ r.iface \in I}, bucket)

Buckets(R, period) == [r \in R |-> WindowStart(period, r.ts)]

(* Mutant: `=` for `+=`, the last bucket of a period replaces the others.   *)
Merge_LastWins(view, period) ==
  [b \in {WindowStart(period, c) : c \in DOMAIN view} |->
     LET parts == {d \in DOMAIN view : WindowStart(period, d) = b}
     IN  view[CHOOSE d \in parts : \A e \in parts : e <= d]]

(* rebucket_week, and the buckets of bucket_samples: buckets are merged    *)
(* into those of a longer period by the time they start at.                *)
Merge(view, period) ==
  [b \in {WindowStart(period, c) : c \in DOMAIN view} |->
     UNION {view[c] : c \in {d \in DOMAIN view : WindowStart(period, d) = b}}]

Span(period) ==
  CASE period = "hour"  -> HourSpan
    [] period = "day"   -> DaySpan
    [] period = "week"  -> WeekSpan
    [] period = "month" -> MonthSpan

(* The rollup table behind a period: weeks are made of daily rows.         *)
FromTable(period, end, I) ==
  LET R == CASE period = "hour"  -> DOMAIN hourly
             [] period = "month" -> DOMAIN monthly
             [] OTHER            -> DOMAIN daily
      stored == IF period = "week" THEN "day" ELSE period
      view == QueryRange(R, Buckets(R, stored), end - Span(period), end + 1, I)
  IN  IF period = "week" THEN Merge(view, "week") ELSE view

(* bucket_samples, the fallback to the raw rows.                           *)
FromSamples(period, end, I) ==
  LET raw == QueryRange(samples, [r \in samples |-> r.ts], end - Span(period), end + 1, I)
  IN  IF period = "week" THEN Merge(Merge(raw, "day"), "week") ELSE Merge(raw, period)

(* cmd_show, as of `end`.                                                  *)
Show(period, end, I) ==
  LET view == FromTable(period, end, I)
  IN  IF view = <<>> THEN FromSamples(period, end, I) ELSE view

Rows(view) == UNION {view[b] : b \in DOMAIN view}

(* Mutant: every row that is printed counts against the budget.            *)
BudgetUsed_AllRows(period, view) == Rows(view)

(* budget_used: the rows of the current window that a view prints.         *)
BudgetUsed(period, view) ==
  UNION {view[b] : b \in {c \in DOMAIN view : c >= WindowStart(period, now)}}

(* Mutant: the last 24 hours.                                              *)
Today_LastDay ==
  Rows(QueryRange(samples, [r \in samples |-> r.ts], now - DayLen, now + 1, Iface))

(* cmd_today.                                                              *)
Today ==
  Rows(QueryRange(samples, [r \in samples |-> r.ts], DayOf(now), now + 1, Iface))

(* cmd_top, which sorts these and shows the largest.                       *)
TopByDay == QueryRange(DOMAIN daily, Buckets(DOMAIN daily, "day"), 0, MaxClock + 1, Iface)

TopByIface(i) == {r \in samples : r.iface = i}

(* window_sum of `live`: no upper end.                                     *)
LiveSince(t) == {r \in samples : r.ts >= t}

(* What budget_period may say; "other" is also what it says when no budget *)
(* is set, in which case `live` shows one of the month.                    *)
BudgetPeriod == {"day", "week", "month", "other"}

(* effective_budget, and its default in query_budget.                      *)
EffectivePeriod(period) == IF period \in {"day", "week"} THEN period ELSE "month"

QueryBudget(period) == LiveSince(WindowStart(EffectivePeriod(period), now))

-----------------------------------------------------------------------------
(* Correctness.                                                            *)

Filters == {Iface} \cup {{i} : i \in Iface}

Recorded(from, to, I) == {r \in committed : r.ts \in from .. to /\ r.iface \in I}

(* What a budget is measured by: its window, a month for want of one.      *)
BudgetStart(period) ==
  CASE period = "day"  -> DayOf(now)
    [] period = "week" -> WeekOf(now)
    [] OTHER           -> MonthOf(now)

(* `today`, and the day, week and budget totals of `live`, are exactly the *)
(* traffic recorded since midnight and since their window began, before    *)
(* and after any rollup, retention, restart or crash.  Budgets of a month  *)
(* lose the rows that are older than retention_days_raw, 30 by default;    *)
(* `top --by iface` counts no more than those rows for certain, though a   *)
(* comment (main.rs:614) says "all-time".                                  *)
LiveTotalsExact ==
  /\ Today = Recorded(DayOf(now), now, Iface)
  /\ \A start \in {DayOf(now), WeekOf(now)} :
       now - start <= RawRet => LiveSince(start) = Recorded(start, now, Iface)
  /\ \A period \in BudgetPeriod :
       now - BudgetStart(period) <= RawRet =>
         QueryBudget(period) = Recorded(BudgetStart(period), now, Iface)
  /\ \A i \in Iface : Recorded(now - RawRet, now, {i}) \subseteq TopByIface(i)

(* `show` and `today` read different tables and never contradict each      *)
(* other: the current row of `show --period day` is today's traffic but    *)
(* for rows that wait for the next rollup.                                 *)
ShowTrailsToday ==
  \A I \in Filters :
    LET view == Show("day", now, I)
        row == IF DayOf(now) \in DOMAIN view THEN view[DayOf(now)] ELSE {}
        today == {r \in Today : r.iface \in I}
    IN  row \subseteq today /\ today \ row \subseteq Unfolded

(* Whatever a rollup has counted is in `show`, in its own bucket, if that  *)
(* begins within the span: no bucket is missing and none is short.  And it *)
(* is in `top --by day`, however old.                                      *)
RowsAreComplete ==
  /\ \A period \in Period, I \in Filters :
       LET view == Show(period, now, I)
       IN  \A r \in committed \ Unfolded :
             LET b == WindowStart(period, r.ts)
             IN  r.iface \in I /\ b \in now - Span(period) .. now =>
                   b \in DOMAIN view /\ r \in view[b]
  /\ LET top == TopByDay
     IN  \A r \in committed \ Unfolded :
           DayOf(r.ts) \in DOMAIN top /\ r \in top[DayOf(r.ts)]

(* The budget bar counts the current window, as the daemon does, and not   *)
(* every row on the screen (CHANGELOG.md:68-71).                           *)
BudgetBarIsTheWindow ==
  \A period \in Period \ {"hour"} :
    LET used == BudgetUsed(period, Show(period, now, Iface))
        window == Recorded(WindowStart(period, now), now, Iface)
    IN  used \subseteq window /\ window \ used \subseteq Unfolded
=============================================================================
