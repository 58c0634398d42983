------------------------------ MODULE NextFire ------------------------------
(***************************************************************************)
(* When a schedule fires next: the cron parser and its search for the next *)
(* matching minute (scheduledtask/cron.go), the fire time of the three     *)
(* kinds of body (engine.go, computeNextFire), and the handlers that store *)
(* it (handlers.go, create and update) with the tick that renews it.       *)
(*                                                                         *)
(* Time is counted in minutes of UTC.  The calendar is a small one with    *)
(* the same units as the real one, months of one length and no daylight    *)
(* saving; the zone of the body is a fixed offset from UTC.                *)
(***************************************************************************)
EXTENDS Integers, FiniteSets, TLC

CONSTANTS
  MinutesPerHour, HoursPerDay, DaysPerWeek, DaysPerMonth, MonthsPerYear,
  Bodies,     \* the bodies the user creates or edits a schedule to
  Offsets,    \* the offsets from UTC, in minutes, of the zones a body may name
  Horizon,    \* bound: the last minute of the run
  MaxLate     \* bound: how many minutes after its time a tick may come

MinutesPerDay == MinutesPerHour * HoursPerDay
MinutesPerYear == MinutesPerDay * DaysPerMonth * MonthsPerYear

NextFireAssumption ==
  /\ MinutesPerHour \in Nat \ {0} /\ HoursPerDay \in Nat \ {0} /\ DaysPerWeek \in Nat \ {0}
  /\ DaysPerMonth \in Nat \ {0} /\ MonthsPerYear \in Nat \ {0}
  /\ Offsets \subseteq Int /\ Horizon \in Nat /\ MaxLate \in Nat

VARIABLES
  now,     \* the clock
  offset,  \* the zone of the schedule, as an offset from UTC
  body,    \* the row's schedule_json, or NoBody before it is created
  next,    \* the row's next_fire_at, or Never
  since,   \* history: the clock when next was computed
  answer   \* what the last create or update answered

vars == <<now, offset, body, next, since, answer>>

Never == -1
NoBody == [kind |-> "none"]

-----------------------------------------------------------------------------
(* Parsing.  An item of a field is lo-hi/step; "*" alone is Star.          *)

Star == [lo |-> -1, hi |-> -1, step |-> 1]

\* parseCronField refuses an item outside the field's range and a step of zero
ItemIsLegal(i, min, max) ==
  i.step > 0 /\ (i.lo = -1 \/ (min <= i.lo /\ i.hi <= max /\ i.lo <= i.hi))

ItemValues(i, min, max) ==
  LET lo == IF i.lo = -1 THEN min ELSE i.lo
      hi == IF i.lo = -1 THEN max ELSE i.hi
  IN {v \in lo .. hi : (v - lo) % i.step = 0}

\* parseCronField: "*" alone is an unrestricted field, any other text a set of values
Field(items, min, max) ==
  [any |-> items = {Star}, values |-> UNION {ItemValues(i, min, max) : i \in items}]

FieldIsLegal(items, min, max) == items # {} /\ \A i \in items : ItemIsLegal(i, min, max)

\* ParseCronExpr: both ends of the weekday range are the first day of the week
Weekdays(items) ==
  LET f == Field(items, 0, DaysPerWeek)
  IN [f EXCEPT !.values = {v % DaysPerWeek : v \in f.values}]

ExprIsLegal(e) ==
  /\ FieldIsLegal(e.minute, 0, MinutesPerHour - 1)
  /\ FieldIsLegal(e.hour, 0, HoursPerDay - 1)
  /\ FieldIsLegal(e.dom, 1, DaysPerMonth)
  /\ FieldIsLegal(e.month, 1, MonthsPerYear)
  /\ FieldIsLegal(e.dow, 0, DaysPerWeek)

ParseCronExpr(e) ==
  [minute |-> Field(e.minute, 0, MinutesPerHour - 1), hour |-> Field(e.hour, 0, HoursPerDay - 1),
   dom |-> Field(e.dom, 1, DaysPerMonth), month |-> Field(e.month, 1, MonthsPerYear),
   dow |-> Weekdays(e.dow)]

Match(f, v) == f.any \/ v \in f.values

-----------------------------------------------------------------------------
(* The wall clock of a zone, and the jumps of the search.                  *)

DayNumber(t, z) == (t + z) \div MinutesPerDay
Minute(t, z) == (t + z) % MinutesPerHour
Hour(t, z) == ((t + z) \div MinutesPerHour) % HoursPerDay
Weekday(t, z) == DayNumber(t, z) % DaysPerWeek
Day(t, z) == (DayNumber(t, z) % DaysPerMonth) + 1
Month(t, z) == ((DayNumber(t, z) \div DaysPerMonth) % MonthsPerYear) + 1

\* time.Truncate cuts the time elapsed since year 1 in UTC, whatever the zone
Truncate(t, unit) == t - (t % unit)

\* time.Date(year, month + 1, 1, 0, 0, 0, 0, loc)
NextMonth(t, z) == ((DayNumber(t, z) \div DaysPerMonth) + 1) * DaysPerMonth * MinutesPerDay - z

NextDay(t) == Truncate(t + MinutesPerDay, MinutesPerDay)
NextHour(t) == Truncate(t + MinutesPerHour, MinutesPerHour)

\* a day matches by either field when both are given, by the given one otherwise
DayMatches(c, t, z) ==
  IF ~c.dom.any /\ ~c.dow.any
    THEN Match(c.dom, Day(t, z)) \/ Match(c.dow, Weekday(t, z))
    ELSE Match(c.dom, Day(t, z)) /\ Match(c.dow, Weekday(t, z))

Matches(c, t, z) ==
  /\ Match(c.month, Month(t, z)) /\ DayMatches(c, t, z)
  /\ Match(c.hour, Hour(t, z)) /\ Match(c.minute, Minute(t, z))

\* one turn of the loop of cronExpr.Next on a minute that does not match
Step(c, t, z) ==
  IF ~Match(c.month, Month(t, z)) THEN NextMonth(t, z)
  ELSE IF ~DayMatches(c, t, z) THEN NextDay(t)
  ELSE IF ~Match(c.hour, Hour(t, z)) THEN NextHour(t)
  ELSE t + 1

RECURSIVE Search(_, _, _, _)
Search(c, t, z, turns) ==
  IF turns = 0 THEN Never
  ELSE IF Matches(c, t, z) THEN t
  ELSE Search(c, Step(c, t, z), z, turns - 1)

\* cronExpr.Next: from the next minute on, as many turns as a year has minutes
CronNext(c, from, z) == Search(c, from + 1, z, MinutesPerYear)

\* Fault: a time that has passed is not moved on.
EveryNextStale(b, t) == b.anchor - (b.anchor % b.every) + b.every

\* computeNextFire of "every": the period counts from the epoch, and from the
\* clock once the anchor's next multiple has passed
EveryNext(b, t) ==
  LET anchor == IF b.anchor = Never THEN t ELSE b.anchor
      aligned == anchor - (anchor % b.every) + b.every
  IN IF aligned <= t THEN t + b.every ELSE aligned

\* computeNextFire
ComputeNextFire(b, t, z) ==
  CASE b.kind = "at" -> b.at
    [] b.kind = "every" -> EveryNext(b, t)
    [] b.kind = "cron" -> CronNext(ParseCronExpr(b.expr), t, z)

\* validateScheduleBody
BodyIsValid(b) ==
  CASE b.kind = "at" -> b.at # Never
    [] b.kind = "every" -> b.every > 0
    [] b.kind = "cron" -> ExprIsLegal(b.expr)

-----------------------------------------------------------------------------
TypeOK ==
  /\ now \in 0 .. Horizon /\ offset \in Offsets
  /\ body \in Bodies \cup {NoBody}
  /\ next \in Nat \cup {Never} /\ since \in 0 .. now
  /\ (body # NoBody) => BodyIsValid(body)
  /\ answer \in {"none", "ok", "refused"}

Init ==
  /\ now = 0 /\ offset \in Offsets /\ body = NoBody
  /\ next = Never /\ since = 0 /\ answer = "none"

\* HandleScheduleCreate: a body that does not validate, or never fires, is refused
Create(b) ==
  /\ body = NoBody
  /\ LET n == IF BodyIsValid(b) THEN ComputeNextFire(b, now, offset) ELSE Never
     IN IF n = Never
          THEN answer' = "refused" /\ UNCHANGED <<body, next, since>>
          ELSE body' = b /\ next' = n /\ since' = now /\ answer' = "ok"
  /\ UNCHANGED <<now, offset>>

\* ScheduleStore.Update writes every key of the patch, and the key "schedule"
\* names no column: the statement fails as a whole
HasColumn(key) == key # "schedule"

\* mergeBody: the keys of the patch over the stored ones
MergeBody(base, patch) == patch @@ base

\* HandleScheduleUpdate with a new body: schedule_json, kind and next_fire_at are
\* added to the patch, which still has the key "schedule"
Update(patch) ==
  /\ body # NoBody
  /\ LET b == MergeBody(body, patch) IN
       IF BodyIsValid(b) /\ HasColumn("schedule")
         THEN /\ body' = b /\ since' = now /\ answer' = "ok"
              /\ next' = ComputeNextFire(b, now, offset)
         ELSE answer' = "refused" /\ UNCHANGED <<body, next, since>>
  /\ UNCHANGED <<now, offset>>

\* Engine.trigger on a due row: the next time is computed from the clock, and
\* without one the row is left as it is
Fire ==
  /\ body # NoBody /\ next <= now
  /\ LET n == ComputeNextFire(body, now, offset)
     IN n # Never /\ next' = n /\ since' = now
  /\ UNCHANGED <<now, offset, body, answer>>

TimePasses ==
  /\ now < Horizon /\ (body # NoBody => now < next + MaxLate)
  /\ now' = now + 1
  /\ UNCHANGED <<offset, body, next, since, answer>>

Next ==
  \/ \E b \in Bodies : Create(b) \/ Update(b)
  \/ Fire
  \/ TimePasses

Spec == Init /\ [][Next]_vars

-----------------------------------------------------------------------------
\* What the five fields of a cron line mean, read off the text of the items.
Admits(items, v, min, max) ==
  \E i \in items : i = Star \/ \E k \in 0 .. max :
     v = (IF i.lo = -1 THEN min ELSE i.lo) + k * i.step /\ v <= (IF i.lo = -1 THEN max ELSE i.hi)

Says(e, t, z) ==
  LET dom == Admits(e.dom, Day(t, z), 1, DaysPerMonth)
      dow == \E v \in {Weekday(t, z), Weekday(t, z) + DaysPerWeek} :
                v <= DaysPerWeek /\ Admits(e.dow, v, 0, DaysPerWeek)
  IN /\ Admits(e.minute, Minute(t, z), 0, MinutesPerHour - 1)
     /\ Admits(e.hour, Hour(t, z), 0, HoursPerDay - 1)
     /\ Admits(e.month, Month(t, z), 1, MonthsPerYear)
     /\ IF e.dom # {Star} /\ e.dow # {Star} THEN dom \/ dow ELSE dom /\ dow

\* The stored time of a schedule is after the moment it was computed, and it
\* is one its body names in its own zone: a cron line matches it, a period is
\* at most one period ahead of the clock or of its anchor.
FiresWhenTold ==
  (body # NoBody) =>
    CASE body.kind = "at" -> next = body.at
      [] body.kind = "cron" -> next > since /\ Says(body.expr, next, offset)
      [] body.kind = "every" ->
           /\ next > since
           /\ next <= body.every + (IF body.anchor > since THEN body.anchor ELSE since)

Missed == {t \in since + 1 .. next - 1 : Says(body.expr, t, offset)}

\* In a zone of UTC no minute that the cron line names lies between the moment
\* of the search and the time it found; in a zone of whole hours none does when
\* the line restricts no day.
NothingIsPassedOver ==
  (body # NoBody /\ body.kind = "cron") =>
    \/ Missed = {}
    \/ offset % MinutesPerHour # 0
    \/ offset # 0 /\ (body.expr.dom # {Star} \/ body.expr.dow # {Star})

\* cron.go: "Next returns the next time strictly after from that matches expr
\* in loc".  The jumps to the next day and hour are cut in UTC, not in loc.
NextIsTheNext == (body # NoBody /\ body.kind = "cron") => Missed = {}
=============================================================================
