-------------------------------- MODULE Window --------------------------------
(***************************************************************************)
(* The window a report looks at (since.rs; window_bound in check.rs): where *)
(* it opens, and which stored timestamps lie in it.                        *)
(*                                                                         *)
(* Instants are half seconds of UTC.  A timestamp is stored as text, and   *)
(* the text of a whole second has no fraction.                             *)
(***************************************************************************)
EXTENDS Integers

CONSTANTS
  Day,        \* half seconds in a day
  Offset,     \* local time less UTC
  Monday,     \* a local day that is a Monday
  MonthStarts \* the local days that are the first of a month

ASSUME WindowAssumption ==
  /\ Day \in Nat \ {0} /\ Day % 2 = 0
  /\ Offset \in Int /\ Offset % 2 = 0
  /\ Monday \in Int /\ MonthStarts \subseteq Int

LocalDay(t) == (t + Offset) \div Day
UtcDay(t)   == t \div Day

\* Slip: midnight in UTC.
UtcMidnight(d) == d * Day

\* The instant a local day begins.
Midnight(d) == d * Day - Offset

\* A bound is the text of an instant, a date, or empty.
Text(t) == [form |-> "instant", at |-> t]
Date(d) == [form |-> "date", at |-> d]
Empty   == [form |-> "empty", at |-> 0]

MondayOf(d)     == d - ((d - Monday) % 7)
FirstOfMonth(d) == CHOOSE f \in MonthStarts : f <= d /\ \A g \in MonthStarts : g <= d => g <= f

\* lower_bound: a specification of --since, asked `now'.
LowerBound(spec, now) ==
  CASE spec.form = "today"   -> Text(Midnight(LocalDay(now)))
    [] spec.form = "ago"     -> Text(now - spec.at)
    [] spec.form = "instant" -> Text(spec.at)
    [] spec.form = "date"    -> Date(spec.at)

\* window_bound: the period of a budget.
WindowBound(spec, now) ==
  LET today == LocalDay(now)
  IN  CASE spec.form = "day"   -> Text(Midnight(today))
        [] spec.form = "week"  -> Text(Midnight(MondayOf(today)))
        [] spec.form = "month" -> Text(Midnight(FirstOfMonth(today)))
        [] OTHER               -> LowerBound(spec, now)

Second(t) == t \div 2
Whole(t)  == t % 2 = 0

\* ts >= bound, as text: a date is a prefix, and in one second `.' sorts before `Z'.
AtOrAfter(t, bound) ==
  CASE bound.form = "empty"   -> TRUE
    [] bound.form = "date"    -> UtcDay(t) >= bound.at
    [] bound.form = "instant" ->
         \/ Second(t) > Second(bound.at)
         \/ Second(t) = Second(bound.at) /\ (Whole(t) \/ ~Whole(bound.at))
===============================================================================
