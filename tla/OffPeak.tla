------------------------------- MODULE OffPeak -------------------------------
(***************************************************************************)
(* Discounts by the clock (pricing.rs, Windows and OffPeak).               *)
(*                                                                         *)
(* A schedule is written as day-and-time windows in a fixed offset from    *)
(* UTC, is normalised when it is loaded (a window that wraps midnight is   *)
(* split in two) and is written back from that form by every pull.  A      *)
(* schedule is a set of windows: their order means nothing.  `Minutes' is  *)
(* the length of a day and `Hour' of an hour in the units times are given  *)
(* in; an hour does not have to divide the day.                            *)
(***************************************************************************)
EXTENDS Integers

CONSTANTS
  Week,       \* days of the week; 0 is Monday
  Minutes,    \* MINUTES_PER_DAY
  Hour,
  Furthest,   \* 18 * 60, the offset a table may not exceed
  Thursday,   \* the day of the week time 0 falls on
  Schedules,  \* the windows a user may declare
  Offsets,    \* the tz a user may declare
  Multipliers \* ... and the multiplier, in percent

Days == 0..Week - 1

\* `Mon-Fri,Sun 22:00-02:00' is the items <<0, 4>>, <<6, 6>> and two times; a window
\* with no items recurs every day.
Spec == [items : SUBSET (Days \X Days), from : 0..Minutes, to : 0..Minutes]

\* `+08:00' or `-05:00'; `Z', or no tz at all.
OffsetText == [sign : {"+", "-", "Z", "absent"}, hours : Nat, minutes : Nat]

ASSUME OffPeakAssumption ==
  /\ Week \in Nat \ {0} /\ Minutes \in Nat \ {0} /\ Thursday \in Days
  /\ Hour \in Nat \ {0} /\ Furthest \in Nat
  /\ Schedules \subseteq SUBSET Spec /\ Offsets \subseteq OffsetText /\ Multipliers \subseteq Int

VARIABLES
  text, tz,             \* the windows and the offset as prices.json has them
  declared, declaredTz, \* ... as the user declared them (history)
  multiplier,
  rewritten             \* has a pull rewritten the file since? (history)

vars == <<text, tz, declared, declaredTz, multiplier, rewritten>>

-----------------------------------------------------------------------------
(***************************************************************************)
(* Loading: parse_days, TryFrom<Vec<String>>                               *)
(***************************************************************************)
\* A range may wrap the week.
ParseDays(items) ==
  IF items = {} THEN Days
  ELSE UNION {{(i[1] + step) % Week : step \in 0..(i[2] + Week - i[1]) % Week} : i \in items}

\* Slip: the half after midnight keeps its day.
SameDay(days) == days

NextDay(days) == {(d + 1) % Week : d \in days}

Halves(spec) ==
  LET days == ParseDays(spec.items)
  IN  IF spec.from < spec.to THEN {[days |-> days, from |-> spec.from, to |-> spec.to]}
      ELSE {[days |-> days, from |-> spec.from, to |-> Minutes],
            [days |-> NextDay(days), from |-> 0, to |-> spec.to]}

\* TryFrom<String> for Offset; unwrap_or_default.
ParseOffset(t) ==
  LET minutes == t.hours * Hour + t.minutes
  IN  CASE t.sign = "+" -> minutes [] t.sign = "-" -> -minutes [] OTHER -> 0

OffsetFits(t) ==
  t.sign \in {"+", "-"} => t.minutes < Hour /\ t.hours * Hour + t.minutes <= Furthest

\* `empty window': the whole prices.json does not load.
Readable(specs) == \A s \in specs : s.from # s.to

Load(specs) == UNION {Halves(s) : s \in specs}

(***************************************************************************)
(* Pricing: Windows::contains, OffPeak::factor_at                          *)
(***************************************************************************)
Contains(windows, at, offset) ==
  LET local == at + offset
      day   == (local \div Minutes + Thursday) % Week
  IN  \E w \in windows : day \in w.days /\ w.from <= local % Minutes /\ local % Minutes < w.to

\* A multiplier that is not positive is ignored: over-report, never hide spend.
Discount(applies) == IF multiplier > 0 /\ applies THEN multiplier ELSE 100

FactorAt(at) == Discount(Contains(Load(text), at, ParseOffset(tz)))

(***************************************************************************)
(* Writing: render_days, From<Windows>, From<Offset>                       *)
(***************************************************************************)
\* The maximal runs of days; one that wraps the week is written as two.
Runs(days) ==
  {r \in Days \X Days : /\ r[1] <= r[2] /\ r[1]..r[2] \subseteq days
                        /\ r[1] - 1 \notin days /\ r[2] + 1 \notin days}

\* Slip: a run loses its last day.
RenderDaysShort(days) ==
  IF days = Days THEN {}
  ELSE {<<r[1], IF r[1] < r[2] THEN r[2] - 1 ELSE r[2]>> : r \in Runs(days)}

RenderDays(days) == IF days = Days THEN {} ELSE Runs(days)

Render(windows) ==
  {[items |-> RenderDays(w.days), from |-> w.from, to |-> w.to] : w \in windows}

\* Slip: the hours of a negative offset are rounded away from zero, its minutes are not.
RenderOffsetFloor(o) ==
  IF o = 0 THEN [sign |-> "Z", hours |-> 0, minutes |-> 0]
  ELSE IF o < 0 THEN [sign |-> "-", hours |-> -(o \div Hour), minutes |-> (-o) % Hour]
  ELSE [sign |-> "+", hours |-> o \div Hour, minutes |-> o % Hour]

RenderOffset(o) ==
  LET m == IF o < 0 THEN -o ELSE o
  IN  IF o = 0 THEN [sign |-> "Z", hours |-> 0, minutes |-> 0]
      ELSE [sign |-> IF o < 0 THEN "-" ELSE "+", hours |-> m \div Hour, minutes |-> m % Hour]

\* A tz that is absent stays absent (skip_serializing_if).
Resaved(t) == IF t.sign = "absent" THEN t ELSE RenderOffset(ParseOffset(t))

-----------------------------------------------------------------------------
Init ==
  /\ declared \in Schedules /\ text = declared
  /\ declaredTz \in Offsets /\ tz = declaredTz
  /\ multiplier \in Multipliers
  /\ rewritten = FALSE

\* A pull writes the schedule it has loaded, whether or not its model has moved.
Rewrite ==
  /\ Readable(text) /\ OffsetFits(tz)
  /\ text' = Render(Load(text)) /\ tz' = Resaved(tz)
  /\ rewritten' = TRUE
  /\ UNCHANGED <<declared, declaredTz, multiplier>>

\* The file does not load: the pull leaves it alone.
Refuse ==
  /\ ~(Readable(text) /\ OffsetFits(tz))
  /\ UNCHANGED vars

Next == Rewrite \/ Refuse

Schedule == Init /\ [][Next]_vars

-----------------------------------------------------------------------------
(***************************************************************************)
(* Properties                                                              *)
(***************************************************************************)
\* What a schedule means, on the circle of the week: an instant is in a window when
\* less time has passed since the window opened than the window lasts.
WeekLength == Week * Minutes

Lasts(spec) == IF spec.from < spec.to THEN spec.to - spec.from
               ELSE spec.to - spec.from + Minutes

Scheduled(specs, at) ==
  LET local == at + ParseOffset(declaredTz) + Thursday * Minutes
  IN  \E s \in specs : \E d \in ParseDays(s.items) :
        (local - (d * Minutes + s.from)) % WeekLength < Lasts(s)

\* However often pulls rewrite the file, every instant is billed by the schedule as
\* it was declared, a window that wraps midnight, the week or the offset included,
\* and a multiplier that is no discount is never applied (README: windows; factor_at).
BilledAsDeclared ==
  Readable(text) /\ OffsetFits(tz) =>
    \A at \in -WeekLength..WeekLength - 1 : FactorAt(at) = Discount(Scheduled(declared, at))

\* A schedule a pull has written is the one the next pull writes (Windows: `re-writing
\* the file is idempotent').
RewritingSettles == [][ rewritten => text' = text /\ tz' = tz ]_vars

\* ... and a schedule that loads still loads after a pull.
StaysReadable ==
  Readable(declared) /\ OffsetFits(declaredTz) => Readable(text) /\ OffsetFits(tz)
=============================================================================
