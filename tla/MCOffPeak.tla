------------------------------ MODULE MCOffPeak ------------------------------
(***************************************************************************)
(* OffPeak for TLC: a week of four days of three time units, and hours of  *)
(* two, so that an offset takes both hours and minutes to write.           *)
(***************************************************************************)
EXTENDS OffPeak

CONSTANTS
  Froms, Tos \* the times a declared window may open and close

\* Every day, every range of days (those that wrap the week included), two days apart.
MCItems == {{}, {<<0, 0>>, <<2, 2>>}} \cup {{<<a, b>>} : a \in 0..Week - 1, b \in 0..Week - 1}

MCSpecs == {[items |-> i, from |-> f, to |-> t] : i \in MCItems, f \in Froms, t \in Tos}

\* One window, or two of which the second wraps midnight.
MCSchedules ==
  {{s} : s \in MCSpecs} \cup
  {{s, [items |-> {<<Week - 1, Week - 1>>}, from |-> Minutes - 1, to |-> 1]} : s \in MCSpecs}

MCOffset(sign, hours, minutes) == [sign |-> sign, hours |-> hours, minutes |-> minutes]

\* West and east, by an hour and a half and by less, zero in every spelling, too far.
MCOffsets ==
  {MCOffset("-", 1, 1), MCOffset("-", 0, 1), MCOffset("+", 1, 1), MCOffset("+", 2, 0),
   MCOffset("Z", 0, 0), MCOffset("absent", 0, 0), MCOffset("-", 0, 0), MCOffset("+", 3, 1)}

MCMultipliers == {-50, 50}
=============================================================================
