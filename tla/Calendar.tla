------------------------------- MODULE Calendar -------------------------------
(***************************************************************************)
(* Whole local days and the instants they stand for: the From and To dates *)
(* of an export or a deletion (storage/export_csv.py), and the date under  *)
(* which the log table shows a record (core/models.py).  Time passes in    *)
(* slots, Slots of them to a local day.  A zone changes its offset once,   *)
(* at the instant zone.turn.                                               *)
(***************************************************************************)
EXTENDS Integers

CONSTANT Slots

ASSUME SlotsAssumption == Slots \in Nat \ {0}

Zone == [turn : Int, before : Int, after : Int]

Offset(zone, i) == IF i < zone.turn THEN zone.before ELSE zone.after

\* datetime.astimezone of an instant: what the clock on the wall says.
Local(zone, i) == i + Offset(zone, i)

\* datetime.astimezone of a time without a zone and with fold=0: of two
\* instants the first; in a gap, what the offset before it makes of it.
ToInstant(zone, t) ==
  IF t - zone.after >= zone.turn /\ t - zone.before >= zone.turn
  THEN t - zone.after
  ELSE t - zone.before

FirstSlot(day) == day * Slots
LastSlot(day)  == day * Slots + Slots - 1

\* Mutant: midnight is taken for midnight in UTC.
StartOfUtc(zone, day) == FirstSlot(day)

\* local_day_start_utc, local_day_end_utc.
StartOf(zone, day) == ToInstant(zone, FirstSlot(day))

\* Mutant: the To date is not inclusive.
EndOfExclusive(zone, day) == StartOf(zone, day) - 1

EndOf(zone, day) == ToInstant(zone, LastSlot(day))

-----------------------------------------------------------------------------
(* The reference.                                                          *)

\* format_for_display, as far as the date.
ShownOn(zone, i, day) ==
  FirstSlot(day) <= Local(zone, i) /\ Local(zone, i) <= LastSlot(day)

\* The wall clock shows t once: t is neither skipped nor repeated.
Once(zone, t) ==
  /\ ~(zone.turn + zone.before <= t /\ t < zone.turn + zone.after)
  /\ ~(zone.turn + zone.after <= t /\ t < zone.turn + zone.before)

\* The end of a day is neither skipped nor repeated.  That of the day before
\* counts as well: a gap over midnight hides the start of the next day.
Ordinary(zone, day) == Once(zone, LastSlot(day)) /\ Once(zone, FirstSlot(day) - 1)
=============================================================================
