---------------------------- MODULE MCWorkHours ----------------------------
(* Small instances of WorkHours for TLC: days of eight units, weeks of three  *)
(* days, and offsets that change by one unit on one of days three to five.    *)
EXTENDS WorkHours

OneWindow == {[dayStart |-> 3, dayEnd |-> 6, days |-> d] : d \in {{0, 1}, {2}}}
Inverted  == [dayStart |-> 6, dayEnd |-> 3, days |-> {0, 1}]
MCConfigs == OneWindow \union {Inverted}

\* The zones whose clocks are moved by s when they show hour h of a day in ds.
ChangeAt(h, s, ds) ==
  {[base |-> b, shift |-> s, at |-> d * 8 + h - b] : b \in {-2, 0, 2}, d \in ds}

MCStarts == 16..40

\* Clocks that change in the small hours, forward at one and back at two, or while
\* the desk is open, forward at four and back at five.
FairZones ==
  UNION {ChangeAt(1, 1, 3..5), ChangeAt(2, -1, 3..5), ChangeAt(4, 1, 3..5), ChangeAt(5, -1, 3..5)}

\* Clocks that go forward at midnight.
MidnightZones == ChangeAt(0, 1, 3..5)

\* The instance without a change at midnight is one the theorems are about.
ASSUME FairlySet == Zones = FairZones => WellSet
=============================================================================
