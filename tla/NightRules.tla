----------------------------- MODULE NightRules -----------------------------
(***************************************************************************)
(* The business night and who may touch it: closing/live-night.ts,         *)
(* closing/closing-access.ts and the date arithmetic they use.             *)
(*                                                                         *)
(* An instant is a natural number of clock units; a business date is the   *)
(* number of the day it falls in. Only the two facts the code asks of the  *)
(* clock are kept: which day it is, and whether it is before the hour at   *)
(* which last night ends.                                                  *)
(***************************************************************************)
EXTENDS Integers

CONSTANTS
    DayLength,   \* clock units in a day
    NightEnds    \* NIGHT_ENDS_AT_HOUR, in clock units after midnight

ASSUME NightAssumption ==
    /\ DayLength \in Nat \ {0}
    /\ NightEnds \in 0 .. DayLength

Roles == {"ADMIN", "CAIXA"}

\* toBusinessDate and businessHour, in the business time zone
DateOf(t)  == t \div DayLength
ClockOf(t) == t % DayLength

IsLiveNight(d, t) ==
    \/ d = DateOf(t)
    \/ d = DateOf(t) - 1 /\ ClockOf(t) < NightEnds

LiveNightDates(t) == {d \in {DateOf(t), DateOf(t) - 1} : IsLiveNight(d, t)}

\* assertCanSelectDate: the nights a user opens
CanSelectDate(role, d, t) == role = "ADMIN" \/ d \in LiveNightDates(t)

\* Plausible bug, for a mutant: the status of the night is not looked at.
CanEditAnyLiveClosing(role, d, status, t) == CanSelectDate(role, d, t)

\* assertCanEditClosing: where a user launches and edits
CanEditClosing(role, d, status, t) ==
    \/ role = "ADMIN"
    \/ CanSelectDate(role, d, t) /\ status # "CLOSED"

\* assertCanReopen; the manager's password the cashier adds is a refusal only
CanReopen(role, d, t) == CanSelectDate(role, d, t)

=============================================================================
