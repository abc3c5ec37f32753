------------------------------ MODULE MCCashDesk ------------------------------
(***************************************************************************)
(* Small instances of DeskReports. The clock has two units a day, the      *)
(* first before the hour the night ends, and starts on the evening of      *)
(* day 1, so day 1 is live until the second unit of day 2. Day 0 was       *)
(* imported.                                                               *)
(***************************************************************************)
EXTENDS DeskReports, TLC

CONSTANTS o1

NothingImported == <<>>
OneImported == <<o1>>

Interchangeable ==
    Permutations(Sessions) \cup Permutations(Payments)
    \cup Permutations(Orders \ ToSet(Imported))

=============================================================================
