----------------------------- MODULE LedRotate -----------------------------
(***************************************************************************)
(* led.h on the MPC8313ERDB: LED_ON and LED_OFF both show the next value   *)
(* of a table.                                                             *)
(***************************************************************************)
EXTENDS Naturals, Sequences

\* MPC8313_LED_Values, counted from 1 here.
Values == <<1, 2, 4, 8, 128, 64, 32, 16>>

VARIABLES
  MPC8313_LED_Count,
  used                 \* the indices used so far
vars == <<MPC8313_LED_Count, used>>

\* LED_INIT.
Init == MPC8313_LED_Count = 0 /\ used = {}

LED_ROTATE ==
  /\ used' = used \cup {MPC8313_LED_Count}
  /\ MPC8313_LED_Count' = IF MPC8313_LED_Count + 1 = 9 THEN 0 ELSE MPC8313_LED_Count + 1

Spec == Init /\ [][LED_ROTATE]_vars

\* The comment on the table, "rotates a single LED off around the back of 8": what is
\* shown is always one of its eight values.
ShowsATableValue == \A n \in used : n + 1 \in DOMAIN Values
==============================================================================
