----------------------------- MODULE MCKeyboard -----------------------------
(***************************************************************************)
(* Instances of Keyboard for TLC.  Of the characters typed no action looks *)
(* at more than how many there are; TLC may take two states for one that   *)
(* differ in characters of which all, or not all, are what the user meant. *)
(***************************************************************************)
EXTENDS Keyboard

View == <<hardware, pressedKeys, sinceRelease, count, cell, program,
          Len(typed), TypedAsMeant>>
=============================================================================
