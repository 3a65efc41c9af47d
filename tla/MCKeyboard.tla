----------------------------- MODULE MCKeyboard -----------------------------
(***************************************************************************)
(* The A key, the left Shift key, Caps Lock, the two Ctrl keys, which have *)
(* one row of keymap, and Print Screen, which begins with a fake shift.    *)
(***************************************************************************)
EXTENDS Keyboard

CONSTANT none

MCKeys == {
    <<<<30, 2>>>>,
    <<<<42, 2>>>>,
    <<<<58, 2>>>>,
    <<<<29, 2>>>>,
    <<<<29, 3>>>>,
    <<<<42, 3>>, <<55, 3>>>> }
=============================================================================
