---------------------------- MODULE MCInterrupts ----------------------------
(***************************************************************************)
(* The tables of scancodes.h for TLC, one key for each kind of key.        *)
(***************************************************************************)
EXTENDS Interrupts

MCUnshifted ==
  [key \in Keys |->
     CASE key = "letter"                           -> "a"
       [] key = "symbol"                           -> "1"
       [] key \in {"enter", "backspace", "tab", "escape"} -> key
       [] OTHER                                    -> "none"]

MCShifted == [MCUnshifted EXCEPT !["letter"] = "A", !["symbol"] = "!"]

MCMessage == <<"message">>
=============================================================================
