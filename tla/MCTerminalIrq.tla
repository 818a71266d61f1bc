---------------------------- MODULE MCTerminalIrq ----------------------------
(***************************************************************************)
(* A screen of two rows and two columns for TLC.  Both tables show the     *)
(* same character for a key: which one it is does not matter here.         *)
(***************************************************************************)
EXTENDS TerminalIrq

CONSTANT a

MCTable ==
  [key \in Keys |->
     CASE key \in {"letter", "symbol"} -> a
       [] key = "enter"                -> "newline"
       [] key = "backspace"            -> "backspace"
       [] key = "tab"                  -> "tab"
       [] key = "escape"               -> Other
       [] OTHER                        -> Unmapped]

\* A line and the newline behind it.
MCMessage == <<a, a, a, "newline">>

MCKernelChars == {a, "newline"}
=============================================================================
