------------------------------- MODULE MCLoops -------------------------------
(***************************************************************************)
(* TLC's instance of the loops that are followed iteration by iteration:   *)
(* the scans of the bitmap and of the page directory, and printf.  They    *)
(* share no state: one of them moves at a time, from its own initial       *)
(* state, so that every bitmap, directory and call of printf is reached,   *)
(* but not every combination of them.                                      *)
(***************************************************************************)
EXTENDS BitmapScan, PdeScan, Printf

vars == <<bitmap_vars, pde_vars, printf_vars>>

Init == BitmapInit /\ PdeInit /\ PrintfInit

Next ==
  \/ PdeInit /\ PrintfInit /\ BitmapNext /\ UNCHANGED <<pde_vars, printf_vars>>
  \/ BitmapInit /\ PrintfInit /\ PdeNext /\ UNCHANGED <<bitmap_vars, printf_vars>>
  \/ BitmapInit /\ PdeInit /\ PrintfNext /\ UNCHANGED <<bitmap_vars, pde_vars>>

Spec == Init /\ [][Next]_vars

\* Words of ten bits: both ends of the signed and the unsigned range, and of the
\* numbers of digits.
MCStrings == (300 :> << >>) @@ (301 :> <<percent, Specifier.d>>)
MCValues == {0, 9, 10, 15, 16, 255, 256, 511, 512, 513, 1023}
=============================================================================
