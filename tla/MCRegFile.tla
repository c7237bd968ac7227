------------------------------ MODULE MCRegFile ------------------------------
(***************************************************************************)
(* Instances of RegFile for TLC: X registers of two bits, W registers of   *)
(* one, a pinned and an unpinned register besides sp.                      *)
(***************************************************************************)
EXTENDS RegFile

MCFns == {[p \in Word \X Word |-> (3 * p[1] + p[2] + 1) % Size]}

\* No shift, and a shift to the left by one.
MCShifts == {NoShift, [w \in Word |-> (2 * w) % Size]}

\* A whole register, uxtw and sxtw.
MCExts == {NoShift, [w \in Word |-> w % Half],
           [w \in Word |-> (Size - (w % Half)) % Size]}
=============================================================================
