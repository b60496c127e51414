--------------------------- MODULE AppendOnlyStore ---------------------------
(***************************************************************************)
(* What the bundle files of plate promise: every piece is written behind   *)
(* all the earlier pieces of its bundle, so that no piece is ever          *)
(* overwritten.  A piece is [bundle, from, to], to excluded.               *)
(***************************************************************************)
EXTENDS Integers

VARIABLE pieces  \* the pieces written so far

Init == pieces = {}

Behind(x, y) == x.bundle = y.bundle => y.to <= x.from

Append == \E x \in pieces' \ pieces :
            /\ pieces' = pieces \cup {x}
            /\ x.from < x.to
            /\ \A y \in pieces : Behind(x, y)

Next == Append

Spec == Init /\ [][Next]_pieces
=============================================================================
