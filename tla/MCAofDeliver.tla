----------------------------- MODULE MCAofDeliver -----------------------------
(***************************************************************************)
(* The small instance of AofDeliver: two backends, one key for each.       *)
(***************************************************************************)
EXTENDS AofDeliver

CONSTANTS k1, k2, b1, b2

MCKeys == {k1, k2}
MCBackends == {b1, b2}
MCRoute == [k \in MCKeys |-> IF k = k1 THEN b1 ELSE b2]
\* One backend is enough for what must eventually happen to a command.
OneRoute == [k \in {k1} |-> b1]
=============================================================================
