----------------------------- MODULE MCServing ------------------------------
(* Instances of Serving for TLC.                                           *)
EXTENDS Serving, TLC

CONSTANTS u1, u2, d1, a1, y1, t1, t2

Uses(u) == {<<u, d1>>}

\* One customer and one return; then two customers who share a device, of whom the
\* other one has the old transaction, and one return each.  The newest edge is dated
\* one step after the clock begins.
TwoExports ==
    <<[rels |-> Uses(u1), orders |-> t1 :> u1, returns |-> {t1}, latest |-> 0],
      [rels |-> Uses(u1) \cup Uses(u2), orders |-> t1 :> u2 @@ t2 :> u1,
       returns |-> {t1, t2}, latest |-> 1]>>
=============================================================================
