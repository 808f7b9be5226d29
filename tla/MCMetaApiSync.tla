---------------------------- MODULE MCMetaApiSync ----------------------------
(* TLC instances of MetaApiSync.                                            *)
EXTENDS MetaApiSync, TLC

CONSTANTS p1, i1, i2, o1

Deal(p, entry, id, directed) ==
  [position |-> p, entry |-> entry, id |-> id, directed |-> directed]

(* One position, entered in one or two steps and left in one; only one of   *)
(* the entries tells the direction.                                         *)
OneHolder   == p1 :> 1
ScaledDeals == {Deal(p1, "in", i1, TRUE), Deal(p1, "in", i2, FALSE), Deal(p1, "out", o1, TRUE)}

(* Two accounts; the position of the second is entered.                     *)
SecondHolds == p1 :> 2
OneDeal     == {Deal(p1, "in", i1, TRUE)}

Interchangeable == Permutations(Runs)
=============================================================================
