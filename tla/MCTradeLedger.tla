---------------------------- MODULE MCTradeLedger ----------------------------
(* TLC instances of TradeLedger.                                           *)
EXTENDS TradeLedger, TLC

(* Sessions are interchangeable, and so are the ids of the rows.            *)
Interchangeable ==
  Permutations(Sessions) \cup Permutations(ExitIds) \cup Permutations(Trades)

(* One value where P/L is not the question.                                *)
Gain == {2}

(* Sets and clears of one field: the other is written the same way.         *)
Edits == {patch \in Patch \ {NoPatch} : patch.notes = Keep}
=============================================================================
