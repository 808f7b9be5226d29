---------------------------- MODULE MCJournalDrafts ----------------------------
(* TLC instances of JournalDrafts.                                          *)
EXTENDS JournalDrafts, TLC

CONSTANTS m1, m2

(* A message that lacks the last field, and one that fills them all.        *)
OneLacking == m1 :> (1..(FieldCount - 1))
LackingAndFull == m1 :> (1..(FieldCount - 1)) @@ m2 :> (1..FieldCount)
=============================================================================
