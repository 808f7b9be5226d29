----------------------------- MODULE LedgerRows -----------------------------
(***************************************************************************)
(* The rows and events of the trade ledger and the domain fold over them:  *)
(* packages/domain/src/tradeLedger.ts with the columns of trades,          *)
(* trade_exits and trade_events that it and the services read.  Money is   *)
(* an integer (the code keeps exact decimals at a fixed scale); prices,    *)
(* times and symbols are left out, since no later operation changes them.  *)
(* One owner: every query of the store filters on user_id.                 *)
(***************************************************************************)
EXTENDS Integers, Sequences, FiniteSetsExt

CONSTANTS Trades,   \* ids of trades
          ExitIds,  \* ids of trade_exits rows
          Volumes,  \* volumes of trades and of exits
          Pnls,     \* net P/L values of a created trade and of an exit
          Labels,   \* journal texts
          Null,     \* SQL NULL in a journal column
          Keep,     \* a field the patch does not mention (undefined)
          NoRow     \* no such row

ASSUME VolumesArePositive == Volumes \subseteq Nat \ {0}
ASSUME PnlsAreIntegers == Pnls \subseteq Int
ASSUME KeepIsNoText == Keep # Null /\ Keep \notin Labels

Text  == Labels \cup {Null}
Patch == [strategy : Text \cup {Keep}, notes : Text \cup {Keep}]
NoPatch == [strategy |-> Keep, notes |-> Keep]

(* A sum of second components: over pairs of a row id and its money.        *)
SumOf(pairs) == MapThenSumSet(LAMBDA p : p[2], pairs)

(* A net P/L is a trade's own or a sum over exits, as it is projected.      *)
Money == LET sums == {SumOf(pairs) : pairs \in SUBSET (ExitIds \X Pnls)}
         IN  Pnls \cup sums \cup {sum + pnl : sum \in sums, pnl \in Pnls}

Row == [volume : Volumes, allocated : Nat, strategy : Text, notes : Text,
        version : Nat, deleted : BOOLEAN, netPnl : Money]

NewRow(volume, pnl, strategy, notes) ==
  [volume |-> volume, allocated |-> 0, strategy |-> strategy, notes |-> notes,
   version |-> 0, deleted |-> FALSE, netPnl |-> pnl]

NewExit(t, volume, pnl) ==
  [trade |-> t, volume |-> volume, pnl |-> pnl, active |-> TRUE]

ExitRow == [trade : Trades, volume : Volumes, pnl : Pnls, active : BOOLEAN]

ASSUME NoRowIsNoRow == NoRow \notin Row /\ NoRow \notin ExitRow

-----------------------------------------------------------------------------
(* Events: what storedEvent writes into trade_events.                      *)

Created(row)        == [type |-> "TRADE_CREATED", expected |-> 0, trade |-> row]
Edited(v, patch)    == [type |-> "JOURNALING_EDITED", expected |-> v, patch |-> patch]
Recorded(v, volume) == [type |-> "EXIT_RECORDED", expected |-> v, volume |-> volume]
Cancelled(v, volume) == [type |-> "EXIT_CANCELLED", expected |-> v, volume |-> volume]
Tombstoned(v)       == [type |-> "TOMBSTONE_SET", expected |-> v]

Event ==      [type : {"TRADE_CREATED"}, expected : {0}, trade : Row]
         \cup [type : {"JOURNALING_EDITED"}, expected : Nat, patch : Patch]
         \cup [type : {"EXIT_RECORDED", "EXIT_CANCELLED"}, expected : Nat, volume : Volumes]
         \cup [type : {"TOMBSTONE_SET"}, expected : Nat]

-----------------------------------------------------------------------------
(* The fold: applyEvent throws when Accepts is false.                      *)

Merge(old, new) == IF new = Keep THEN old ELSE new

Accepts(row, ev) ==
  /\ ev.type # "TRADE_CREATED"
  /\ ev.expected = row.version
  /\ ~row.deleted
  /\ ev.type = "EXIT_RECORDED" => row.allocated + ev.volume <= row.volume
  /\ ev.type = "EXIT_CANCELLED" => row.allocated - ev.volume >= 0

ApplyEvent(row, ev) ==
  CASE ev.type = "JOURNALING_EDITED" ->
         [row EXCEPT !.version = @ + 1,
                     !.strategy = Merge(@, ev.patch.strategy),
                     !.notes = Merge(@, ev.patch.notes)]
    [] ev.type = "EXIT_RECORDED" ->
         [row EXCEPT !.version = @ + 1, !.allocated = @ + ev.volume]
    [] ev.type = "EXIT_CANCELLED" ->
         [row EXCEPT !.version = @ + 1, !.allocated = @ - ev.volume]
    [] ev.type = "TOMBSTONE_SET" ->
         [row EXCEPT !.version = @ + 1, !.deleted = TRUE]

(* Events that ADR-002 names and no service of the repository emits         *)
(* (FINANCIAL_CORRECTED, ADMIN_CORRECTION, QUARANTINE_RAISED) are left out. *)

(* fold over a log whose events carry distinct ids: the state after each    *)
(* event, as a sequence as long as the log.                                 *)
Fold(log) ==
  LET state[i \in 1..Len(log)] ==
        IF i = 1 THEN log[1].trade ELSE ApplyEvent(state[i - 1], log[i])
  IN  state

-----------------------------------------------------------------------------
(* The realized ledger of a trade: its active exits, by id and P/L.         *)

ActiveExits(exits, t) ==
  {e \in ExitIds : exits[e] # NoRow /\ exits[e].trade = t /\ exits[e].active}

(* recomputeFromExits over a set of active exits *)
Realized(exits, ids) == SumOf({<<e, exits[e].pnl>> : e \in ids})
=============================================================================
