---------------------------- MODULE AtomicLedger ----------------------------
(***************************************************************************)
(* What the trade capability promises (ADR-002): every mutation happens as *)
(* if it ran alone, between two states of the ledger.  It extends the      *)
(* current version of the trade by the event the domain fold accepts, and  *)
(* the canonical net P/L it leaves behind is the sum of the exits that are *)
(* active at that very moment.                                             *)
(***************************************************************************)
EXTENDS LedgerRows

VARIABLES trade, exits, events

Init ==
  /\ trade = [t \in Trades |-> NoRow]
  /\ exits = [e \in ExitIds |-> NoRow]
  /\ events = [t \in Trades |-> << >>]

Create(t, row) ==
  /\ trade[t] = NoRow
  /\ trade' = [trade EXCEPT ![t] = row]
  /\ events' = [events EXCEPT ![t] = Append(@, Created(row))]
  /\ UNCHANGED exits

(* The event ev extends trade t, which is left with net P/L net.            *)
Extend(t, ev, net) ==
  /\ trade[t] # NoRow
  /\ Accepts(trade[t], ev)
  /\ trade' = [trade EXCEPT ![t] = [ApplyEvent(trade[t], ev) EXCEPT !.netPnl = net]]
  /\ events' = [events EXCEPT ![t] = Append(@, ev)]

Edit(t, patch) ==
  /\ Extend(t, Edited(trade[t].version, patch), trade[t].netPnl)
  /\ UNCHANGED exits

Tombstone(t) ==
  /\ Extend(t, Tombstoned(trade[t].version), trade[t].netPnl)
  /\ UNCHANGED exits

RecordExit(t, e, volume, pnl) ==
  /\ exits[e] = NoRow
  /\ Extend(t, Recorded(trade[t].version, volume),
            Realized(exits, ActiveExits(exits, t)) + pnl)
  /\ exits' = [exits EXCEPT ![e] = NewExit(t, volume, pnl)]

CancelExit(t, e) ==
  /\ e \in ActiveExits(exits, t)
  /\ Extend(t, Cancelled(trade[t].version, exits[e].volume),
            Realized(exits, ActiveExits(exits, t) \ {e}))
  /\ exits' = [exits EXCEPT ![e].active = FALSE]

Next ==
  \E t \in Trades :
    \/ \E volume \in Volumes, pnl \in Pnls, strategy, notes \in Text :
          Create(t, NewRow(volume, pnl, strategy, notes))
    \/ \E patch \in Patch : Edit(t, patch)
    \/ Tombstone(t)
    \/ \E e \in ExitIds, volume \in Volumes, pnl \in Pnls : RecordExit(t, e, volume, pnl)
    \/ \E e \in ExitIds : CancelExit(t, e)

vars == <<trade, exits, events>>

Spec == Init /\ [][Next]_vars
=============================================================================
