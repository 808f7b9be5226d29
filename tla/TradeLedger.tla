----------------------------- MODULE TradeLedger -----------------------------
(***************************************************************************)
(* The trade capability as the API runs it: TradeService                   *)
(* (apps/api/src/trades/tradeService.ts) over PgTradeStore                 *)
(* (pgTradeStore.ts) and the velora_apply_exit trigger (0001_core.sql).    *)
(*                                                                         *)
(* A request reads the trade in one statement, judges the event on that    *)
(* copy, may list the exits in another statement, and writes in a          *)
(* transaction of its own, so every read is stale by the time it is used.  *)
(* Each step below is one statement or one transaction of one request;     *)
(* requests of all sessions interleave, and a request may stop anywhere    *)
(* (an error response, a rollback, a crash of the API process).            *)
(***************************************************************************)
EXTENDS LedgerRows

CONSTANTS Sessions,    \* concurrent clients, one request at a time each
          Patches,     \* the journal patches clients send
          MaxVersion   \* bound: no mutation is attempted from this version on

ASSUME PatchesAreNotEmpty == Patches \subseteq Patch \ {NoPatch}
ASSUME MaxVersionIsNat == MaxVersion \in Nat

VARIABLES trade,    \* table trades
          exits,    \* table trade_exits
          events,   \* table trade_events, per trade in order of insertion
          session   \* what the request of a session has read so far

tables == <<trade, exits, events>>
vars   == <<trade, exits, events, session>>

Idle == [pc |-> "idle"]

(* A client that holds a representation of a trade, version included.       *)
Viewing == [pc : {"viewing"}, trade : Trades, seen : Row]

(* A gated event on its way to the store's transaction.  seen is the row    *)
(* the client named by its version, NoRow when it named none.               *)
Editing  == [pc : {"edit"}, trade : Trades, expected : Nat, patch : Patch,
             seen : Row \cup {NoRow}]
Deleting == [pc : {"delete"}, trade : Trades, expected : Nat,
             seen : Row \cup {NoRow}]

(* createExit before and after it has listed the active exits.              *)
ExitGated    == [pc : {"exitGated"}, trade : Trades, expected : Nat,
                 volume : Volumes, pnl : Pnls]
ExitProjected == [pc : {"exitProjected"}, trade : Trades, expected : Nat,
                 volume : Volumes, pnl : Pnls, net : Money]

(* deleteExit after it found the exit, gated the event, listed the others.  *)
CancelFound  == [pc : {"cancelFound"}, exit : ExitIds]
CancelGated  == [pc : {"cancelGated"}, exit : ExitIds, trade : Trades, expected : Nat]
CancelProjected == [pc : {"cancelProjected"}, exit : ExitIds, trade : Trades,
                 expected : Nat, net : Money]

Request == {Idle} \cup Viewing \cup Editing \cup Deleting \cup ExitGated
             \cup ExitProjected \cup CancelFound \cup CancelGated \cup CancelProjected

TypeOK ==
  /\ trade \in [Trades -> Row \cup {NoRow}]
  /\ exits \in [ExitIds -> ExitRow \cup {NoRow}]
  /\ events \in [Trades -> Seq(Event)]
  /\ session \in [Sessions -> Request]

Init ==
  /\ trade = [t \in Trades |-> NoRow]
  /\ exits = [e \in ExitIds |-> NoRow]
  /\ events = [t \in Trades |-> << >>]
  /\ session = [s \in Sessions |-> Idle]

-----------------------------------------------------------------------------
(* Reads of the store.                                                     *)

(* findActiveByIdForUser returns a row *)
Visible(t) == trade[t] # NoRow /\ ~trade[t].deleted

(* Seeded faults carry the prefix Faulty; no action uses them.              *)

(* fault: cancelled exits are listed, too *)
FaultyListedExits(t) ==
  IF Visible(t) THEN {e \in ExitIds : exits[e] # NoRow /\ exits[e].trade = t} ELSE {}

(* listActiveExitsForTrade: nothing once the trade is tombstoned *)
ListedExits(t) == IF Visible(t) THEN ActiveExits(exits, t) ELSE {}

(* fault: e.deleted_at IS NULL is missing *)
FaultyVisibleExit(e) == exits[e] # NoRow /\ Visible(exits[e].trade)

(* findActiveExitByIdForUser returns a row *)
VisibleExit(e) == exits[e] # NoRow /\ exits[e].active /\ Visible(exits[e].trade)

(* lockedParent: the row is locked and still at the version the event extends *)
LockedParent(t, expected) == Visible(t) /\ trade[t].version = expected

Stored(t, ev) == events' = [events EXCEPT ![t] = Append(@, ev)]

Answer(s) == session' = [session EXCEPT ![s] = Idle]

-----------------------------------------------------------------------------
(* createTrade: one transaction inserts the row and its event.             *)
CreateTrade(s, t) ==
  /\ session[s] = Idle
  /\ trade[t] = NoRow
  /\ \E volume \in Volumes, pnl \in Pnls, strategy, notes \in Text :
       LET row == NewRow(volume, pnl, strategy, notes)
       IN  /\ trade' = [trade EXCEPT ![t] = row]
           /\ Stored(t, Created(row))
  /\ UNCHANGED <<exits, session>>

(* getTrade: the client learns the row and its version.                     *)
GetTrade(s, t) ==
  /\ session[s] = Idle
  /\ Visible(t)
  /\ session' = [session EXCEPT ![s] =
                   [pc |-> "viewing", trade |-> t, seen |-> trade[t]]]
  /\ UNCHANGED tables

-----------------------------------------------------------------------------
(* updateTrade and deleteTrade.  The client names the version it saw, or    *)
(* none, and then the version of the copy just read is expected.  An empty  *)
(* patch answers with the row and stores nothing, so Patches has none.      *)

(* fault: the version the client names is not used *)
FaultyExpected(s, named) == trade[session[s].trade].version

Expected(s, named) ==
  IF named THEN session[s].seen.version ELSE trade[session[s].trade].version

Named(s, named) == IF named THEN session[s].seen ELSE NoRow

UpdateTrade(s, patch, named) ==
  /\ session[s].pc = "viewing"
  /\ LET t  == session[s].trade
         ev == Edited(Expected(s, named), patch)
     IN  /\ Visible(t) /\ trade[t].version < MaxVersion
         /\ Accepts(trade[t], ev)
         /\ session' = [session EXCEPT ![s] =
              [pc |-> "edit", trade |-> t, expected |-> ev.expected, patch |-> patch,
               seen |-> Named(s, named)]]
  /\ UNCHANGED tables

(* fault: a null in the patch counts as absent *)
FaultyEditJournaling(s) ==
  /\ session[s].pc = "edit"
  /\ LET t == session[s].trade
         p == session[s].patch
         v == session[s].expected
     IN  /\ LockedParent(t, v)
         /\ trade' = [trade EXCEPT ![t].strategy = IF p.strategy \in Labels THEN p.strategy ELSE @,
                                   ![t].notes = IF p.notes \in Labels THEN p.notes ELSE @,
                                   ![t].version = @ + 1]
         /\ Stored(t, Edited(v, p))
  /\ Answer(s)
  /\ UNCHANGED exits

EditJournaling(s) ==
  /\ session[s].pc = "edit"
  /\ LET t == session[s].trade
         p == session[s].patch
         v == session[s].expected
     IN  /\ LockedParent(t, v)
         /\ trade' = [trade EXCEPT ![t].strategy = IF p.strategy # Keep THEN p.strategy ELSE @,
                                   ![t].notes = IF p.notes # Keep THEN p.notes ELSE @,
                                   ![t].version = @ + 1]
         /\ Stored(t, Edited(v, p))
  /\ Answer(s)
  /\ UNCHANGED exits

DeleteTrade(s, named) ==
  /\ session[s].pc = "viewing"
  /\ LET t  == session[s].trade
         ev == Tombstoned(Expected(s, named))
     IN  /\ Visible(t) /\ trade[t].version < MaxVersion
         /\ Accepts(trade[t], ev)
         /\ session' = [session EXCEPT ![s] =
              [pc |-> "delete", trade |-> t, expected |-> ev.expected,
               seen |-> Named(s, named)]]
  /\ UNCHANGED tables

StoreTombstone(s) ==
  /\ session[s].pc = "delete"
  /\ LET t == session[s].trade
         v == session[s].expected
     IN  /\ LockedParent(t, v)
         /\ trade' = [trade EXCEPT ![t].deleted = TRUE, ![t].version = @ + 1]
         /\ Stored(t, Tombstoned(v))
  /\ Answer(s)
  /\ UNCHANGED exits

-----------------------------------------------------------------------------
(* createExit: read and gate, list and project, then the transaction.      *)

CreateExit(s, t, volume, pnl) ==
  /\ session[s] = Idle
  /\ Visible(t) /\ trade[t].version < MaxVersion
  /\ Accepts(trade[t], Recorded(trade[t].version, volume))
  /\ session' = [session EXCEPT ![s] =
       [pc |-> "exitGated", trade |-> t, expected |-> trade[t].version,
        volume |-> volume, pnl |-> pnl]]
  /\ UNCHANGED tables

ProjectExit(s) ==
  /\ session[s].pc = "exitGated"
  /\ LET r == session[s]
     IN  session' = [session EXCEPT ![s] =
           [pc |-> "exitProjected", trade |-> r.trade, expected |-> r.expected,
            volume |-> r.volume, pnl |-> r.pnl,
            net |-> Realized(exits, ListedExits(r.trade)) + r.pnl]]
  /\ UNCHANGED tables

(* velora_apply_exit raises when the exit does not fit *)
FitsVolume(t, volume) == trade[t].allocated + volume <= trade[t].volume

RecordExit(s) ==
  /\ session[s].pc = "exitProjected"
  /\ LET r == session[s]
     IN  /\ LockedParent(r.trade, r.expected)
         /\ FitsVolume(r.trade, r.volume)
         /\ \E e \in ExitIds :
              /\ exits[e] = NoRow
              /\ exits' = [exits EXCEPT ![e] = NewExit(r.trade, r.volume, r.pnl)]
         /\ trade' = [trade EXCEPT ![r.trade].allocated = @ + r.volume,
                                   ![r.trade].version = @ + 1,
                                   ![r.trade].netPnl = r.net]
         /\ Stored(r.trade, Recorded(r.expected, r.volume))
  /\ Answer(s)

-----------------------------------------------------------------------------
(* deleteExit: find the exit, read the trade and gate, list and project,   *)
(* then the transaction.                                                   *)

DeleteExit(s, e) ==
  /\ session[s] = Idle
  /\ VisibleExit(e)
  /\ session' = [session EXCEPT ![s] = [pc |-> "cancelFound", exit |-> e]]
  /\ UNCHANGED tables

GateCancel(s) ==
  /\ session[s].pc = "cancelFound"
  /\ LET e == session[s].exit
         t == exits[e].trade
     IN  /\ Visible(t) /\ trade[t].version < MaxVersion
         /\ Accepts(trade[t], Cancelled(trade[t].version, exits[e].volume))
         /\ session' = [session EXCEPT ![s] =
              [pc |-> "cancelGated", exit |-> e, trade |-> t,
               expected |-> trade[t].version]]
  /\ UNCHANGED tables

ProjectCancel(s) ==
  /\ session[s].pc = "cancelGated"
  /\ LET r == session[s]
     IN  session' = [session EXCEPT ![s] =
           [pc |-> "cancelProjected", exit |-> r.exit, trade |-> r.trade,
            expected |-> r.expected,
            net |-> Realized(exits, ListedExits(r.trade) \ {r.exit})]]
  /\ UNCHANGED tables

CancelExit(s) ==
  /\ session[s].pc = "cancelProjected"
  /\ LET r == session[s]
     IN  /\ VisibleExit(r.exit)
         /\ LockedParent(r.trade, r.expected)
         /\ exits' = [exits EXCEPT ![r.exit].active = FALSE]
         /\ trade' = [trade EXCEPT ![r.trade].allocated = @ - exits[r.exit].volume,
                                   ![r.trade].version = @ + 1,
                                   ![r.trade].netPnl = r.net]
         /\ Stored(r.trade, Cancelled(r.expected, exits[r.exit].volume))
  /\ Answer(s)

-----------------------------------------------------------------------------
(* A request ends without writing: 403, 404, 409, 422, a rollback, a crash. *)
GiveUp(s) ==
  /\ session[s] # Idle
  /\ Answer(s)
  /\ UNCHANGED tables

Next ==
  \E s \in Sessions :
    \/ \E t \in Trades :
         \/ CreateTrade(s, t)
         \/ GetTrade(s, t)
         \/ \E volume \in Volumes, pnl \in Pnls : CreateExit(s, t, volume, pnl)
    \/ \E named \in BOOLEAN :
         \/ \E patch \in Patches : UpdateTrade(s, patch, named)
         \/ DeleteTrade(s, named)
    \/ EditJournaling(s) \/ StoreTombstone(s)
    \/ ProjectExit(s) \/ RecordExit(s)
    \/ \E e \in ExitIds : DeleteExit(s, e)
    \/ GateCancel(s) \/ ProjectCancel(s) \/ CancelExit(s)
    \/ GiveUp(s)

Spec == Init /\ [][Next]_vars

-----------------------------------------------------------------------------
(* Properties.                                                             *)

(* The log of a trade is serial: the event after n others extends version  *)
(* n - 1, whoever wrote it, and the row is at the version of its last      *)
(* event.  Two requests that read the same version cannot both commit.     *)
VersionsAreSerial ==
  \A t \in Trades : trade[t] # NoRow =>
    /\ trade[t].version = Len(events[t]) - 1
    /\ \A i \in 2..Len(events[t]) : events[t][i].expected = i - 2

(* The allocated volume of a trade, which the trigger raises and the       *)
(* cancellation lowers, is the volume of its active exits and never more   *)
(* than the trade's own.                                                   *)
AllocationIsExact ==
  \A t \in Trades : trade[t] # NoRow =>
    /\ trade[t].allocated =
         SumOf({<<e, exits[e].volume>> : e \in ActiveExits(exits, t)})
    /\ trade[t].allocated <= trade[t].volume

(* The projection in trades is what the domain fold computes from the      *)
(* trade's events, although the store writes it with SQL of its own        *)
(* (net P/L is not part of the fold's state).                              *)
ProjectionIsReplay ==
  \A t \in Trades : trade[t] # NoRow =>
    LET replayed == Fold(events[t])[Len(events[t])]
    IN  trade[t] = [replayed EXCEPT !.netPnl = trade[t].netPnl]

(* An edit or deletion whose client named the version it saw changes       *)
(* exactly the row that client saw, or nothing: no update is lost.         *)
NoBlindOverwrite ==
  [][\A s \in Sessions :
       (EditJournaling(s) \/ StoreTombstone(s)) /\ session[s].seen # NoRow
         => trade[session[s].trade] = session[s].seen]_vars

(* A tombstone is final: the row, its log and its exits stay as they were, *)
(* whatever requests were under way when it was set.                       *)
TombstoneIsFinal ==
  [][\A t \in Trades : trade[t] # NoRow /\ trade[t].deleted =>
       /\ trade'[t] = trade[t] /\ events'[t] = events[t]
       /\ \A e \in ExitIds : exits[e] # NoRow /\ exits[e].trade = t => exits'[e] = exits[e]]_vars

(* The interleaved, stale-reading service behaves as the atomic ledger:    *)
(* every transaction that commits is one atomic operation, and the         *)
(* canonical net P/L it stores is the sum over the active exits, although  *)
(* it was projected from a list read before the transaction.               *)
Atomic == INSTANCE AtomicLedger WITH trade <- trade, exits <- exits, events <- events
RefinesAtomicLedger == Atomic!Spec
=============================================================================
