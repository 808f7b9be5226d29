-------------------------- MODULE TradeLedger_proofs --------------------------
(***************************************************************************)
(* Proofs about TradeLedger, for every set of sessions, trades, exits,     *)
(* volumes and amounts.                                                    *)
(***************************************************************************)
EXTENDS TradeLedger, FiniteSetTheorems, TLAPS

(* Trade t is at version v or has moved on.                                 *)
AtLeast(t, v) == trade[t] # NoRow /\ v <= trade[t].version

(* What a request has read is still true unless the trade has moved on.     *)
SessionOK(s) ==
  LET r == session[s] IN
  /\ r.pc = "viewing" =>
       /\ AtLeast(r.trade, r.seen.version)
       /\ trade[r.trade].version = r.seen.version => trade[r.trade] = r.seen
  /\ r.pc \in {"edit", "delete"} =>
       /\ AtLeast(r.trade, r.expected)
       /\ r.seen # NoRow /\ trade[r.trade].version = r.expected => trade[r.trade] = r.seen
  /\ r.pc \in {"exitGated", "exitProjected"} =>
       /\ AtLeast(r.trade, r.expected)
       /\ LockedParent(r.trade, r.expected) => FitsVolume(r.trade, r.volume)
  /\ r.pc = "exitProjected" =>
       (LockedParent(r.trade, r.expected) =>
          r.net = Realized(exits, ActiveExits(exits, r.trade)) + r.pnl)
  /\ r.pc = "cancelFound" => exits[r.exit] # NoRow
  /\ r.pc \in {"cancelGated", "cancelProjected"} =>
       /\ AtLeast(r.trade, r.expected)
       /\ exits[r.exit] # NoRow /\ exits[r.exit].trade = r.trade
       /\ LockedParent(r.trade, r.expected) =>
            trade[r.trade].allocated - exits[r.exit].volume >= 0
  /\ r.pc = "cancelProjected" =>
       (LockedParent(r.trade, r.expected) =>
          r.net = Realized(exits, ActiveExits(exits, r.trade) \ {r.exit}))

ExitsHaveTrades == \A e \in ExitIds : exits[e] # NoRow => trade[exits[e].trade] # NoRow

(* The inductive invariant.                                                 *)
IInv == TypeOK /\ ExitsHaveTrades /\ \A s \in Sessions : SessionOK(s)

-----------------------------------------------------------------------------
(* The realized sum of a set of exits lies in Money.                        *)
LEMMA RealizedIsMoney ==
  ASSUME TypeOK, NEW ids \in SUBSET ExitIds, \A e \in ids : exits[e] # NoRow
  PROVE  /\ Realized(exits, ids) \in Money
         /\ \A pnl \in Pnls : Realized(exits, ids) + pnl \in Money
<1> DEFINE pairs == {<<e, exits[e].pnl>> : e \in ids}
<1>1. pairs \in SUBSET (ExitIds \X Pnls)
  BY DEF TypeOK, ExitRow
<1>2. SumOf(pairs) \in {SumOf(p) : p \in SUBSET (ExitIds \X Pnls)}
  BY <1>1
<1>3. QED
  BY <1>2 DEF Realized, Money

(* Exits that keep their P/L keep their sum.                                *)
LEMMA RealizedIsStable ==
  ASSUME NEW before, NEW after, NEW ids, \A e \in ids : before[e].pnl = after[e].pnl
  PROVE  Realized(before, ids) = Realized(after, ids)
<1>1. {<<e, before[e].pnl>> : e \in ids} = {<<e, after[e].pnl>> : e \in ids}
  OBVIOUS
<1>2. QED
  BY <1>1 DEF Realized

(* A committed mutation of one trade leaves every other request coherent:   *)
(* a request about the same trade has become stale, a request about another *)
(* trade sees no difference.                                                *)
LEMMA Bystander ==
  ASSUME IInv, NEW s \in Sessions, session'[s] = session[s],
         NEW T \in Trades, trade[T] # NoRow, trade'[T] # NoRow,
         trade'[T].version = trade[T].version + 1,
         \A t \in Trades : t # T => trade'[t] = trade[t],
         \A e \in ExitIds : exits[e] # NoRow =>
           /\ exits'[e] # NoRow
           /\ exits'[e].trade = exits[e].trade
           /\ exits'[e].volume = exits[e].volume
           /\ exits'[e].pnl = exits[e].pnl,
         \A e \in ExitIds : exits'[e] # exits[e] => exits'[e] # NoRow /\ exits'[e].trade = T
  PROVE  SessionOK(s)'
<1> DEFINE r == session[s]
<1>1. r \in Request /\ SessionOK(s)
  BY DEF IInv, TypeOK
<1>0. trade[T].version \in Nat
  BY DEF IInv, TypeOK, Row
<1>2. \A t \in Trades, v \in Nat : AtLeast(t, v) => AtLeast(t, v)'
  BY <1>0 DEF AtLeast
<1>3. \A v \in Nat : AtLeast(T, v) => trade'[T].version # v /\ ~LockedParent(T, v)'
  BY <1>0 DEF AtLeast, LockedParent
<1>4. ASSUME NEW t \in Trades, t # T
      PROVE  /\ \A v \in Nat : LockedParent(t, v)' <=> LockedParent(t, v)
             /\ \A v \in Volumes : FitsVolume(t, v)' <=> FitsVolume(t, v)
             /\ ActiveExits(exits, t)' = ActiveExits(exits, t)
             /\ \A ids \in SUBSET ActiveExits(exits, t) :
                  Realized(exits', ids) = Realized(exits, ids)
  <2>1. ActiveExits(exits, t)' = ActiveExits(exits, t)
    BY <1>4 DEF ActiveExits
  <2>2. ASSUME NEW ids \in SUBSET ActiveExits(exits, t)
        PROVE  Realized(exits', ids) = Realized(exits, ids)
    <3>1. \A e \in ids : exits'[e].pnl = exits[e].pnl
      BY DEF ActiveExits
    <3>2. QED
      BY <3>1, RealizedIsStable
  <2>3. QED
    BY <2>1, <2>2, <1>4 DEF LockedParent, Visible, FitsVolume
<1>5. CASE r.pc = "idle"
  BY <1>5 DEF SessionOK
<1>6. CASE r \in Viewing
  <2>1. CASE r.trade = T
    BY <1>1, <1>2, <1>3, <1>6, <2>1 DEF SessionOK, Viewing, Row
  <2>2. CASE r.trade # T
    BY <1>1, <1>2, <1>4, <1>6, <2>2 DEF SessionOK, Viewing, Row
  <2>3. QED
    BY <2>1, <2>2
<1>7. CASE r \in Editing \cup Deleting
  <2>1. CASE r.trade = T
    BY <1>1, <1>2, <1>3, <1>7, <2>1 DEF SessionOK, Editing, Deleting, Row
  <2>2. CASE r.trade # T
    BY <1>1, <1>2, <1>4, <1>7, <2>2 DEF SessionOK, Editing, Deleting, Row
  <2>3. QED
    BY <2>1, <2>2
<1>8. CASE r \in ExitGated \cup ExitProjected
  <2>1. CASE r.trade = T
    BY <1>1, <1>2, <1>3, <1>8, <2>1 DEF SessionOK, ExitGated, ExitProjected
  <2>2. CASE r.trade # T
    BY <1>1, <1>2, <1>4, <1>8, <2>2 DEF SessionOK, ExitGated, ExitProjected
  <2>3. QED
    BY <2>1, <2>2
<1>9. CASE r \in CancelFound
  BY <1>1, <1>9 DEF SessionOK, CancelFound
<1>10. CASE r \in CancelGated \cup CancelProjected
  <2>1. CASE r.trade = T
    BY <1>1, <1>2, <1>3, <1>10, <2>1 DEF SessionOK, CancelGated, CancelProjected
  <2>2. CASE r.trade # T
    <3>1. /\ r.trade \in Trades /\ r.exit \in ExitIds /\ r.expected \in Nat
          /\ r.pc \in {"cancelGated", "cancelProjected"}
      BY <1>10 DEF CancelGated, CancelProjected
    <3>2. /\ trade'[r.trade] = trade[r.trade]
          /\ LockedParent(r.trade, r.expected)' <=> LockedParent(r.trade, r.expected)
          /\ AtLeast(r.trade, r.expected)' <=> AtLeast(r.trade, r.expected)
          /\ Realized(exits', ActiveExits(exits, r.trade)' \ {r.exit})
               = Realized(exits, ActiveExits(exits, r.trade) \ {r.exit})
      BY <1>4, <2>2, <3>1, ZenonT(40) DEF AtLeast
    <3>3. QED
      BY <1>1, <3>1, <3>2 DEF SessionOK
  <2>3. QED
    BY <2>1, <2>2
<1>11. QED
  BY <1>1, <1>5, <1>6, <1>7, <1>8, <1>9, <1>10 DEF Request, Idle

(* What a request has read does not depend on anything but the tables and   *)
(* the request itself.                                                      *)
LEMMA Unaffected ==
  ASSUME trade' = trade, exits' = exits, NEW o, session'[o] = session[o], SessionOK(o)
  PROVE  SessionOK(o)'
<1>1. /\ \A t, v : AtLeast(t, v)' <=> AtLeast(t, v)
      /\ \A t, v : LockedParent(t, v)' <=> LockedParent(t, v)
      /\ \A t, v : FitsVolume(t, v)' <=> FitsVolume(t, v)
      /\ \A t : ActiveExits(exits, t)' = ActiveExits(exits, t)
      /\ \A ids : Realized(exits, ids)' = Realized(exits, ids)
  BY DEF AtLeast, LockedParent, Visible, FitsVolume, ActiveExits, Realized
<1>2. QED
  BY <1>1 DEF SessionOK

(* A step that only reads keeps the invariant if what it has read is true.  *)
LEMMA Reader ==
  ASSUME IInv, UNCHANGED tables, NEW s \in Sessions, NEW r \in Request,
         session' = [session EXCEPT ![s] = r], SessionOK(s)'
  PROVE  IInv'
<1>1. TypeOK'
  BY DEF IInv, TypeOK, tables
<1>2. ExitsHaveTrades'
  BY DEF IInv, ExitsHaveTrades, tables
<1>3. ASSUME NEW o \in Sessions
      PROVE  SessionOK(o)'
  <2>1. CASE o = s
    BY <2>1
  <2>2. CASE o # s
    <3>1. session'[o] = session[o] /\ SessionOK(o)
      BY <2>2 DEF IInv, TypeOK
    <3>2. QED
      BY <3>1, Unaffected DEF tables
  <2>3. QED
    BY <2>1, <2>2
<1>4. QED
  BY <1>1, <1>2, <1>3 DEF IInv

LEMMA InitIInv == Init => IInv
<1> SUFFICES ASSUME Init PROVE IInv
  OBVIOUS
<1>1. TypeOK
  BY DEF Init, TypeOK, Request
<1>2. ExitsHaveTrades
  BY DEF Init, ExitsHaveTrades
<1>3. \A s \in Sessions : SessionOK(s)
  BY DEF Init, SessionOK, Idle
<1>4. QED
  BY <1>1, <1>2, <1>3 DEF IInv

(* The reading steps.                                                       *)
LEMMA ReadsKeepIInv ==
  ASSUME IInv, NEW s \in Sessions,
         \/ \E t \in Trades :
              \/ GetTrade(s, t)
              \/ \E volume \in Volumes, pnl \in Pnls : CreateExit(s, t, volume, pnl)
         \/ \E named \in BOOLEAN :
              \/ \E patch \in Patches : UpdateTrade(s, patch, named)
              \/ DeleteTrade(s, named)
         \/ ProjectExit(s)
         \/ \E e \in ExitIds : DeleteExit(s, e)
         \/ GateCancel(s) \/ ProjectCancel(s) \/ GiveUp(s)
  PROVE  IInv'
<1> USE DEF IInv
<1>0. /\ session \in [Sessions -> Request] /\ SessionOK(s)
      /\ \A t \in Trades : trade[t] # NoRow => trade[t] \in Row
      /\ \A e \in ExitIds : exits[e] # NoRow => exits[e] \in ExitRow
  BY DEF TypeOK
<1>1. ASSUME NEW t \in Trades, GetTrade(s, t) PROVE IInv'
  <2> DEFINE r == [pc |-> "viewing", trade |-> t, seen |-> trade[t]]
  <2>1. r \in Viewing
    BY <1>0, <1>1 DEF GetTrade, Visible, Viewing
  <2>2. session'[s] = r /\ trade'[t] = trade[t] /\ trade[t] # NoRow /\ trade[t].version \in Nat
    BY <1>0, <1>1 DEF GetTrade, tables, Visible, Row
  <2>3. SessionOK(s)'
    BY <2>2 DEF SessionOK, AtLeast
  <2>4. QED
    BY <1>1, <2>1, <2>3, Reader DEF GetTrade, Request
<1>2. ASSUME NEW t \in Trades, NEW volume \in Volumes, NEW pnl \in Pnls,
             CreateExit(s, t, volume, pnl)
      PROVE  IInv'
  <2> DEFINE r == [pc |-> "exitGated", trade |-> t, expected |-> trade[t].version,
                   volume |-> volume, pnl |-> pnl]
  <2>1. trade[t] # NoRow /\ trade[t].version \in Nat
    BY <1>0, <1>2 DEF CreateExit, Visible, Row
  <2>2. r \in ExitGated
    BY <2>1 DEF ExitGated
  <2>3. session'[s] = r /\ trade'[t] = trade[t] /\ FitsVolume(t, volume)
    BY <1>0, <1>2 DEF CreateExit, tables, Accepts, Recorded, FitsVolume
  <2>4. SessionOK(s)'
    BY <2>1, <2>3 DEF SessionOK, AtLeast, FitsVolume
  <2>5. QED
    BY <1>2, <2>2, <2>4, Reader DEF CreateExit, Request
<1>3. ASSUME NEW named \in BOOLEAN, NEW patch \in Patches, UpdateTrade(s, patch, named)
      PROVE  IInv'
  <2> DEFINE t == session[s].trade
             v == Expected(s, named)
             r == [pc |-> "edit", trade |-> t, expected |-> v, patch |-> patch,
                   seen |-> Named(s, named)]
  <2>1. session[s] \in Viewing
    BY <1>0, <1>3 DEF UpdateTrade, Request, Idle, Editing, Deleting, ExitGated,
                      ExitProjected, CancelFound, CancelGated, CancelProjected
  <2>2. t \in Trades /\ trade[t] \in Row /\ trade[t] # NoRow /\ v = trade[t].version
    BY <1>0, <1>3, <2>1 DEF UpdateTrade, Visible, Accepts, Edited, Viewing
  <2>3. r \in Editing
    BY <2>1, <2>2, PatchesAreNotEmpty DEF Editing, Row, Named, Viewing
  <2>4. session'[s] = r /\ trade' = trade
    BY <1>0, <1>3 DEF UpdateTrade, tables, Edited
  <2>5. Named(s, named) # NoRow => Named(s, named) = trade[t]
    BY <1>0, <2>1, <2>2 DEF SessionOK, Named, Expected, Viewing
  <2>6. SessionOK(s)'
    BY <2>2, <2>4, <2>5 DEF SessionOK, AtLeast, Row
  <2>7. session' = [session EXCEPT ![s] = r] /\ UNCHANGED tables
    BY <1>3 DEF UpdateTrade, Edited
  <2>8. QED
    BY <2>3, <2>6, <2>7, Reader DEF Request
<1>4. ASSUME NEW named \in BOOLEAN, DeleteTrade(s, named)
      PROVE  IInv'
  <2> DEFINE t == session[s].trade
             v == Expected(s, named)
             r == [pc |-> "delete", trade |-> t, expected |-> v, seen |-> Named(s, named)]
  <2>1. session[s] \in Viewing
    BY <1>0, <1>4 DEF DeleteTrade, Request, Idle, Editing, Deleting, ExitGated,
                      ExitProjected, CancelFound, CancelGated, CancelProjected
  <2>2. t \in Trades /\ trade[t] \in Row /\ trade[t] # NoRow /\ v = trade[t].version
    BY <1>0, <1>4, <2>1 DEF DeleteTrade, Visible, Accepts, Tombstoned, Viewing
  <2>3. r \in Deleting
    BY <2>1, <2>2 DEF Deleting, Row, Named, Viewing
  <2>4. session'[s] = r /\ trade' = trade
    BY <1>0, <1>4 DEF DeleteTrade, tables, Tombstoned
  <2>5. Named(s, named) # NoRow => Named(s, named) = trade[t]
    BY <1>0, <2>1, <2>2 DEF SessionOK, Named, Expected, Viewing
  <2>6. SessionOK(s)'
    BY <2>2, <2>4, <2>5 DEF SessionOK, AtLeast, Row
  <2>7. session' = [session EXCEPT ![s] = r] /\ UNCHANGED tables
    BY <1>4 DEF DeleteTrade, Tombstoned
  <2>8. QED
    BY <2>3, <2>6, <2>7, Reader DEF Request
<1>5. CASE ProjectExit(s)
  <2> DEFINE q == session[s]
             net == Realized(exits, ListedExits(q.trade)) + q.pnl
             r == [pc |-> "exitProjected", trade |-> q.trade, expected |-> q.expected,
                   volume |-> q.volume, pnl |-> q.pnl, net |-> net]
  <2>1. q \in ExitGated
    BY <1>0, <1>5 DEF ProjectExit, Request, Idle, Viewing, Editing, Deleting,
                      ExitProjected, CancelFound, CancelGated, CancelProjected
  <2>2. net \in Money
    <3>1. ListedExits(q.trade) \in SUBSET ExitIds
          /\ \A e \in ListedExits(q.trade) : exits[e] # NoRow
      BY DEF ListedExits, ActiveExits
    <3>2. QED
      BY <2>1, <3>1, RealizedIsMoney DEF ExitGated
  <2>3. r \in ExitProjected
    BY <2>1, <2>2 DEF ExitProjected, ExitGated
  <2>4. session' = [session EXCEPT ![s] = r] /\ UNCHANGED tables
    BY <1>5 DEF ProjectExit
  <2>5. session'[s] = r /\ trade' = trade /\ exits' = exits
    BY <1>0, <2>4 DEF tables
  <2>6. LockedParent(q.trade, q.expected) => net = Realized(exits, ActiveExits(exits, q.trade)) + q.pnl
    BY DEF LockedParent, ListedExits
  <2>7. SessionOK(s)'
    BY <1>0, <2>1, <2>5, <2>6
       DEF SessionOK, AtLeast, ExitGated, LockedParent, Visible, FitsVolume, ActiveExits, Realized
  <2>8. QED
    BY <2>3, <2>4, <2>7, Reader DEF Request
<1>6. ASSUME NEW e \in ExitIds, DeleteExit(s, e) PROVE IInv'
  <2> DEFINE r == [pc |-> "cancelFound", exit |-> e]
  <2>1. r \in CancelFound
    BY DEF CancelFound
  <2>2. session'[s] = r /\ exits'[e] # NoRow
    BY <1>0, <1>6 DEF DeleteExit, VisibleExit, tables
  <2>3. SessionOK(s)'
    BY <2>2 DEF SessionOK
  <2>4. QED
    BY <1>6, <2>1, <2>3, Reader DEF DeleteExit, Request
<1>7. CASE GateCancel(s)
  <2> DEFINE e == session[s].exit
             t == exits[e].trade
             r == [pc |-> "cancelGated", exit |-> e, trade |-> t, expected |-> trade[t].version]
  <2>1. session[s] \in CancelFound
    BY <1>0, <1>7 DEF GateCancel, Request, Idle, Viewing, Editing, Deleting,
                      ExitGated, ExitProjected, CancelGated, CancelProjected
  <2>2. e \in ExitIds /\ exits[e] # NoRow /\ t \in Trades /\ trade[t] # NoRow
        /\ trade[t].version \in Nat /\ trade[t].allocated - exits[e].volume >= 0
    BY <1>0, <1>7, <2>1 DEF GateCancel, CancelFound, SessionOK, ExitRow, Visible, Row,
                            Accepts, Cancelled
  <2>3. r \in CancelGated
    BY <2>2, SMTT(30) DEF CancelGated
  <2>4. session' = [session EXCEPT ![s] = r] /\ UNCHANGED tables
    BY <1>7 DEF GateCancel
  <2>5. session'[s] = r /\ trade' = trade /\ exits' = exits
    BY <1>0, <2>4 DEF tables
  <2>6. SessionOK(s)'
    <3>1. AtLeast(t, trade[t].version) /\ exits[e].trade = t
      BY <2>2 DEF AtLeast
    <3> HIDE DEF t, e
    <3>2. QED
      BY <2>2, <2>5, <3>1 DEF SessionOK, AtLeast
  <2>7. QED
    BY <2>3, <2>4, <2>6, Reader DEF Request
<1>8. CASE ProjectCancel(s)
  <2> DEFINE q == session[s]
             net == Realized(exits, ListedExits(q.trade) \ {q.exit})
             r == [pc |-> "cancelProjected", exit |-> q.exit, trade |-> q.trade,
                   expected |-> q.expected, net |-> net]
  <2>1. q \in CancelGated
    BY <1>0, <1>8 DEF ProjectCancel, Request, Idle, Viewing, Editing, Deleting,
                      ExitGated, ExitProjected, CancelFound, CancelProjected
  <2>2. net \in Money
    <3>1. ListedExits(q.trade) \ {q.exit} \in SUBSET ExitIds
          /\ \A e \in ListedExits(q.trade) \ {q.exit} : exits[e] # NoRow
      BY DEF ListedExits, ActiveExits
    <3>2. QED
      BY <3>1, RealizedIsMoney
  <2>3. r \in CancelProjected
    BY <2>1, <2>2 DEF CancelProjected, CancelGated
  <2>4. session' = [session EXCEPT ![s] = r] /\ UNCHANGED tables
    BY <1>8 DEF ProjectCancel
  <2>5. session'[s] = r /\ trade' = trade /\ exits' = exits
    BY <1>0, <2>4 DEF tables
  <2>6. LockedParent(q.trade, q.expected)
          => net = Realized(exits, ActiveExits(exits, q.trade) \ {q.exit})
    BY DEF LockedParent, ListedExits
  <2>7. SessionOK(s)'
    BY <1>0, <2>1, <2>5, <2>6
       DEF SessionOK, AtLeast, CancelGated, LockedParent, Visible, ActiveExits, Realized
  <2>8. QED
    BY <2>3, <2>4, <2>7, Reader DEF Request
<1>9. CASE GiveUp(s)
  <2>1. session'[s] = Idle
    BY <1>0, <1>9 DEF GiveUp, Answer
  <2>2. SessionOK(s)'
    BY <2>1 DEF SessionOK, Idle
  <2>3. QED
    BY <1>9, <2>2, Reader DEF GiveUp, Answer, Request
<1>10. QED
  BY <1>1, <1>2, <1>3, <1>4, <1>5, <1>6, <1>7, <1>8, <1>9

(* What every committed mutation does: it replaces the row of one trade by  *)
(* its successor, appends the event that extends that row, and touches no   *)
(* exit but those of that trade.                                            *)
Extends(T, row, ev) ==
  /\ trade[T] # NoRow
  /\ row.version = trade[T].version + 1 /\ ev.expected = trade[T].version
  /\ trade' = [trade EXCEPT ![T] = row]
  /\ Stored(T, ev)
  /\ \A e \in ExitIds : exits'[e] # exits[e] => exits'[e] # NoRow /\ exits'[e].trade = T

Commits(s) ==
  /\ session' = [session EXCEPT ![s] = Idle]
  /\ exits' \in [ExitIds -> ExitRow \cup {NoRow}]
  /\ \A e \in ExitIds : exits[e] # NoRow =>
       /\ exits'[e] # NoRow
       /\ exits'[e].trade = exits[e].trade
       /\ exits'[e].volume = exits[e].volume
       /\ exits'[e].pnl = exits[e].pnl
  /\ \E T \in Trades, row \in Row, ev \in Event : Extends(T, row, ev)

(* The transaction of s commits, everybody else's request stays coherent by *)
(* Bystander.                                                               *)
LEMMA CommitKeepsIInv ==
  ASSUME IInv, NEW s \in Sessions, Commits(s)
  PROVE  IInv'
<1>0. PICK T \in Trades, row \in Row, ev \in Event : Extends(T, row, ev)
  BY DEF Commits
<1> USE <1>0 DEF Commits, Extends
<1>1. /\ trade \in [Trades -> Row \cup {NoRow}] /\ session \in [Sessions -> Request]
      /\ events \in [Trades -> Seq(Event)]
  BY DEF IInv, TypeOK
<1>2. trade'[T] = row /\ trade'[T] # NoRow /\ \A t \in Trades : t # T => trade'[t] = trade[t]
  BY <1>1, NoRowIsNoRow
<1>3. TypeOK'
  <2>1. events' \in [Trades -> Seq(Event)]
    BY <1>1 DEF Stored
  <2>2. session' \in [Sessions -> Request]
    BY <1>1 DEF Request
  <2>3. trade' \in [Trades -> Row \cup {NoRow}]
    BY <1>1
  <2>4. QED
    BY <2>1, <2>2, <2>3 DEF TypeOK
<1>4. ExitsHaveTrades'
  BY <1>2 DEF IInv, ExitsHaveTrades
<1>5. ASSUME NEW o \in Sessions
      PROVE  SessionOK(o)'
  <2>1. CASE o = s
    <3>1. session'[o] = Idle
      BY <1>1, <2>1
    <3>2. QED
      BY <3>1 DEF SessionOK, Idle
  <2>2. CASE o # s
    <3>1. session'[o] = session[o]
      BY <1>1, <2>2
    <3>2. trade'[T].version = trade[T].version + 1
      BY <1>2
    <3>3. QED
      BY <1>2, <3>1, <3>2, Bystander
  <2>3. QED
    BY <2>1, <2>2
<1>6. QED
  BY <1>3, <1>4, <1>5 DEF IInv

LEMMA CreateKeepsIInv ==
  ASSUME IInv, NEW s \in Sessions, NEW t \in Trades, CreateTrade(s, t)
  PROVE  IInv'
<1>1. PICK volume \in Volumes, pnl \in Pnls, strategy \in Text, notes \in Text :
        /\ trade' = [trade EXCEPT ![t] = NewRow(volume, pnl, strategy, notes)]
        /\ Stored(t, Created(NewRow(volume, pnl, strategy, notes)))
  BY DEF CreateTrade
<1> DEFINE row == NewRow(volume, pnl, strategy, notes)
<1>2. row \in Row
  BY DEF NewRow, Row, Money
<1>3. /\ trade \in [Trades -> Row \cup {NoRow}] /\ events \in [Trades -> Seq(Event)]
      /\ trade[t] = NoRow /\ exits' = exits /\ session' = session
  BY DEF IInv, TypeOK, CreateTrade
<1>4. trade' \in [Trades -> Row \cup {NoRow}] /\ \A u \in Trades : u # t => trade'[u] = trade[u]
  BY <1>1, <1>2, <1>3
<1>5. Created(row) \in Event
  BY <1>2 DEF Created, Event
<1>6. TypeOK'
  BY <1>1, <1>3, <1>4, <1>5 DEF IInv, TypeOK, Stored
<1>7. ExitsHaveTrades'
  BY <1>3, <1>4 DEF IInv, ExitsHaveTrades, TypeOK, ExitRow
<1>8. ASSUME NEW o \in Sessions
      PROVE  SessionOK(o)'
  <2> DEFINE r == session[o]
  <2>1. SessionOK(o) /\ r \in Request
    BY DEF IInv, TypeOK
  <2>2. /\ \A u \in Trades, v \in Nat : AtLeast(u, v) => u # t
        /\ \A u \in Trades, v \in Nat : u # t => (AtLeast(u, v)' <=> AtLeast(u, v))
        /\ \A u \in Trades, v \in Nat : u # t => (LockedParent(u, v)' <=> LockedParent(u, v))
        /\ \A u \in Trades, v \in Volumes : u # t => (FitsVolume(u, v)' <=> FitsVolume(u, v))
    BY <1>3, <1>4 DEF AtLeast, LockedParent, Visible, FitsVolume
  <2>3. CASE r = Idle
    BY <1>3, <2>3 DEF SessionOK, Idle
  <2>4. CASE r \in Viewing
    BY <1>3, <1>4, <2>1, <2>2, <2>4 DEF SessionOK, Viewing, Row
  <2>5. CASE r \in Editing \cup Deleting
    BY <1>3, <1>4, <2>1, <2>2, <2>5 DEF SessionOK, Editing, Deleting
  <2>6. CASE r \in ExitGated \cup ExitProjected
    BY <1>3, <1>4, <2>1, <2>2, <2>6 DEF SessionOK, ExitGated, ExitProjected
  <2>7. CASE r \in CancelFound
    BY <1>3, <2>1, <2>7 DEF SessionOK, CancelFound
  <2>8. CASE r \in CancelGated \cup CancelProjected
    BY <1>3, <1>4, <2>1, <2>2, <2>8 DEF SessionOK, CancelGated, CancelProjected
  <2>9. QED
    BY <2>1, <2>3, <2>4, <2>5, <2>6, <2>7, <2>8 DEF Request
<1>9. QED
  BY <1>6, <1>7, <1>8 DEF IInv

(* The request whose transaction commits, as its program counter types it.  *)
LEMMA RequestTypes ==
  ASSUME TypeOK, NEW s \in Sessions
  PROVE  /\ session[s].pc = "viewing" => session[s] \in Viewing
         /\ session[s].pc = "edit" => session[s] \in Editing
         /\ session[s].pc = "delete" => session[s] \in Deleting
         /\ session[s].pc = "exitProjected" => session[s] \in ExitProjected
         /\ session[s].pc = "cancelProjected" => session[s] \in CancelProjected
BY DEF TypeOK, Request, Idle, Viewing, Editing, Deleting, ExitGated, ExitProjected,
       CancelFound, CancelGated, CancelProjected

(* A row with columns rewritten is a row.                                   *)
LEMMA RowWithColumn ==
  ASSUME NEW r \in Row
  PROVE  /\ \A x \in Text : [r EXCEPT !.strategy = x] \in Row
         /\ \A x \in Text : [r EXCEPT !.notes = x] \in Row
         /\ \A x \in Nat : [r EXCEPT !.version = x] \in Row
         /\ \A x \in Nat : [r EXCEPT !.allocated = x] \in Row
         /\ \A x \in Money : [r EXCEPT !.netPnl = x] \in Row
         /\ [r EXCEPT !.deleted = TRUE] \in Row
         /\ r.version \in Nat
BY DEF Row

LEMMA EditedRow ==
  ASSUME NEW r \in Row, NEW x \in Text, NEW y \in Text
  PROVE  LET new == [r EXCEPT !.strategy = x, !.notes = y, !.version = @ + 1]
         IN  new \in Row /\ new.version = r.version + 1
<1> DEFINE a == [r EXCEPT !.strategy = x]
           b == [a EXCEPT !.notes = y]
           c == [b EXCEPT !.version = b.version + 1]
<1>1. a \in Row /\ a.version = r.version
  BY RowWithColumn DEF Row
<1> HIDE DEF a
<1>2. b \in Row /\ b.version = a.version
  BY RowWithColumn, <1>1 DEF Row
<1> HIDE DEF b
<1>3. c \in Row /\ c.version = b.version + 1
  BY RowWithColumn, <1>2 DEF Row
<1>4. [r EXCEPT !.strategy = x, !.notes = y, !.version = @ + 1] = c
  BY DEF a, b
<1>5. QED
  BY <1>1, <1>2, <1>3, <1>4

LEMMA TombstonedRow ==
  ASSUME NEW r \in Row
  PROVE  LET new == [r EXCEPT !.deleted = TRUE, !.version = @ + 1]
         IN  new \in Row /\ new.version = r.version + 1
<1> DEFINE a == [r EXCEPT !.deleted = TRUE]
           b == [a EXCEPT !.version = a.version + 1]
<1>1. a \in Row /\ a.version = r.version
  BY RowWithColumn DEF Row
<1> HIDE DEF a
<1>2. b \in Row /\ b.version = a.version + 1
  BY RowWithColumn, <1>1 DEF Row
<1>3. [r EXCEPT !.deleted = TRUE, !.version = @ + 1] = b
  BY DEF a
<1>4. QED
  BY <1>1, <1>2, <1>3

LEMMA ReallocatedRow ==
  ASSUME NEW r \in Row, NEW n \in Nat, NEW m \in Money
  PROVE  LET new == [r EXCEPT !.allocated = n, !.version = @ + 1, !.netPnl = m]
         IN  new \in Row /\ new.version = r.version + 1
<1> DEFINE a == [r EXCEPT !.allocated = n]
           b == [a EXCEPT !.version = a.version + 1]
           c == [b EXCEPT !.netPnl = m]
<1>1. a \in Row /\ a.version = r.version
  BY RowWithColumn DEF Row
<1> HIDE DEF a
<1>2. b \in Row /\ b.version = a.version + 1
  BY RowWithColumn, <1>1 DEF Row
<1> HIDE DEF b
<1>3. c \in Row /\ c.version = b.version
  BY RowWithColumn, <1>2 DEF Row
<1>4. [r EXCEPT !.allocated = n, !.version = @ + 1, !.netPnl = m] = c
  BY DEF a, b
<1>5. QED
  BY <1>1, <1>2, <1>3, <1>4

LEMMA EditCommits ==
  ASSUME IInv, NEW s \in Sessions, EditJournaling(s)
  PROVE  Commits(s)
<1> DEFINE t == session[s].trade
           p == session[s].patch
           v == session[s].expected
           x == IF p.strategy # Keep THEN p.strategy ELSE trade[t].strategy
           y == IF p.notes # Keep THEN p.notes ELSE trade[t].notes
           row == [trade[t] EXCEPT !.strategy = x, !.notes = y, !.version = @ + 1]
<1>1. session[s] \in Editing
  BY RequestTypes DEF EditJournaling, IInv
<1>2. t \in Trades /\ trade[t] # NoRow /\ trade[t] \in Row /\ v \in Nat /\ p \in Patch
  BY <1>1 DEF EditJournaling, LockedParent, Visible, Editing, IInv, TypeOK
<1>3. row \in Row /\ row.version = trade[t].version + 1
  <2>1. x \in Text /\ y \in Text
    BY <1>2 DEF Row, Patch
  <2> HIDE DEF x, y
  <2>2. QED
    BY <1>2, <2>1, EditedRow
<1>4. trade' = [trade EXCEPT ![t] = row] /\ exits' = exits /\ Stored(t, Edited(v, p))
  BY <1>2 DEF EditJournaling, IInv, TypeOK
<1>5. Edited(v, p) \in Event
  BY <1>2 DEF Edited, Event
<1>5a. Edited(v, p).expected = trade[t].version
  BY DEF EditJournaling, LockedParent, Edited
<1>6. session' = [session EXCEPT ![s] = Idle] /\ exits' \in [ExitIds -> ExitRow \cup {NoRow}]
  BY <1>4 DEF EditJournaling, Answer, IInv, TypeOK
<1> HIDE DEF t, p, v, row
<1>7. QED
  BY <1>2, <1>3, <1>4, <1>5, <1>5a, <1>6 DEF Commits, Extends

LEMMA TombstoneCommits ==
  ASSUME IInv, NEW s \in Sessions, StoreTombstone(s)
  PROVE  Commits(s)
<1> DEFINE t == session[s].trade
           v == session[s].expected
           row == [trade[t] EXCEPT !.deleted = TRUE, !.version = @ + 1]
<1>1. session[s] \in Deleting
  BY RequestTypes DEF StoreTombstone, IInv
<1>2. t \in Trades /\ trade[t] # NoRow /\ trade[t] \in Row /\ v \in Nat
  BY <1>1 DEF StoreTombstone, LockedParent, Visible, Deleting, IInv, TypeOK
<1>3. row \in Row /\ row.version = trade[t].version + 1
  BY <1>2, TombstonedRow
<1>4. trade' = [trade EXCEPT ![t] = row] /\ exits' = exits /\ Stored(t, Tombstoned(v))
  BY <1>2 DEF StoreTombstone, IInv, TypeOK
<1>5. Tombstoned(v) \in Event
  BY <1>2 DEF Tombstoned, Event
<1>5a. Tombstoned(v).expected = trade[t].version
  BY DEF StoreTombstone, LockedParent, Tombstoned
<1>6. session' = [session EXCEPT ![s] = Idle] /\ exits' \in [ExitIds -> ExitRow \cup {NoRow}]
  BY <1>4 DEF StoreTombstone, Answer, IInv, TypeOK
<1> HIDE DEF t, v, row
<1>7. QED
  BY <1>2, <1>3, <1>4, <1>5, <1>5a, <1>6 DEF Commits, Extends

(* The exits of everybody but e, and of every column but active, persist.   *)
LEMMA RecordCommits ==
  ASSUME IInv, NEW s \in Sessions, RecordExit(s)
  PROVE  Commits(s)
<1> DEFINE r == session[s]
           t == r.trade
           n == trade[t].allocated + r.volume
           row == [trade[t] EXCEPT !.allocated = n, !.version = @ + 1, !.netPnl = r.net]
           ev == Recorded(r.expected, r.volume)
<1>1. r \in ExitProjected
  BY RequestTypes DEF RecordExit, IInv
<1>2. t \in Trades /\ trade[t] # NoRow /\ trade[t] \in Row /\ r.volume \in Volumes
      /\ r.pnl \in Pnls /\ r.net \in Money /\ r.expected \in Nat
  BY <1>1 DEF RecordExit, LockedParent, Visible, ExitProjected, IInv, TypeOK
<1>3. row \in Row /\ row.version = trade[t].version + 1
  <2>1. n \in Nat
    <3>1. trade[t].allocated \in Nat /\ r.volume \in Nat
      BY <1>2, VolumesArePositive DEF Row
    <3>2. QED
      BY <3>1
  <2> HIDE DEF n
  <2>2. QED
    BY <1>2, <2>1, ReallocatedRow
<1>4. trade' = [trade EXCEPT ![t] = row] /\ Stored(t, ev)
  BY <1>2 DEF RecordExit, IInv, TypeOK
<1>5. PICK e \in ExitIds :
        exits[e] = NoRow /\ exits' = [exits EXCEPT ![e] = NewExit(t, r.volume, r.pnl)]
  BY DEF RecordExit
<1>6. NewExit(t, r.volume, r.pnl) \in ExitRow /\ NewExit(t, r.volume, r.pnl).trade = t
  BY <1>2 DEF NewExit, ExitRow
<1>7. exits \in [ExitIds -> ExitRow \cup {NoRow}]
  BY DEF IInv, TypeOK
<1>8. ev \in Event
  BY <1>2 DEF Recorded, Event
<1>8a. ev.expected = trade[t].version
  BY DEF RecordExit, LockedParent, Recorded
<1>9. session' = [session EXCEPT ![s] = Idle]
  BY DEF RecordExit, Answer
<1>10. /\ exits' \in [ExitIds -> ExitRow \cup {NoRow}]
       /\ \A x \in ExitIds : exits[x] # NoRow => exits'[x] = exits[x]
       /\ \A x \in ExitIds : exits'[x] # exits[x] => exits'[x] # NoRow /\ exits'[x].trade = t
  BY <1>5, <1>6, <1>7, NoRowIsNoRow
<1> HIDE DEF t, n, row, ev
<1>11. QED
  BY <1>2, <1>3, <1>4, <1>8, <1>8a, <1>9, <1>10 DEF Commits, Extends

LEMMA CancelCommits ==
  ASSUME IInv, NEW s \in Sessions, CancelExit(s)
  PROVE  Commits(s)
<1> DEFINE r == session[s]
           t == r.trade
           e == r.exit
           n == trade[t].allocated - exits[e].volume
           row == [trade[t] EXCEPT !.allocated = n, !.version = @ + 1, !.netPnl = r.net]
           ev == Cancelled(r.expected, exits[e].volume)
<1>1. r \in CancelProjected /\ SessionOK(s)
  BY RequestTypes DEF CancelExit, IInv
<1>2. t \in Trades /\ trade[t] # NoRow /\ trade[t] \in Row
      /\ e \in ExitIds /\ r.net \in Money /\ r.expected \in Nat
  BY <1>1 DEF CancelExit, LockedParent, Visible, CancelProjected, IInv, TypeOK
<1>3. exits[e] \in ExitRow /\ exits[e] # NoRow /\ exits[e].trade = t /\ n >= 0
  BY <1>1, <1>2 DEF CancelExit, SessionOK, CancelProjected, IInv, TypeOK
<1>4. row \in Row /\ row.version = trade[t].version + 1
  <2>1. n \in Nat
    <3>1. trade[t].allocated \in Nat /\ exits[e].volume \in Volumes
      BY <1>2, <1>3 DEF Row, ExitRow
    <3>2. exits[e].volume \in Nat
      BY <3>1, VolumesArePositive
    <3>3. QED
      BY <1>3, <3>1, <3>2
  <2> HIDE DEF n
  <2>2. QED
    BY <1>2, <2>1, ReallocatedRow
<1>5. trade' = [trade EXCEPT ![t] = row] /\ Stored(t, ev)
  BY <1>2 DEF CancelExit, IInv, TypeOK
<1>6. /\ exits \in [ExitIds -> ExitRow \cup {NoRow}]
      /\ exits' = [exits EXCEPT ![e].active = FALSE]
  BY DEF CancelExit, IInv, TypeOK
<1>7. [exits[e] EXCEPT !.active = FALSE] \in ExitRow
  BY <1>3 DEF ExitRow
<1>8. ev \in Event
  BY <1>2, <1>3 DEF Cancelled, Event, ExitRow
<1>8a. ev.expected = trade[t].version
  BY DEF CancelExit, LockedParent, Cancelled
<1>9. session' = [session EXCEPT ![s] = Idle]
  BY DEF CancelExit, Answer
<1>10. /\ exits' \in [ExitIds -> ExitRow \cup {NoRow}]
       /\ \A x \in ExitIds : exits'[x] # exits[x] => x = e
       /\ exits'[e] # NoRow /\ exits'[e].trade = t
       /\ exits'[e].volume = exits[e].volume /\ exits'[e].pnl = exits[e].pnl
  BY <1>2, <1>3, <1>6, <1>7, NoRowIsNoRow DEF ExitRow
<1>11. \A x \in ExitIds : exits[x] # NoRow =>
         /\ exits'[x] # NoRow
         /\ exits'[x].trade = exits[x].trade
         /\ exits'[x].volume = exits[x].volume
         /\ exits'[x].pnl = exits[x].pnl
  BY <1>3, <1>10
<1>12. \A x \in ExitIds : exits'[x] # exits[x] => exits'[x] # NoRow /\ exits'[x].trade = t
  BY <1>10
<1> HIDE DEF t, n, row, ev, e
<1>13. QED
  BY <1>2, <1>4, <1>5, <1>8, <1>8a, <1>9, <1>10, <1>11, <1>12 DEF Commits, Extends

LEMMA NextKeepsIInv == IInv /\ [Next]_vars => IInv'
<1> SUFFICES ASSUME IInv, [Next]_vars PROVE IInv'
  OBVIOUS
<1>1. ASSUME NEW s \in Sessions, NEW t \in Trades, CreateTrade(s, t) PROVE IInv'
  BY <1>1, CreateKeepsIInv
<1>2. ASSUME NEW s \in Sessions, EditJournaling(s) PROVE IInv'
  BY <1>2, EditCommits, CommitKeepsIInv
<1>3. ASSUME NEW s \in Sessions, StoreTombstone(s) PROVE IInv'
  BY <1>3, TombstoneCommits, CommitKeepsIInv
<1>4. ASSUME NEW s \in Sessions, RecordExit(s) PROVE IInv'
  BY <1>4, RecordCommits, CommitKeepsIInv
<1>5. ASSUME NEW s \in Sessions, CancelExit(s) PROVE IInv'
  BY <1>5, CancelCommits, CommitKeepsIInv
<1>6. CASE UNCHANGED vars
  <2>1. trade' = trade /\ exits' = exits /\ events' = events /\ session' = session
    BY <1>6 DEF vars
  <2>2. \A s \in Sessions : SessionOK(s)'
    BY <2>1, Unaffected DEF IInv
  <2>3. QED
    BY <2>1, <2>2 DEF IInv, TypeOK, ExitsHaveTrades
<1>7. QED
  BY <1>1, <1>2, <1>3, <1>4, <1>5, <1>6, ReadsKeepIInv DEF Next

(* What every request has read is still true or provably stale.             *)
THEOREM Coherence == Spec => []IInv
BY InitIInv, NextKeepsIInv, PTL DEF Spec

(* Type correctness: no table holds a value its columns do not admit; the   *)
(* allocated volume never falls below zero.                                 *)
THEOREM TypeCorrectness == Spec => []TypeOK
<1>1. IInv => TypeOK
  BY DEF IInv
<1>2. QED
  BY <1>1, Coherence, PTL

(* No update is lost: an edit or a deletion whose client named a version    *)
(* commits only on the very row that client saw.                            *)
THEOREM NoLostUpdate == Spec => NoBlindOverwrite
<1> DEFINE A == \A s \in Sessions :
                  (EditJournaling(s) \/ StoreTombstone(s)) /\ session[s].seen # NoRow
                    => trade[session[s].trade] = session[s].seen
<1>1. IInv => A
  BY DEF IInv, SessionOK, EditJournaling, StoreTombstone, LockedParent
<1>2. IInv /\ [Next]_vars => [A]_vars
  BY <1>1
<1>3. QED
  BY <1>2, Coherence, PTL DEF Spec, NoBlindOverwrite

(* A trade that does not exist has no log.                                  *)
NoStrayLogs == \A t \in Trades : trade[t] = NoRow => events[t] = << >>

SerialLogs == VersionsAreSerial /\ NoStrayLogs

(* An event at the current version extends a serial log.                    *)
LEMMA SerialExtension ==
  ASSUME IInv, SerialLogs, NEW t \in Trades, NEW row \in Row, NEW ev \in Event,
         Extends(t, row, ev)
  PROVE  SerialLogs'
<1> DEFINE n == Len(events[t])
<1>1. /\ trade \in [Trades -> Row \cup {NoRow}] /\ events \in [Trades -> Seq(Event)]
      /\ trade[t] # NoRow /\ trade[t].version \in Nat
  BY DEF IInv, TypeOK, Row, Extends
<1>2. n \in Nat /\ trade[t].version = n - 1 /\ \A i \in 2..n : events[t][i].expected = i - 2
  BY <1>1 DEF SerialLogs, VersionsAreSerial
<1>3. /\ Len(events'[t]) = n + 1 /\ events'[t][n + 1] = ev
      /\ \A i \in 1..n : events'[t][i] = events[t][i]
  BY <1>1 DEF Extends, Stored
<1>4. trade'[t] = row /\ row # NoRow
  BY <1>1, NoRowIsNoRow DEF Extends
<1>5. \A u \in Trades : u # t => trade'[u] = trade[u] /\ events'[u] = events[u]
  BY <1>1 DEF Extends, Stored
<1>6. trade'[t].version = Len(events'[t]) - 1
  BY <1>2, <1>3, <1>4 DEF Extends
<1>7. ASSUME NEW i \in 2..(n + 1) PROVE events'[t][i].expected = i - 2
  <2>1. ev.expected = n - 1
    BY <1>2 DEF Extends
  <2> HIDE DEF n
  <2>2. CASE i = n + 1
    BY <1>2, <1>3, <2>1, <2>2
  <2>3. CASE i # n + 1
    <3>1. i \in 2..n /\ i \in 1..n
      BY <1>2, <2>3
    <3>2. QED
      BY <1>2, <1>3, <3>1
  <2>4. QED
    BY <2>2, <2>3
<1>8. \A i \in 2..Len(events'[t]) : events'[t][i].expected = i - 2
  BY <1>3, <1>7
<1> HIDE DEF n
<1>9. VersionsAreSerial'
  <2>1. ASSUME NEW u \in Trades, trade'[u] # NoRow
        PROVE  /\ trade'[u].version = Len(events'[u]) - 1
               /\ \A i \in 2..Len(events'[u]) : events'[u][i].expected = i - 2
    <3>1. CASE u = t
      BY <1>6, <1>8, <3>1
    <3>2. CASE u # t
      <4>1. trade'[u] = trade[u] /\ events'[u] = events[u]
        BY <1>5, <3>2
      <4>2. QED
        BY <2>1, <4>1 DEF SerialLogs, VersionsAreSerial
    <3>3. QED
      BY <3>1, <3>2
  <2>2. QED
    BY <2>1 DEF VersionsAreSerial
<1>10. NoStrayLogs'
  BY <1>4, <1>5 DEF SerialLogs, NoStrayLogs
<1>11. QED
  BY <1>9, <1>10 DEF SerialLogs

(* A created trade starts its own log.                                      *)
LEMMA SerialCreation ==
  ASSUME IInv, SerialLogs, NEW s \in Sessions, NEW t \in Trades, CreateTrade(s, t)
  PROVE  SerialLogs'
<1>1. PICK volume \in Volumes, pnl \in Pnls, strategy \in Text, notes \in Text :
        /\ trade' = [trade EXCEPT ![t] = NewRow(volume, pnl, strategy, notes)]
        /\ Stored(t, Created(NewRow(volume, pnl, strategy, notes)))
  BY DEF CreateTrade
<1> DEFINE row == NewRow(volume, pnl, strategy, notes)
<1>2. row \in Row /\ row.version = 0
  BY DEF NewRow, Row, Money
<1>3. trade \in [Trades -> Row \cup {NoRow}] /\ events \in [Trades -> Seq(Event)]
  BY DEF IInv, TypeOK
<1>4. events[t] = << >>
  BY DEF CreateTrade, SerialLogs, NoStrayLogs
<1> HIDE DEF row
<1>5. events' = [events EXCEPT ![t] = <<Created(row)>>]
  <2>1. events' = [events EXCEPT ![t] = Append(events[t], Created(row))]
    BY <1>1, <1>3 DEF Stored, row
  <2>2. Append(<< >>, Created(row)) = <<Created(row)>>
    OBVIOUS
  <2>3. QED
    BY <1>4, <2>1, <2>2
<1>6. /\ trade'[t] = row /\ row # NoRow /\ Len(events'[t]) = 1
      /\ \A u \in Trades : u # t => trade'[u] = trade[u] /\ events'[u] = events[u]
  BY <1>1, <1>2, <1>3, <1>5, NoRowIsNoRow DEF row
<1>7. VersionsAreSerial'
  <2>1. ASSUME NEW u \in Trades, trade'[u] # NoRow
        PROVE  /\ trade'[u].version = Len(events'[u]) - 1
               /\ \A i \in 2..Len(events'[u]) : events'[u][i].expected = i - 2
    <3>1. CASE u = t
      <4>1. trade'[u] = row /\ Len(events'[u]) = 1 /\ 2..1 = {}
        BY <1>6, <3>1
      <4>2. QED
        BY <1>2, <4>1
    <3>2. CASE u # t
      <4>1. trade'[u] = trade[u] /\ events'[u] = events[u]
        BY <1>6, <3>2
      <4>2. QED
        BY <2>1, <4>1 DEF SerialLogs, VersionsAreSerial
    <3>3. QED
      BY <3>1, <3>2
  <2>2. QED
    BY <2>1 DEF VersionsAreSerial
<1>8. NoStrayLogs'
  BY <1>6 DEF SerialLogs, NoStrayLogs
<1>9. QED
  BY <1>7, <1>8 DEF SerialLogs

(* The log of every trade is serial, whatever requests raced for it.        *)
THEOREM SerialVersions == Spec => []VersionsAreSerial
<1>1. Init => SerialLogs
  BY DEF Init, SerialLogs, VersionsAreSerial, NoStrayLogs
<1>2. IInv /\ SerialLogs /\ [Next]_vars => SerialLogs'
  <2> SUFFICES ASSUME IInv, SerialLogs, [Next]_vars PROVE SerialLogs'
    OBVIOUS
  <2>1. ASSUME trade' = trade, events' = events PROVE SerialLogs'
    BY <2>1 DEF SerialLogs, VersionsAreSerial, NoStrayLogs
  <2>2. ASSUME NEW s \in Sessions, NEW t \in Trades, CreateTrade(s, t) PROVE SerialLogs'
    BY <2>2, SerialCreation
  <2>3. ASSUME NEW s \in Sessions, Commits(s) PROVE SerialLogs'
    BY <2>3, SerialExtension DEF Commits
  <2>4. QED
    BY <2>1, <2>2, <2>3, EditCommits, TombstoneCommits, RecordCommits, CancelCommits, ZenonT(40)
       DEF Next, vars, tables, GetTrade, CreateExit, UpdateTrade, DeleteTrade, ProjectExit,
           DeleteExit, GateCancel, ProjectCancel, GiveUp
<1>3. SerialLogs => VersionsAreSerial
  BY DEF SerialLogs
<1>4. QED
  BY <1>1, <1>2, <1>3, Coherence, PTL DEF Spec

(* A tombstone is final, for the row, its log and its exits.                *)
THEOREM TombstoneFinality == Spec => TombstoneIsFinal
<1> DEFINE A == \A t \in Trades : trade[t] # NoRow /\ trade[t].deleted =>
                  /\ trade'[t] = trade[t] /\ events'[t] = events[t]
                  /\ \A e \in ExitIds :
                       exits[e] # NoRow /\ exits[e].trade = t => exits'[e] = exits[e]
<1>1. ASSUME IInv, Next PROVE A
  <2>1. TypeOK /\ \A s \in Sessions : SessionOK(s)
    BY <1>1 DEF IInv
  <2>2. ASSUME UNCHANGED tables PROVE A
    BY <2>2 DEF tables
  <2>3. ASSUME NEW s \in Sessions, NEW t \in Trades, CreateTrade(s, t) PROVE A
    BY <2>1, <2>3 DEF CreateTrade, Stored, TypeOK
  <2>4. ASSUME NEW s \in Sessions, EditJournaling(s) PROVE A
    BY <2>1, <2>4, RequestTypes DEF EditJournaling, LockedParent, Visible, Stored, TypeOK
  <2>5. ASSUME NEW s \in Sessions, StoreTombstone(s) PROVE A
    BY <2>1, <2>5, RequestTypes DEF StoreTombstone, LockedParent, Visible, Stored, TypeOK
  <2>6. ASSUME NEW s \in Sessions, RecordExit(s) PROVE A
    BY <2>1, <2>6, RequestTypes DEF RecordExit, LockedParent, Visible, Stored, TypeOK
  <2>7. ASSUME NEW s \in Sessions, CancelExit(s) PROVE A
    <3>1. session[s] \in CancelProjected /\ session[s].pc = "cancelProjected"
      BY <2>1, <2>7, RequestTypes DEF CancelExit
    <3>2. exits[session[s].exit].trade = session[s].trade
      BY <2>1, <3>1 DEF SessionOK
    <3>3. QED
      BY <2>1, <2>7, <3>1, <3>2 DEF CancelExit, LockedParent, Visible, Stored, TypeOK,
                                     CancelProjected
  <2>8. QED
    BY <1>1, <2>2, <2>3, <2>4, <2>5, <2>6, <2>7
       DEF Next, GetTrade, CreateExit, UpdateTrade, DeleteTrade, ProjectExit, DeleteExit,
           GateCancel, ProjectCancel, GiveUp
<1>2. IInv /\ [Next]_vars => [A]_vars
  BY <1>1
<1>3. QED
  BY <1>2, Coherence, PTL DEF Spec, TombstoneIsFinal

-----------------------------------------------------------------------------
(* What the store writes into the row is what the fold applies to it.       *)
LEMMA EditIsApplied ==
  ASSUME NEW r \in Row, NEW p \in Patch, NEW v
  PROVE  [Atomic!ApplyEvent(r, Edited(v, p)) EXCEPT !.netPnl = r.netPnl]
           = [r EXCEPT !.strategy = IF p.strategy # Keep THEN p.strategy ELSE @,
                       !.notes = IF p.notes # Keep THEN p.notes ELSE @,
                       !.version = @ + 1]
<1> DEFINE x == IF p.strategy # Keep THEN p.strategy ELSE r.strategy
           y == IF p.notes # Keep THEN p.notes ELSE r.notes
<1>1. Atomic!ApplyEvent(r, Edited(v, p))
        = [r EXCEPT !.version = @ + 1, !.strategy = x, !.notes = y]
  BY DEF Atomic!ApplyEvent, Edited, Atomic!Merge
<1>2. x \in Text /\ y \in Text
  BY DEF Row, Patch
<1> HIDE DEF x, y
<1>3. [[r EXCEPT !.version = @ + 1, !.strategy = x, !.notes = y] EXCEPT !.netPnl = r.netPnl]
        = [r EXCEPT !.strategy = x, !.notes = y, !.version = @ + 1]
  BY <1>2 DEF Row
<1>4. QED
  BY <1>1, <1>3 DEF x, y

LEMMA TombstoneIsApplied ==
  ASSUME NEW r \in Row, NEW v
  PROVE  [Atomic!ApplyEvent(r, Tombstoned(v)) EXCEPT !.netPnl = r.netPnl]
           = [r EXCEPT !.deleted = TRUE, !.version = @ + 1]
<1>1. Atomic!ApplyEvent(r, Tombstoned(v)) = [r EXCEPT !.version = @ + 1, !.deleted = TRUE]
  BY DEF Atomic!ApplyEvent, Tombstoned
<1>2. [[r EXCEPT !.version = @ + 1, !.deleted = TRUE] EXCEPT !.netPnl = r.netPnl]
        = [r EXCEPT !.deleted = TRUE, !.version = @ + 1]
  BY DEF Row
<1>3. QED
  BY <1>1, <1>2

Applied(r, ev, net) == [Atomic!ApplyEvent(r, ev) EXCEPT !.netPnl = net]
Reallocated(r, n, net) == [r EXCEPT !.allocated = n, !.version = @ + 1, !.netPnl = net]

LEMMA AllocationIsApplied ==
  ASSUME NEW r \in Row, NEW volume \in Int, NEW v, NEW net
  PROVE  /\ Applied(r, Recorded(v, volume), net) = Reallocated(r, r.allocated + volume, net)
         /\ Applied(r, Cancelled(v, volume), net) = Reallocated(r, r.allocated - volume, net)
<1>1. Atomic!ApplyEvent(r, Recorded(v, volume))
        = [r EXCEPT !.version = @ + 1, !.allocated = @ + volume]
  BY DEF Atomic!ApplyEvent, Recorded
<1>2. Atomic!ApplyEvent(r, Cancelled(v, volume))
        = [r EXCEPT !.version = @ + 1, !.allocated = @ - volume]
  BY DEF Atomic!ApplyEvent, Cancelled
<1>3. ASSUME NEW n
      PROVE  [[r EXCEPT !.version = @ + 1, !.allocated = n] EXCEPT !.netPnl = net]
               = [r EXCEPT !.allocated = n, !.version = @ + 1, !.netPnl = net]
  BY DEF Row
<1>4. QED
  BY <1>1, <1>2, <1>3 DEF Applied, Reallocated

(* The abstract ledger reads the exits as the service does.                 *)
LEMMA SameReads ==
  /\ \A ids : Atomic!Realized(exits, ids) = Realized(exits, ids)
  /\ \A t : Atomic!ActiveExits(exits, t) = ActiveExits(exits, t)
<1>1. \A ids : Atomic!Realized(exits, ids) = Realized(exits, ids)
  BY DEF Realized, Atomic!Realized, SumOf, Atomic!SumOf, MapThenSumSet,
         Atomic!MapThenSumSet, MapThenFoldSet, Atomic!MapThenFoldSet
<1>2. \A t : Atomic!ActiveExits(exits, t) = ActiveExits(exits, t)
  BY DEF ActiveExits, Atomic!ActiveExits
<1>3. QED
  BY <1>1, <1>2

(* Every committed transaction is one step of the atomic ledger: the copy   *)
(* the event was judged on, and the list the net P/L was projected from,    *)
(* are those of the state the transaction commits in.                       *)
LEMMA StepsAreAtomic ==
  ASSUME IInv, [Next]_vars
  PROVE  [Atomic!Next]_(Atomic!vars)
<1>1. TypeOK /\ \A s \in Sessions : SessionOK(s)
  BY DEF IInv
<1>2. ASSUME UNCHANGED tables PROVE UNCHANGED Atomic!vars
  BY <1>2 DEF tables, Atomic!vars
<1>3. ASSUME NEW s \in Sessions, NEW t \in Trades, CreateTrade(s, t) PROVE Atomic!Next
  <2>1. PICK volume \in Volumes, pnl \in Pnls, strategy \in Text, notes \in Text :
          /\ trade' = [trade EXCEPT ![t] = NewRow(volume, pnl, strategy, notes)]
          /\ Stored(t, Created(NewRow(volume, pnl, strategy, notes)))
    BY <1>3 DEF CreateTrade
  <2>2. trade[t] = NoRow /\ UNCHANGED exits
    BY <1>3 DEF CreateTrade
  <2>3. Atomic!Create(t, NewRow(volume, pnl, strategy, notes))
    BY <2>1, <2>2 DEF Stored, Atomic!Create, Created, Atomic!Created
  <2>4. QED
    BY <2>3 DEF Atomic!Next, NewRow, Atomic!NewRow, Text, Atomic!Text
<1>4. ASSUME NEW s \in Sessions, EditJournaling(s) PROVE Atomic!Next
  <2> DEFINE t == session[s].trade
             p == session[s].patch
             v == session[s].expected
  <2>1. session[s] \in Editing
    BY <1>1, <1>4, RequestTypes DEF EditJournaling
  <2>2. t \in Trades /\ p \in Patch
    BY <2>1 DEF Editing
  <2>3. trade[t] # NoRow /\ ~trade[t].deleted /\ trade[t].version = v /\ trade[t] \in Row
    BY <1>1, <1>4, <2>2 DEF EditJournaling, LockedParent, Visible, TypeOK
  <2>4. /\ trade' = [trade EXCEPT ![t] =
              [trade[t] EXCEPT !.strategy = IF p.strategy # Keep THEN p.strategy ELSE @,
                               !.notes = IF p.notes # Keep THEN p.notes ELSE @,
                               !.version = @ + 1]]
        /\ events' = [events EXCEPT ![t] = Append(@, Edited(v, p))]
        /\ UNCHANGED exits
    BY <1>1, <1>4, <2>2 DEF EditJournaling, Stored, TypeOK
  <2>5. trade' = [trade EXCEPT ![t] =
          [Atomic!ApplyEvent(trade[t], Edited(v, p)) EXCEPT !.netPnl = trade[t].netPnl]]
    <3> HIDE DEF t, p, v
    <3>1. [Atomic!ApplyEvent(trade[t], Edited(v, p)) EXCEPT !.netPnl = trade[t].netPnl]
            = [trade[t] EXCEPT !.strategy = IF p.strategy # Keep THEN p.strategy ELSE @,
                               !.notes = IF p.notes # Keep THEN p.notes ELSE @,
                               !.version = @ + 1]
      BY <2>2, <2>3, EditIsApplied
    <3>2. QED
      BY <2>4, <3>1
  <2>6. Atomic!Accepts(trade[t], Edited(v, p)) /\ Atomic!Edited(v, p) = Edited(v, p)
    BY <2>3 DEF Atomic!Accepts, Edited, Atomic!Edited
  <2> HIDE DEF t, p, v
  <2>7. Atomic!Edit(t, p)
    BY <2>3, <2>4, <2>5, <2>6 DEF Atomic!Edit, Atomic!Extend
  <2>8. p \in Atomic!Patch
    BY <2>2 DEF Patch, Atomic!Patch, Text, Atomic!Text
  <2>9. QED
    BY <2>2, <2>7, <2>8 DEF Atomic!Next
<1>5. ASSUME NEW s \in Sessions, StoreTombstone(s) PROVE Atomic!Next
  <2> DEFINE t == session[s].trade
             v == session[s].expected
  <2>1. session[s] \in Deleting
    BY <1>1, <1>5, RequestTypes DEF StoreTombstone
  <2>2. t \in Trades
    BY <2>1 DEF Deleting
  <2>3. trade[t] # NoRow /\ ~trade[t].deleted /\ trade[t].version = v /\ trade[t] \in Row
    BY <1>1, <1>5, <2>2 DEF StoreTombstone, LockedParent, Visible, TypeOK
  <2>4. /\ trade' = [trade EXCEPT ![t] =
                       [trade[t] EXCEPT !.deleted = TRUE, !.version = @ + 1]]
        /\ events' = [events EXCEPT ![t] = Append(@, Tombstoned(v))]
        /\ UNCHANGED exits
    BY <1>1, <1>5, <2>2 DEF StoreTombstone, Stored, TypeOK
  <2>5. trade' = [trade EXCEPT ![t] =
          [Atomic!ApplyEvent(trade[t], Tombstoned(v)) EXCEPT !.netPnl = trade[t].netPnl]]
    BY <2>3, <2>4, TombstoneIsApplied
  <2>6. Atomic!Accepts(trade[t], Tombstoned(v)) /\ Atomic!Tombstoned(v) = Tombstoned(v)
    BY <2>3 DEF Atomic!Accepts, Tombstoned, Atomic!Tombstoned
  <2> HIDE DEF t, v
  <2>7. Atomic!Tombstone(t)
    BY <2>3, <2>4, <2>5, <2>6 DEF Atomic!Tombstone, Atomic!Extend
  <2>8. QED
    BY <2>2, <2>7 DEF Atomic!Next
<1>6. ASSUME NEW s \in Sessions, RecordExit(s) PROVE Atomic!Next
  <2> DEFINE t == session[s].trade
             v == session[s].expected
             volume == session[s].volume
             pnl == session[s].pnl
             net == session[s].net
  <2>1. session[s] \in ExitProjected /\ session[s].pc = "exitProjected" /\ SessionOK(s)
    BY <1>1, <1>6, RequestTypes DEF RecordExit
  <2>2. t \in Trades /\ volume \in Volumes /\ pnl \in Pnls
    BY <2>1 DEF ExitProjected
  <2>3. LockedParent(t, v) /\ FitsVolume(t, volume)
    BY <1>6 DEF RecordExit
  <2>4. trade[t] # NoRow /\ ~trade[t].deleted /\ trade[t].version = v /\ trade[t] \in Row
    BY <1>1, <2>2, <2>3 DEF LockedParent, Visible, TypeOK
  <2>5. net = Atomic!Realized(exits, Atomic!ActiveExits(exits, t)) + pnl
    BY <2>1, <2>3, SameReads DEF SessionOK
  <2>6. PICK e \in ExitIds :
          exits[e] = NoRow /\ exits' = [exits EXCEPT ![e] = NewExit(t, volume, pnl)]
    BY <1>6 DEF RecordExit
  <2>7. /\ trade' = [trade EXCEPT ![t] =
              [trade[t] EXCEPT !.allocated = @ + volume, !.version = @ + 1, !.netPnl = net]]
        /\ events' = [events EXCEPT ![t] = Append(@, Recorded(v, volume))]
    BY <1>1, <1>6, <2>2 DEF RecordExit, Stored, TypeOK
  <2>8. trade' = [trade EXCEPT ![t] =
          [Atomic!ApplyEvent(trade[t], Recorded(v, volume)) EXCEPT !.netPnl = net]]
    <3> HIDE DEF t, v, volume, net
    <3>1. volume \in Int
      BY <2>2, VolumesArePositive
    <3>2. Applied(trade[t], Recorded(v, volume), net)
            = Reallocated(trade[t], trade[t].allocated + volume, net)
      BY <2>4, <3>1, AllocationIsApplied
    <3>3. QED
      BY <2>7, <3>2 DEF Applied, Reallocated
  <2>9. /\ Atomic!Accepts(trade[t], Recorded(v, volume))
        /\ Atomic!Recorded(v, volume) = Recorded(v, volume)
        /\ Atomic!NewExit(t, volume, pnl) = NewExit(t, volume, pnl)
    BY <2>3, <2>4 DEF Atomic!Accepts, Recorded, Atomic!Recorded, FitsVolume,
                      NewExit, Atomic!NewExit
  <2> HIDE DEF t, v, volume, pnl, net
  <2>10. Atomic!RecordExit(t, e, volume, pnl)
    BY <2>4, <2>5, <2>6, <2>7, <2>8, <2>9 DEF Atomic!RecordExit, Atomic!Extend
  <2>11. QED
    BY <2>2, <2>10 DEF Atomic!Next
<1>7. ASSUME NEW s \in Sessions, CancelExit(s) PROVE Atomic!Next
  <2> DEFINE t == session[s].trade
             v == session[s].expected
             e == session[s].exit
             volume == exits[e].volume
             net == session[s].net
  <2>1. session[s] \in CancelProjected /\ session[s].pc = "cancelProjected" /\ SessionOK(s)
    BY <1>1, <1>7, RequestTypes DEF CancelExit
  <2>2. t \in Trades /\ e \in ExitIds
    BY <2>1 DEF CancelProjected
  <2>3. LockedParent(t, v) /\ VisibleExit(e)
    BY <1>7 DEF CancelExit
  <2>4. trade[t] # NoRow /\ ~trade[t].deleted /\ trade[t].version = v /\ trade[t] \in Row
    BY <1>1, <2>2, <2>3 DEF LockedParent, Visible, TypeOK
  <2>5. /\ exits[e].trade = t /\ trade[t].allocated - volume >= 0
        /\ net = Atomic!Realized(exits, Atomic!ActiveExits(exits, t) \ {e})
    BY <2>1, <2>3, SameReads DEF SessionOK
  <2>6. volume \in Int /\ e \in Atomic!ActiveExits(exits, t)
    <3>1. exits[e] \in ExitRow /\ exits[e] # NoRow /\ exits[e].active
      BY <1>1, <2>2, <2>3 DEF VisibleExit, TypeOK
    <3>2. volume \in Int
      <4>1. volume \in Volumes
        BY <3>1 DEF ExitRow
      <4> HIDE DEF volume
      <4>2. QED
        BY <4>1, VolumesArePositive
    <3>3. QED
      BY <2>2, <2>5, <3>1, <3>2 DEF Atomic!ActiveExits
  <2>7. /\ trade' = [trade EXCEPT ![t] =
              [trade[t] EXCEPT !.allocated = @ - volume, !.version = @ + 1, !.netPnl = net]]
        /\ events' = [events EXCEPT ![t] = Append(@, Cancelled(v, volume))]
        /\ exits' = [exits EXCEPT ![e].active = FALSE]
    BY <1>1, <1>7, <2>2 DEF CancelExit, Stored, TypeOK
  <2>8. trade' = [trade EXCEPT ![t] =
          [Atomic!ApplyEvent(trade[t], Cancelled(v, volume)) EXCEPT !.netPnl = net]]
    <3> HIDE DEF t, v, volume, net, e
    <3>1. Applied(trade[t], Cancelled(v, volume), net)
            = Reallocated(trade[t], trade[t].allocated - volume, net)
      BY <2>4, <2>6, AllocationIsApplied
    <3>2. QED
      BY <2>7, <3>1 DEF Applied, Reallocated
  <2>9. /\ Atomic!Accepts(trade[t], Cancelled(v, volume))
        /\ Atomic!Cancelled(v, volume) = Cancelled(v, volume)
    BY <2>4, <2>5 DEF Atomic!Accepts, Cancelled, Atomic!Cancelled
  <2> HIDE DEF t, v, volume, net, e
  <2>10. Atomic!CancelExit(t, e)
    BY <2>4, <2>5, <2>6, <2>7, <2>8, <2>9
       DEF Atomic!CancelExit, Atomic!Extend, volume
  <2>11. QED
    BY <2>2, <2>10 DEF Atomic!Next
<1>8. QED
  BY <1>2, <1>3, <1>4, <1>5, <1>6, <1>7, ZenonT(40)
     DEF Next, vars, tables, GetTrade, CreateExit, UpdateTrade, DeleteTrade, ProjectExit,
         DeleteExit, GateCancel, ProjectCancel, GiveUp

(* The interleaved, stale-reading service implements the atomic ledger.     *)
THEOREM Linearizability == Spec => RefinesAtomicLedger
<1>1. Init => Atomic!Init
  BY DEF Init, Atomic!Init
<1>2. IInv /\ [Next]_vars => [Atomic!Next]_(Atomic!vars)
  BY StepsAreAtomic
<1>3. QED
  BY <1>1, <1>2, Coherence, PTL DEF Spec, RefinesAtomicLedger, Atomic!Spec

-----------------------------------------------------------------------------
(* Replay.  state is a sequence that the fold of a log could compute.  That *)
(* one exists, and what its last element is, is carried by the invariant    *)
(* from one event to the next: no induction over the log is needed.         *)
Unfolds(log, state) ==
  state = [i \in 1..Len(log) |->
             IF i = 1 THEN log[1].trade ELSE ApplyEvent(state[i - 1], log[i])]

LEMMA FoldUnfolds ==
  ASSUME NEW log, \E state : Unfolds(log, state)
  PROVE  Unfolds(log, Fold(log))
<1>1. Fold(log) = CHOOSE state : Unfolds(log, state)
  BY DEF Fold, Unfolds
<1>2. QED
  BY <1>1

(* One more event: a computation of the longer log goes through one of the  *)
(* shorter, and the other way round.                                        *)
LEMMA UnfoldsOneMore ==
  ASSUME NEW log \in Seq(Event), NEW n \in Nat, n = Len(log), n >= 1, NEW ev \in Event, NEW f
  PROVE  /\ Unfolds(log, f) => \E g : Unfolds(Append(log, ev), g)
         /\ Unfolds(Append(log, ev), f) =>
              /\ Unfolds(log, [i \in 1..n |-> f[i]])
              /\ f[n + 1] = ApplyEvent(f[n], ev)
<1> DEFINE more == Append(log, ev)
           g == [i \in 1..(n + 1) |-> IF i = n + 1 THEN ApplyEvent(f[n], ev) ELSE f[i]]
           h == [i \in 1..n |-> f[i]]
<1>1. /\ Len(more) = n + 1 /\ more[n + 1] = ev
      /\ \A i \in 1..n : more[i] = log[i]
  OBVIOUS
<1> HIDE DEF more
<1>2. \A i \in 1..(n + 1) : i = n + 1 \/ i \in 1..n
  OBVIOUS
<1>3. \A i \in 1..n : i = 1 \/ i - 1 \in 1..n
  OBVIOUS
<1>4. n \in 1..n /\ 1 \in 1..n /\ n + 1 # 1 /\ (n + 1) - 1 = n /\ \A i \in 1..n : i # n + 1 /\ i - 1 # n + 1
  OBVIOUS
<1>5. ASSUME Unfolds(log, f) PROVE Unfolds(more, g)
  <2>1. \A i \in 1..n : f[i] = IF i = 1 THEN log[1].trade ELSE ApplyEvent(f[i - 1], log[i])
    BY <1>5 DEF Unfolds
  <2>2. \A i \in 1..n : g[i] = f[i]
    BY <1>4
  <2>3. g[n + 1] = ApplyEvent(g[n], ev)
    BY <1>4, <2>2
  <2>4. ASSUME NEW i \in 1..(n + 1)
        PROVE  g[i] = IF i = 1 THEN more[1].trade ELSE ApplyEvent(g[i - 1], more[i])
    <3> HIDE DEF g
    <3>1. CASE i = n + 1
      BY <1>1, <1>4, <2>3, <3>1
    <3>2. CASE i \in 1..n
      BY <1>1, <1>3, <1>4, <2>1, <2>2, <3>2
    <3>3. QED
      BY <1>2, <3>1, <3>2
  <2>5. g = [i \in 1..(n + 1) |-> g[i]]
    OBVIOUS
  <2> HIDE DEF g
  <2>6. QED
    BY <1>1, <2>4, <2>5 DEF Unfolds
<1>6. ASSUME Unfolds(more, f) PROVE Unfolds(log, h) /\ f[n + 1] = ApplyEvent(f[n], ev)
  <2>1. \A i \in 1..(n + 1) : f[i] = IF i = 1 THEN more[1].trade ELSE ApplyEvent(f[i - 1], more[i])
    BY <1>1, <1>6 DEF Unfolds
  <2>2. n + 1 \in 1..(n + 1) /\ \A i \in 1..n : i \in 1..(n + 1)
    OBVIOUS
  <2>3. f[n + 1] = ApplyEvent(f[n], ev)
    BY <1>1, <1>4, <2>1, <2>2
  <2>4. \A i \in 1..n : h[i] = f[i]
    OBVIOUS
  <2>5. h = [i \in 1..n |-> h[i]]
    OBVIOUS
  <2> HIDE DEF h
  <2>6. ASSUME NEW i \in 1..n
        PROVE  h[i] = IF i = 1 THEN log[1].trade ELSE ApplyEvent(h[i - 1], log[i])
    BY <1>1, <1>3, <1>4, <2>1, <2>2, <2>4
  <2>7. QED
    BY <2>3, <2>5, <2>6 DEF Unfolds
<1>7. QED
  BY <1>5, <1>6 DEF more

(* A state of the fold and a row agree on all but the net P/L, of which the *)
(* fold knows only what the trade was created with.                         *)
Matches(x, r) == x \in Row /\ r = [x EXCEPT !.netPnl = r.netPnl]

LEMMA MatchingFields ==
  ASSUME NEW x \in Row, NEW r \in Row
  PROVE  Matches(x, r) <=>
           /\ x.volume = r.volume /\ x.allocated = r.allocated /\ x.strategy = r.strategy
           /\ x.notes = r.notes /\ x.version = r.version /\ x.deleted = r.deleted
BY DEF Matches, Row

(* A row after an event, column by column.                                  *)
Successor(x, new, strategy, notes, allocated, deleted) ==
  /\ new.volume = x.volume /\ new.version = x.version + 1 /\ new.strategy = strategy
  /\ new.notes = notes /\ new.allocated = allocated /\ new.deleted = deleted

LEMMA EditedState ==
  ASSUME NEW x \in Row, NEW a \in Text, NEW b \in Text,
         NEW new, new = [x EXCEPT !.version = @ + 1, !.strategy = a, !.notes = b]
  PROVE  new \in Row /\ Successor(x, new, a, b, x.allocated, x.deleted)
<1> DEFINE v == [x EXCEPT !.version = x.version + 1]
           w == [v EXCEPT !.strategy = a]
<1>1. v \in Row
  <2>1. x.version + 1 \in Nat
    <3>1. x.version \in Nat
      BY DEF Row
    <3>2. QED
      BY <3>1
  <2>2. QED
    BY <2>1, RowWithColumn
<1>2. new = [w EXCEPT !.notes = b]
  OBVIOUS
<1> HIDE DEF v
<1>3. w \in Row
  BY <1>1, RowWithColumn
<1> HIDE DEF w
<1>4. new \in Row
  BY <1>2, <1>3, RowWithColumn, ZenonT(40)
<1>5. Successor(x, new, a, b, x.allocated, x.deleted)
  BY DEF Row, Successor
<1>6. QED
  BY <1>4, <1>5

LEMMA TombstonedState ==
  ASSUME NEW x \in Row, NEW new, new = [x EXCEPT !.version = @ + 1, !.deleted = TRUE]
  PROVE  new \in Row /\ Successor(x, new, x.strategy, x.notes, x.allocated, TRUE)
<1> DEFINE v == [x EXCEPT !.version = x.version + 1]
<1>1. v \in Row
  <2>1. x.version + 1 \in Nat
    <3>1. x.version \in Nat
      BY DEF Row
    <3>2. QED
      BY <3>1
  <2>2. QED
    BY <2>1, RowWithColumn
<1>2. new = [v EXCEPT !.deleted = TRUE]
  OBVIOUS
<1> HIDE DEF v
<1>3. new \in Row
  BY <1>1, <1>2, RowWithColumn
<1>4. Successor(x, new, x.strategy, x.notes, x.allocated, TRUE)
  BY DEF Row, Successor
<1>5. QED
  BY <1>3, <1>4

LEMMA ReallocatedState ==
  ASSUME NEW x \in Row, NEW n \in Nat,
         NEW new, new = [x EXCEPT !.version = @ + 1, !.allocated = n]
  PROVE  new \in Row /\ Successor(x, new, x.strategy, x.notes, n, x.deleted)
<1> DEFINE v == [x EXCEPT !.version = x.version + 1]
<1>1. v \in Row
  <2>1. x.version + 1 \in Nat
    <3>1. x.version \in Nat
      BY DEF Row
    <3>2. QED
      BY <3>1
  <2>2. QED
    BY <2>1, RowWithColumn
<1>2. new = [v EXCEPT !.allocated = n]
  OBVIOUS
<1> HIDE DEF v
<1>3. new \in Row
  BY <1>1, <1>2, RowWithColumn
<1>4. Successor(x, new, x.strategy, x.notes, n, x.deleted)
  BY DEF Row, Successor
<1>5. QED
  BY <1>3, <1>4

(* Matching rows have matching successors.                                  *)
LEMMA SuccessorsMatch ==
  ASSUME NEW x \in Row, NEW r \in Row, x.volume = r.volume, x.version = r.version,
         NEW a, NEW b, NEW n, NEW m, NEW c, NEW d, m = n, c = d,
         NEW y \in Row, Successor(x, y, a, b, m, c),
         NEW row \in Row, Successor(r, row, a, b, n, d)
  PROVE  Matches(y, row)
<1>1. y.volume = row.volume /\ y.version = row.version
  BY DEF Successor
<1>2. y.strategy = row.strategy /\ y.notes = row.notes
  BY DEF Successor
<1>3. y.allocated = row.allocated
  BY DEF Successor
<1>4. y.deleted = row.deleted
  BY DEF Successor
<1>5. QED
  BY <1>1, <1>2, <1>3, <1>4, MatchingFields

(* The fold and the store apply an event alike.                             *)
LEMMA MatchesApplied ==
  ASSUME NEW x \in Row, NEW r \in Row, Matches(x, r), NEW ev \in Event, Accepts(r, ev),
         NEW net, NEW row \in Row, row = [ApplyEvent(r, ev) EXCEPT !.netPnl = net]
  PROVE  Matches(ApplyEvent(x, ev), row)
<1>1. /\ x.volume = r.volume /\ x.allocated = r.allocated /\ x.strategy = r.strategy
      /\ x.notes = r.notes /\ x.version = r.version /\ x.deleted = r.deleted
  BY MatchingFields
<1>2. CASE ev.type = "JOURNALING_EDITED"
  <2> DEFINE a == Merge(r.strategy, ev.patch.strategy)
             b == Merge(r.notes, ev.patch.notes)
  <2>1. /\ ApplyEvent(r, ev) = [r EXCEPT !.version = @ + 1, !.strategy = a, !.notes = b]
        /\ ApplyEvent(x, ev) = [x EXCEPT !.version = @ + 1, !.strategy = a, !.notes = b]
    BY <1>1, <1>2 DEF ApplyEvent
  <2> HIDE DEF a, b
  <2>2. Successor(r, row, a, b, r.allocated, r.deleted)
    BY <2>1 DEF Row, Successor
  <2>3. a \in Text /\ b \in Text
    BY <2>2 DEF Row, Successor
  <2>4. ApplyEvent(x, ev) \in Row /\ Successor(x, ApplyEvent(x, ev), a, b, x.allocated, x.deleted)
    BY <2>1, <2>3, EditedState
  <2>5. QED
    BY <1>1, <2>2, <2>4, SuccessorsMatch
<1>3. CASE ev.type = "TOMBSTONE_SET"
  <2>1. /\ ApplyEvent(r, ev) = [r EXCEPT !.version = @ + 1, !.deleted = TRUE]
        /\ ApplyEvent(x, ev) = [x EXCEPT !.version = @ + 1, !.deleted = TRUE]
    BY <1>3 DEF ApplyEvent
  <2>2. Successor(r, row, r.strategy, r.notes, r.allocated, TRUE)
    BY <2>1 DEF Row, Successor
  <2>3. /\ ApplyEvent(x, ev) \in Row
        /\ Successor(x, ApplyEvent(x, ev), x.strategy, x.notes, x.allocated, TRUE)
    BY <2>1, TombstonedState
  <2>4. Successor(x, ApplyEvent(x, ev), r.strategy, r.notes, x.allocated, TRUE)
    BY <1>1, <2>3
  <2>5. QED
    BY <1>1, <2>2, <2>3, <2>4, SuccessorsMatch
<1>4. ASSUME NEW n, /\ ApplyEvent(r, ev) = [r EXCEPT !.version = @ + 1, !.allocated = n]
                    /\ ApplyEvent(x, ev) = [x EXCEPT !.version = @ + 1, !.allocated = n]
      PROVE  Matches(ApplyEvent(x, ev), row)
  <2>1. Successor(r, row, r.strategy, r.notes, n, r.deleted)
    BY <1>4 DEF Row, Successor
  <2>2. n \in Nat
    BY <2>1 DEF Row, Successor
  <2>3. /\ ApplyEvent(x, ev) \in Row
        /\ Successor(x, ApplyEvent(x, ev), x.strategy, x.notes, n, x.deleted)
    BY <1>4, <2>2, ReallocatedState
  <2>4. Successor(x, ApplyEvent(x, ev), r.strategy, r.notes, n, x.deleted)
    BY <1>1, <2>3
  <2>5. QED
    BY <1>1, <2>1, <2>3, <2>4, SuccessorsMatch
<1>5. CASE ev.type = "EXIT_RECORDED"
  BY <1>1, <1>4, <1>5 DEF ApplyEvent
<1>6. CASE ev.type = "EXIT_CANCELLED"
  BY <1>1, <1>4, <1>6 DEF ApplyEvent
<1>7. QED
  BY <1>2, <1>3, <1>5, <1>6 DEF Event, Accepts

(* What the fold accepts leaves a row.                                      *)
LEMMA AppliedIsRow ==
  ASSUME NEW r \in Row, NEW ev \in Event, Accepts(r, ev), NEW net \in Money
  PROVE  [ApplyEvent(r, ev) EXCEPT !.netPnl = net] \in Row
<1>1. ApplyEvent(r, ev) \in Row
  <2>1. CASE ev.type = "JOURNALING_EDITED"
    <3> DEFINE a == Merge(r.strategy, ev.patch.strategy)
               b == Merge(r.notes, ev.patch.notes)
    <3>1. ev.patch \in Patch
      BY <2>1 DEF Event
    <3>2. a \in Text /\ b \in Text
      BY <3>1 DEF Patch, Merge, Row
    <3>3. ApplyEvent(r, ev) = [r EXCEPT !.version = @ + 1, !.strategy = a, !.notes = b]
      BY <2>1 DEF ApplyEvent
    <3> HIDE DEF a, b
    <3>4. QED
      BY <3>2, <3>3, EditedState
  <2>2. CASE ev.type = "TOMBSTONE_SET"
    <3>1. ApplyEvent(r, ev) = [r EXCEPT !.version = @ + 1, !.deleted = TRUE]
      BY <2>2 DEF ApplyEvent
    <3>2. QED
      BY <3>1, TombstonedState
  <2>3. CASE ev.type \in {"EXIT_RECORDED", "EXIT_CANCELLED"}
    <3>1. ev.volume \in Volumes
      BY <2>3 DEF Event
    <3>2. ev.volume \in Nat /\ r.allocated \in Nat
      BY <3>1, VolumesArePositive DEF Row
    <3>3. CASE ev.type = "EXIT_RECORDED"
      <4>1. ApplyEvent(r, ev) = [r EXCEPT !.version = @ + 1, !.allocated = r.allocated + ev.volume]
        BY <3>3 DEF ApplyEvent
      <4>2. r.allocated + ev.volume \in Nat
        BY <3>2
      <4>3. QED
        BY <4>1, <4>2, ReallocatedState
    <3>4. CASE ev.type = "EXIT_CANCELLED"
      <4>1. ApplyEvent(r, ev) = [r EXCEPT !.version = @ + 1, !.allocated = r.allocated - ev.volume]
        BY <3>4 DEF ApplyEvent
      <4>2. r.allocated - ev.volume >= 0
        BY <3>4 DEF Accepts
      <4>3. r.allocated - ev.volume \in Nat
        BY <3>2, <4>2
      <4>4. QED
        BY <4>1, <4>3, ReallocatedState
    <3>5. QED
      BY <2>3, <3>3, <3>4
  <2>4. QED
    BY <2>1, <2>2, <2>3 DEF Event, Accepts
<1>2. QED
  BY <1>1, RowWithColumn

(* The abstract ledger folds as the service does.                           *)
LEMMA SameFold ==
  /\ \A r, ev : Atomic!ApplyEvent(r, ev) = ApplyEvent(r, ev)
  /\ \A r, ev : Atomic!Accepts(r, ev) = Accepts(r, ev)
<1>1. \A r, ev : Atomic!ApplyEvent(r, ev) = ApplyEvent(r, ev)
  BY DEF ApplyEvent, Atomic!ApplyEvent, Merge, Atomic!Merge
<1>2. \A r, ev : Atomic!Accepts(r, ev) = Accepts(r, ev)
  BY DEF Accepts, Atomic!Accepts
<1>3. QED
  BY <1>1, <1>2

(* The log of a trade can be folded, and ends in its row.                   *)
Replayed(t) ==
  /\ Len(events[t]) >= 1
  /\ \E f : Unfolds(events[t], f)
  /\ \A f : Unfolds(events[t], f) => Matches(f[Len(events[t])], trade[t])

ReplayInv == NoStrayLogs /\ \A t \in Trades : trade[t] # NoRow => Replayed(t)

LEMMA ExtendReplays ==
  ASSUME IInv, IInv', ReplayInv, NEW t \in Trades, NEW ev, NEW net \in Money,
         Atomic!Extend(t, ev, net)
  PROVE  ReplayInv'
<1> DEFINE log == events[t]
           n == Len(log)
           more == Append(log, ev)
<1>1. /\ trade \in [Trades -> Row \cup {NoRow}] /\ events \in [Trades -> Seq(Event)]
      /\ trade' \in [Trades -> Row \cup {NoRow}] /\ events' \in [Trades -> Seq(Event)]
  BY DEF IInv, TypeOK
<1>2. /\ trade[t] # NoRow /\ Accepts(trade[t], ev)
      /\ trade' = [trade EXCEPT ![t] = [ApplyEvent(trade[t], ev) EXCEPT !.netPnl = net]]
      /\ events' = [events EXCEPT ![t] = Append(events[t], ev)]
  BY SameFold DEF Atomic!Extend
<1>3. /\ trade'[t] = [ApplyEvent(trade[t], ev) EXCEPT !.netPnl = net]
      /\ events'[t] = more
      /\ \A u \in Trades : u # t => trade'[u] = trade[u] /\ events'[u] = events[u]
  BY <1>1, <1>2
<1>4. /\ trade[t] \in Row /\ log \in Seq(Event) /\ n \in Nat /\ n = Len(log) /\ n >= 1
      /\ \E f : Unfolds(log, f)
      /\ \A f : Unfolds(log, f) => Matches(f[n], trade[t])
  BY <1>1, <1>2 DEF ReplayInv, Replayed
<1> HIDE DEF log
<1>5. /\ DOMAIN more = 1..(n + 1) /\ Len(more) = n + 1 /\ more[n + 1] = ev
      /\ n \in 1..n /\ n + 1 \in 1..(n + 1)
  BY <1>4
<1>6. ev \in Event
  <2>1. more \in Seq(Event)
    BY <1>1, <1>3
  <2> HIDE DEF more, n
  <2>2. more[n + 1] \in Event
    BY <1>5, <2>1
  <2>3. QED
    BY <1>5, <2>2
<1> HIDE DEF more
<1>7. trade'[t] \in Row
  BY <1>2, <1>3, <1>4, <1>6, AppliedIsRow
<1>8. ASSUME NEW f, Unfolds(more, f) PROVE Matches(f[n + 1], trade'[t])
  <2>1. /\ Unfolds(log, [i \in 1..n |-> f[i]])
        /\ f[n + 1] = ApplyEvent(f[n], ev)
    BY <1>4, <1>6, <1>8, UnfoldsOneMore DEF more
  <2>2. Matches(f[n], trade[t])
    BY <1>4, <1>5, <2>1
  <2>3. Matches(ApplyEvent(f[n], ev), trade'[t])
    <3> DEFINE x == f[n]
               r == trade[t]
               row == trade'[t]
    <3>1. x \in Row /\ r \in Row /\ row \in Row /\ Matches(x, r) /\ Accepts(r, ev)
      BY <1>2, <1>4, <1>7, <2>2 DEF Matches
    <3>2. row = [ApplyEvent(r, ev) EXCEPT !.netPnl = net]
      BY <1>3
    <3> HIDE DEF x, r, row
    <3>3. Matches(ApplyEvent(x, ev), row)
      BY <1>6, <3>1, <3>2, MatchesApplied
    <3>4. QED
      BY <3>3 DEF x, row
  <2>4. QED
    BY <2>1, <2>3
<1>9. \E f : Unfolds(more, f)
  <2>1. PICK f : Unfolds(log, f)
    BY <1>4
  <2> HIDE DEF n
  <2>2. \E g : Unfolds(Append(log, ev), g)
    <3>1. log \in Seq(Event) /\ n \in Nat /\ n = Len(log) /\ n >= 1
      BY <1>4
    <3>2. QED
      BY <1>6, <2>1, <3>1, UnfoldsOneMore
  <2>3. QED
    BY <2>2 DEF more
<1>10. Replayed(t)'
  <2>1. n + 1 >= 1
    BY <1>4
  <2>2. QED
    BY <1>3, <1>5, <1>8, <1>9, <2>1 DEF Replayed
<1>11. QED
  BY <1>2, <1>3, <1>7, <1>10, NoRowIsNoRow DEF ReplayInv, NoStrayLogs, Replayed

(* A trade that is created is the whole of its fold.                        *)
LEMMA CreateReplays ==
  ASSUME IInv, IInv', ReplayInv, NEW t \in Trades, NEW row \in Row, Atomic!Create(t, row)
  PROVE  ReplayInv'
<1> DEFINE log == <<Created(row)>>
<1>1. /\ trade \in [Trades -> Row \cup {NoRow}] /\ events \in [Trades -> Seq(Event)]
  BY DEF IInv, TypeOK
<1>2. events[t] = << >> /\ Append(<< >>, Created(row)) = log
  BY DEF Atomic!Create, ReplayInv, NoStrayLogs
<1>3. /\ trade' = [trade EXCEPT ![t] = row]
      /\ events' = [events EXCEPT ![t] = Append(events[t], Created(row))]
  BY DEF Atomic!Create, Created, Atomic!Created
<1>4. /\ trade'[t] = row /\ events'[t] = log /\ row # NoRow
      /\ \A u \in Trades : u # t => trade'[u] = trade[u] /\ events'[u] = events[u]
  BY <1>1, <1>2, <1>3, NoRowIsNoRow
<1>5. Len(log) = 1 /\ log[1].trade = row
  BY DEF Created
<1> HIDE DEF log
<1>6. Unfolds(log, [i \in 1..1 |-> row])
  <2> DEFINE f == [i \in 1..1 |-> row]
  <2>1. \A i \in 1..1 : i = 1
    OBVIOUS
  <2>2. f = [i \in 1..1 |-> IF i = 1 THEN log[1].trade ELSE ApplyEvent(f[i - 1], log[i])]
    BY <1>5, <2>1
  <2> HIDE DEF f
  <2>3. Unfolds(log, f)
    BY <1>5, <2>2 DEF Unfolds
  <2>4. QED
    BY <2>3 DEF f
<1>7. ASSUME NEW f, Unfolds(log, f) PROVE Matches(f[1], row)
  <2>1. f[1] = row
    BY <1>5, <1>7 DEF Unfolds
  <2>2. Matches(row, row)
    BY MatchingFields
  <2>3. QED
    BY <2>1, <2>2
<1>8. Replayed(t)'
  BY <1>4, <1>5, <1>6, <1>7 DEF Replayed
<1>9. QED
  BY <1>4, <1>8 DEF ReplayInv, NoStrayLogs, Replayed

(* Sums over exits are amounts of money, and so are the net P/L of steps.   *)
LEMMA StepsKeepReplay ==
  ASSUME IInv, IInv', ReplayInv, [Next]_vars
  PROVE  ReplayInv'
<1>1. [Atomic!Next]_(Atomic!vars)
  BY StepsAreAtomic
<1>2. CASE UNCHANGED Atomic!vars
  BY <1>2 DEF Atomic!vars, ReplayInv, NoStrayLogs, Replayed
<1>3. \A t \in Trades : trade[t] # NoRow => trade[t] \in Row /\ trade[t].netPnl \in Money
  BY DEF IInv, TypeOK, Row
<1>4. \A ids \in SUBSET ExitIds : (\A e \in ids : exits[e] # NoRow) =>
        /\ Realized(exits, ids) \in Money
        /\ \A pnl \in Pnls : Realized(exits, ids) + pnl \in Money
  BY RealizedIsMoney DEF IInv
<1>5. \A t : /\ ActiveExits(exits, t) \in SUBSET ExitIds
             /\ \A e \in ActiveExits(exits, t) : exits[e] # NoRow
  BY DEF ActiveExits
<1>6. ASSUME NEW t \in Trades, NEW volume \in Volumes, NEW pnl \in Pnls,
             NEW strategy \in Atomic!Text, NEW notes \in Atomic!Text,
             Atomic!Create(t, Atomic!NewRow(volume, pnl, strategy, notes))
      PROVE  ReplayInv'
  <2>1. Atomic!NewRow(volume, pnl, strategy, notes) \in Row
    BY DEF Atomic!NewRow, Row, Money, Text, Atomic!Text
  <2>2. QED
    BY <1>6, <2>1, CreateReplays
<1>7. ASSUME NEW t \in Trades, NEW patch \in Atomic!Patch, Atomic!Edit(t, patch) PROVE ReplayInv'
  BY <1>3, <1>7, ExtendReplays DEF Atomic!Edit, Atomic!Extend
<1>8. ASSUME NEW t \in Trades, Atomic!Tombstone(t) PROVE ReplayInv'
  BY <1>3, <1>8, ExtendReplays DEF Atomic!Tombstone, Atomic!Extend
<1>9. ASSUME NEW t \in Trades, NEW e \in ExitIds, NEW volume \in Volumes, NEW pnl \in Pnls,
             Atomic!RecordExit(t, e, volume, pnl)
      PROVE  ReplayInv'
  <2>1. Realized(exits, ActiveExits(exits, t)) + pnl \in Money
    BY <1>4, <1>5
  <2>2. Atomic!Extend(t, Atomic!Recorded(trade[t].version, volume),
                      Realized(exits, ActiveExits(exits, t)) + pnl)
    BY <1>9, SameReads DEF Atomic!RecordExit
  <2>3. QED
    BY <2>1, <2>2, ExtendReplays
<1>10. ASSUME NEW t \in Trades, NEW e \in ExitIds, Atomic!CancelExit(t, e) PROVE ReplayInv'
  <2>1. Realized(exits, ActiveExits(exits, t) \ {e}) \in Money
    BY <1>4, <1>5
  <2>2. Atomic!Extend(t, Atomic!Cancelled(trade[t].version, exits[e].volume),
                      Realized(exits, ActiveExits(exits, t) \ {e}))
    BY <1>10, SameReads DEF Atomic!CancelExit
  <2>3. QED
    BY <2>1, <2>2, ExtendReplays
<1>11. QED
  BY <1>1, <1>2, <1>6, <1>7, <1>8, <1>9, <1>10 DEF Atomic!Next

(* The projection the store writes with SQL of its own is what the domain   *)
(* fold computes from the log, for every log that requests can leave behind *)
(* (tradeLedger.ts fold, pgTradeStore.ts).                                  *)
THEOREM StoreIsReplay == Spec => []ProjectionIsReplay
<1>1. Init => ReplayInv
  BY DEF Init, ReplayInv, NoStrayLogs
<1>2. IInv /\ IInv' /\ ReplayInv /\ [Next]_vars => ReplayInv'
  BY StepsKeepReplay
<1>3. ReplayInv => ProjectionIsReplay
  BY FoldUnfolds DEF ReplayInv, Replayed, Matches, ProjectionIsReplay
<1>4. QED
  BY <1>1, <1>2, <1>3, Coherence, PTL DEF Spec

-----------------------------------------------------------------------------
(* Sums.  SumOf takes its terms one by one, in an order of its own; what    *)
(* the tables need of it is that one more pair adds its second component.   *)
First(s) == CHOOSE p \in s : TRUE

(* g is the function of partial sums that SumOf(P) goes through.            *)
Sums(P, g) ==
  g = [s \in SUBSET P |-> IF s = {} THEN 0 ELSE First(s)[2] + g[s \ {First(s)}]]

(* Induction over finite sets: of a family of them one is smallest.         *)
LEMMA SmallestSet ==
  ASSUME NEW C, C # {}, \A s \in C : IsFiniteSet(s)
  PROVE  \E s \in C : \A t \in C : t \subseteq s => t = s
<1> DEFINE sizes == {Cardinality(s) : s \in C}
<1>1. sizes \subseteq Nat /\ sizes # {}
  BY FS_CardinalityType
<1>2. PICK n \in sizes : \A m \in sizes : <<m, n>> \notin OpToRel(<, Nat)
  BY <1>1, NatLessThanWellFounded, WFMin
<1>3. \A x, y \in Nat : x < y => <<x, y>> \in OpToRel(<, Nat)
  BY DEF OpToRel
<1>4. PICK s \in C : n = Cardinality(s)
  BY <1>2
<1>5. ASSUME NEW t \in C, t \subseteq s PROVE t = s
  <2>1. Cardinality(t) \in sizes /\ Cardinality(t) \in Nat /\ Cardinality(s) \in Nat
    BY <1>1, <1>4
  <2>2. ~(Cardinality(t) < Cardinality(s))
    BY <1>2, <1>3, <1>4, <2>1
  <2>3. /\ Cardinality(t) <= Cardinality(s)
        /\ Cardinality(s) = Cardinality(t) => s = t
    BY <1>5, FS_Subset
  <2>4. QED
    BY <2>1, <2>2, <2>3
<1>6. QED
  BY <1>5

LEMMA SumsBase ==
  ASSUME NEW P, NEW g, Sums(P, g)
  PROVE  g[{}] = 0
BY DEF Sums

LEMMA SumsStep ==
  ASSUME NEW P, NEW g, Sums(P, g), NEW s \in SUBSET P, s # {}
  PROVE  First(s) \in s /\ g[s] = First(s)[2] + g[s \ {First(s)}]
<1>1. First(s) \in s
  BY DEF First
<1>2. g[s] = IF s = {} THEN 0 ELSE First(s)[2] + g[s \ {First(s)}]
  BY DEF Sums
<1>3. QED
  BY <1>1, <1>2

(* The partial sums of a set are those of its subsets, and are one function.*)
LEMMA SumsAgree ==
  ASSUME NEW P, IsFiniteSet(P), NEW Q \in SUBSET P, NEW g, NEW h, Sums(P, g), Sums(Q, h)
  PROVE  \A s \in SUBSET Q : g[s] = h[s]
<1> DEFINE C == {s \in SUBSET Q : g[s] # h[s]}
<1> SUFFICES ASSUME C # {} PROVE FALSE
  OBVIOUS
<1>0. C \subseteq SUBSET Q /\ \A s \in SUBSET Q : s \in C <=> g[s] # h[s]
  OBVIOUS
<1> HIDE DEF C
<1>1. \A s \in C : IsFiniteSet(s)
  BY <1>0, FS_Subset
<1>2. PICK s \in C : \A t \in C : t \subseteq s => t = s
  BY <1>1, SmallestSet
<1>3. s # {}
  BY <1>0, SumsBase
<1>4. /\ First(s) \in s
      /\ g[s] = First(s)[2] + g[s \ {First(s)}]
      /\ h[s] = First(s)[2] + h[s \ {First(s)}]
  <2>1. s \in SUBSET Q
    BY <1>0
  <2>2. s \in SUBSET P
    BY <2>1
  <2>3. First(s) \in s /\ g[s] = First(s)[2] + g[s \ {First(s)}]
    BY <1>3, <2>2, SumsStep
  <2>4. h[s] = First(s)[2] + h[s \ {First(s)}]
    BY <1>3, <2>1, SumsStep
  <2>5. QED
    BY <2>3, <2>4
<1>5. g[s \ {First(s)}] = h[s \ {First(s)}]
  BY <1>0, <1>2, <1>4
<1>6. QED
  BY <1>0, <1>4, <1>5

LEMMA SumsExist ==
  ASSUME NEW P, IsFiniteSet(P)
  PROVE  \E g : Sums(P, g)
<1> DEFINE C == {s \in SUBSET P : \A g : ~Sums(s, g)}
<1> SUFFICES ASSUME C # {} PROVE FALSE
  OBVIOUS
<1>0. C \subseteq SUBSET P /\ \A s \in SUBSET P : s \in C <=> \A g : ~Sums(s, g)
  OBVIOUS
<1> HIDE DEF C
<1>1. \A s \in SUBSET P : IsFiniteSet(s)
  BY FS_Subset
<1>2. PICK Q \in C : \A t \in C : t \subseteq Q => t = Q
  BY <1>0, <1>1, SmallestSet
<1> DEFINE S(q) == CHOOSE h : Sums(q, h)
           Rest(s) == s \ {First(s)}
           g == [s \in SUBSET Q |->
                   IF s = {} THEN 0 ELSE First(s)[2] + S(Rest(s))[Rest(s)]]
<1>3. ASSUME NEW q \in SUBSET Q, q # Q PROVE Sums(q, S(q))
  <2>1. \E h : Sums(q, h)
    BY <1>0, <1>2, <1>3
  <2>2. QED
    BY <2>1
<1>4. \A s : s # {} => First(s) \in s
  BY DEF First
<1> HIDE DEF S
<1>5. ASSUME NEW s \in SUBSET Q, s # {} PROVE g[Rest(s)] = S(Rest(s))[Rest(s)]
  <2> DEFINE r == Rest(s)
  <2>1. r \in SUBSET Q /\ r # Q
    BY <1>4, <1>5
  <2>2. Sums(r, S(r))
    BY <1>3, <2>1
  <2>3. CASE r = {}
    <3>1. S(r)[r] = 0
      BY <2>2, <2>3, SumsBase
    <3>2. g[r] = 0
      BY <2>1, <2>3
    <3>3. QED
      BY <3>1, <3>2
  <2>4. CASE r # {}
    <3>1. /\ Rest(r) \in SUBSET r /\ Rest(r) \in SUBSET Q /\ Rest(r) # Q
      BY <1>4, <2>1, <2>4
    <3>2. Sums(Rest(r), S(Rest(r)))
      BY <1>3, <3>1
    <3>3. IsFiniteSet(r)
      BY <1>0, <1>1, <2>1
    <3>4. S(r)[Rest(r)] = S(Rest(r))[Rest(r)]
      <4> DEFINE q == Rest(r)
      <4>1. q \in SUBSET r /\ q \in SUBSET q /\ Sums(q, S(q))
        BY <3>1, <3>2
      <4> HIDE DEF r, q
      <4>2. S(r)[q] = S(q)[q]
        BY <2>2, <3>3, <4>1, SumsAgree
      <4>3. QED
        BY <4>2 DEF q
    <3>5. S(r)[r] = First(r)[2] + S(r)[r \ {First(r)}]
      <4> HIDE DEF r
      <4>1. QED
        BY <2>2, <2>4, SumsStep
    <3>6. g[r] = First(r)[2] + S(Rest(r))[Rest(r)]
      BY <2>1, <2>4
    <3>7. QED
      BY <3>4, <3>5, <3>6
  <2>5. QED
    BY <2>3, <2>4
<1>6. g = [s \in SUBSET Q |-> IF s = {} THEN 0 ELSE First(s)[2] + g[Rest(s)]]
  <2> DEFINE G == [s \in SUBSET Q |-> IF s = {} THEN 0 ELSE First(s)[2] + g[Rest(s)]]
  <2>1. \A s \in SUBSET Q : g[s] = G[s]
    BY <1>5
  <2>2. QED
    BY <2>1
<1>7. Sums(Q, g)
  BY <1>6 DEF Sums
<1>8. QED
  BY <1>0, <1>2, <1>7

(* Sums of integers are integers, and any term may be taken first.          *)
LEMMA SumsCommute ==
  ASSUME NEW P, IsFiniteSet(P), \A p \in P : p[2] \in Int, NEW g, Sums(P, g)
  PROVE  \A s \in SUBSET P : g[s] \in Int /\ \A p \in s : g[s] = p[2] + g[s \ {p}]
<1> DEFINE C == {s \in SUBSET P : ~(g[s] \in Int /\ \A p \in s : g[s] = p[2] + g[s \ {p}])}
<1> SUFFICES ASSUME C # {} PROVE FALSE
  OBVIOUS
<1>0. /\ C \subseteq SUBSET P
      /\ \A s \in SUBSET P : s \notin C <=> g[s] \in Int /\ \A p \in s : g[s] = p[2] + g[s \ {p}]
  OBVIOUS
<1> HIDE DEF C
<1>1. \A s \in C : IsFiniteSet(s)
  BY <1>0, FS_Subset
<1>2. PICK s \in C : \A t \in C : t \subseteq s => t = s
  BY <1>1, SmallestSet
<1>3. ASSUME NEW t \in SUBSET s, t # s
      PROVE  g[t] \in Int /\ \A p \in t : g[t] = p[2] + g[t \ {p}]
  BY <1>0, <1>2, <1>3
<1>4. s # {}
  <2>1. g[{}] = 0
    BY SumsBase
  <2>2. {} \in SUBSET P /\ {} \notin C
    BY <1>0, <2>1
  <2>3. QED
    BY <2>2
<1>5. PICK c \in s : g[s] = c[2] + g[s \ {c}]
  <2>1. s \in SUBSET P
    BY <1>0
  <2>2. First(s) \in s /\ g[s] = First(s)[2] + g[s \ {First(s)}]
    BY <1>4, <2>1, SumsStep
  <2>3. QED
    BY <2>2
<1>6. \A p \in s : p[2] \in Int /\ g[s \ {p}] \in Int
  BY <1>0, <1>3
<1>7. ASSUME NEW p \in s, p # c PROVE g[s] = p[2] + g[s \ {p}]
  <2> DEFINE r == s \ {c, p}
  <2>1. /\ (s \ {c}) \ {p} = r /\ (s \ {p}) \ {c} = r
        /\ p \in s \ {c} /\ c \in s \ {p} /\ r \in SUBSET s /\ r # s
        /\ s \ {c} \in SUBSET s /\ s \ {c} # s /\ s \ {p} \in SUBSET s /\ s \ {p} # s
    BY <1>5, <1>7
  <2>2. g[s \ {c}] = p[2] + g[r] /\ g[s \ {p}] = c[2] + g[r] /\ g[r] \in Int
    BY <1>3, <2>1, ZenonT(40)
  <2>3. c[2] \in Int /\ p[2] \in Int
    BY <1>6
  <2>4. g[s] = c[2] + (p[2] + g[r])
    BY <1>5, <2>2
  <2>5. c[2] + (p[2] + g[r]) = p[2] + (c[2] + g[r])
    BY <2>2, <2>3
  <2>6. QED
    BY <2>2, <2>4, <2>5
<1>8. g[s] \in Int
  BY <1>5, <1>6
<1>9. QED
  BY <1>0, <1>5, <1>7, <1>8

(* What SumOf is, whatever order it takes.                                  *)
LEMMA SumOfIsLast ==
  ASSUME NEW P, IsFiniteSet(P), NEW Q \in SUBSET P, NEW g, Sums(P, g)
  PROVE  SumOf(Q) = g[Q]
<1> DEFINE h == CHOOSE f : Sums(Q, f)
<1>1. IsFiniteSet(Q)
  BY FS_Subset
<1>2. \E f : Sums(Q, f)
  BY <1>1, SumsExist
<1>3. Sums(Q, h)
  BY <1>2
<1>4. SumOf(Q) = (CHOOSE f : Sums(Q, f))[Q]
  BY DEF SumOf, MapThenSumSet, MapThenFoldSet, Sums, First
<1>5. QED
  BY <1>3, <1>4, SumsAgree

LEMMA SumOfEmpty == SumOf({}) = 0
<1>1. PICK g : Sums({}, g)
  BY SumsExist, FS_EmptySet
<1>2. QED
  BY <1>1, SumOfIsLast, SumsBase, FS_EmptySet

LEMMA SumOfOneMore ==
  ASSUME NEW P, IsFiniteSet(P), \A p \in P : p[2] \in Int, NEW x, x \notin P, x[2] \in Int
  PROVE  SumOf(P \cup {x}) = SumOf(P) + x[2] /\ SumOf(P) \in Int
<1> DEFINE W == P \cup {x}
<1>1. IsFiniteSet(W) /\ (\A p \in W : p[2] \in Int) /\ W \ {x} = P /\ P \in SUBSET W /\ x \in W
  BY FS_AddElement
<1> HIDE DEF W
<1>2. PICK g : Sums(W, g)
  BY <1>1, SumsExist
<1>3. g[P] \in Int /\ g[W] = x[2] + g[P]
  BY <1>1, <1>2, SumsCommute
<1>4. SumOf(W) = g[W] /\ SumOf(P) = g[P]
  BY <1>1, <1>2, SumOfIsLast
<1>5. QED
  BY <1>3, <1>4 DEF W

-----------------------------------------------------------------------------
(* The active exits of a trade with their volumes.                          *)
Allocations(x, t) == {<<e, x[e].volume>> : e \in ActiveExits(x, t)}

(* A trade never has more than finitely many exits, and AllocationIsExact.  *)
AllocationInv ==
  \A t \in Trades :
    /\ IsFiniteSet(Allocations(exits, t))
    /\ trade[t] # NoRow => /\ trade[t].allocated = SumOf(Allocations(exits, t))
                           /\ trade[t].allocated <= trade[t].volume

(* What an event does to the allocation.                                    *)
LEMMA AppliedAllocation ==
  ASSUME NEW r \in Row, NEW ev, NEW net
  PROVE  LET new == [ApplyEvent(r, ev) EXCEPT !.netPnl = net]
         IN  /\ ev.type = "JOURNALING_EDITED" =>
                  new.volume = r.volume /\ new.allocated = r.allocated
             /\ ev.type = "TOMBSTONE_SET" =>
                  new.volume = r.volume /\ new.allocated = r.allocated
             /\ ev.type = "EXIT_RECORDED" =>
                  new.volume = r.volume /\ new.allocated = r.allocated + ev.volume
             /\ ev.type = "EXIT_CANCELLED" =>
                  new.volume = r.volume /\ new.allocated = r.allocated - ev.volume
BY DEF ApplyEvent, Row

LEMMA VolumesAreIntegers ==
  ASSUME TypeOK, NEW t
  PROVE  \A p \in Allocations(exits, t) : p[2] \in Int
<1>1. \A e \in ActiveExits(exits, t) : exits[e] \in ExitRow
  BY DEF TypeOK, ActiveExits
<1>2. \A e \in ActiveExits(exits, t) : exits[e].volume \in Int
  <2>1. \A r \in ExitRow : r.volume \in Volumes
    BY DEF ExitRow
  <2>2. Volumes \subseteq Int
    BY VolumesArePositive
  <2>3. QED
    BY <1>1, <2>1, <2>2
<1>3. ASSUME NEW p \in Allocations(exits, t) PROVE p[2] \in Int
  <2>1. PICK e \in ActiveExits(exits, t) : p = <<e, exits[e].volume>>
    BY DEF Allocations
  <2>2. p[2] = exits[e].volume
    BY <2>1
  <2>3. QED
    BY <1>2, <2>2
<1>4. QED
  BY <1>3

(* A step of one trade, in terms of its own row and its own exits.          *)
LEMMA OneTradeMoves ==
  ASSUME AllocationInv, NEW t \in Trades,
         \A u \in Trades : u # t =>
           trade'[u] = trade[u] /\ Allocations(exits', u) = Allocations(exits, u),
         IsFiniteSet(Allocations(exits', t)),
         trade'[t].allocated = SumOf(Allocations(exits', t)),
         trade'[t].allocated <= trade'[t].volume
  PROVE  AllocationInv'
<1>1. ASSUME NEW u \in Trades
      PROVE  /\ IsFiniteSet(Allocations(exits', u))
             /\ trade'[u] # NoRow => /\ trade'[u].allocated = SumOf(Allocations(exits', u))
                                     /\ trade'[u].allocated <= trade'[u].volume
  <2>1. CASE u = t
    BY <2>1
  <2>2. CASE u # t
    BY <2>2 DEF AllocationInv
  <2>3. QED
    BY <2>1, <2>2
<1>2. QED
  BY <1>1 DEF AllocationInv, Allocations, ActiveExits

LEMMA CreateKeepsAllocation ==
  ASSUME IInv, AllocationInv, NEW t \in Trades, NEW row, Atomic!Create(t, row),
         row.allocated = 0, row.volume \in Nat
  PROVE  AllocationInv'
<1>1. /\ trade[t] = NoRow /\ trade' = [trade EXCEPT ![t] = row] /\ exits' = exits
      /\ trade \in [Trades -> Row \cup {NoRow}]
  BY DEF Atomic!Create, IInv, TypeOK
<1>2. trade'[t] = row /\ \A u \in Trades : u # t => trade'[u] = trade[u]
  BY <1>1
<1>3. Allocations(exits', t) = {}
  BY <1>1 DEF IInv, ExitsHaveTrades, Allocations, ActiveExits
<1>4. row.allocated <= row.volume
  OBVIOUS
<1>5. IsFiniteSet({}) /\ SumOf({}) = 0
  BY FS_EmptySet, SumOfEmpty
<1>6. QED
  BY <1>1, <1>2, <1>3, <1>4, <1>5, OneTradeMoves

(* An event that is not about exits.                                        *)
LEMMA EditKeepsAllocation ==
  ASSUME IInv, AllocationInv, NEW t \in Trades, NEW ev, NEW net, Atomic!Extend(t, ev, net),
         \/ ev.type = "JOURNALING_EDITED"
         \/ ev.type = "TOMBSTONE_SET",
         UNCHANGED exits
  PROVE  AllocationInv'
<1>1. /\ trade \in [Trades -> Row \cup {NoRow}] /\ trade[t] # NoRow
      /\ trade' = [trade EXCEPT ![t] = [ApplyEvent(trade[t], ev) EXCEPT !.netPnl = net]]
  BY SameFold DEF IInv, TypeOK, Atomic!Extend
<1>2. /\ trade'[t] = [ApplyEvent(trade[t], ev) EXCEPT !.netPnl = net] /\ trade[t] \in Row
      /\ \A u \in Trades : u # t => trade'[u] = trade[u]
  BY <1>1
<1>3. trade'[t].volume = trade[t].volume /\ trade'[t].allocated = trade[t].allocated
  BY <1>2, AppliedAllocation
<1>4. QED
  BY <1>1, <1>2, <1>3, OneTradeMoves DEF AllocationInv

LEMMA RecordKeepsAllocation ==
  ASSUME IInv, AllocationInv, NEW t \in Trades, NEW e \in ExitIds, NEW volume \in Volumes,
         NEW pnl \in Pnls, Atomic!RecordExit(t, e, volume, pnl)
  PROVE  AllocationInv'
<1> DEFINE ev == Recorded(trade[t].version, volume)
           net == Realized(exits, ActiveExits(exits, t)) + pnl
           P == Allocations(exits, t)
           p == <<e, volume>>
<1>1. /\ trade \in [Trades -> Row \cup {NoRow}] /\ exits \in [ExitIds -> ExitRow \cup {NoRow}]
      /\ volume \in Int
  BY VolumesArePositive DEF IInv, TypeOK
<1>2. /\ trade[t] # NoRow /\ Accepts(trade[t], ev)
      /\ trade' = [trade EXCEPT ![t] = [ApplyEvent(trade[t], ev) EXCEPT !.netPnl = net]]
      /\ exits[e] = NoRow /\ exits' = [exits EXCEPT ![e] = NewExit(t, volume, pnl)]
  BY SameFold, SameReads
     DEF Atomic!RecordExit, Atomic!Extend, Atomic!Recorded, Recorded, Atomic!NewExit, NewExit
<1>3. ev.type = "EXIT_RECORDED" /\ ev.volume = volume
  BY DEF Recorded
<1> HIDE DEF ev, net
<1>4. /\ trade'[t] = [ApplyEvent(trade[t], ev) EXCEPT !.netPnl = net] /\ trade[t] \in Row
      /\ \A u \in Trades : u # t => trade'[u] = trade[u]
  BY <1>1, <1>2
<1>5. /\ trade'[t].volume = trade[t].volume /\ trade'[t].allocated = trade[t].allocated + volume
      /\ trade[t].allocated + volume <= trade[t].volume
  <2>1. trade[t].allocated + ev.volume <= trade[t].volume
    BY <1>2, <1>3 DEF Accepts
  <2>2. /\ trade'[t].volume = trade[t].volume
        /\ trade'[t].allocated = trade[t].allocated + ev.volume
    BY <1>3, <1>4, AppliedAllocation
  <2>3. QED
    BY <1>3, <2>1, <2>2
<1>6. NewExit(t, volume, pnl) \in ExitRow
  BY DEF NewExit, ExitRow
<1>7. /\ exits'[e] # NoRow /\ exits'[e].trade = t /\ exits'[e].volume = volume
      /\ exits'[e].active /\ \A d \in ExitIds : d # e => exits'[d] = exits[d]
  BY <1>1, <1>2, <1>6, NoRowIsNoRow DEF NewExit
<1>8. /\ ActiveExits(exits', t) = ActiveExits(exits, t) \cup {e} /\ e \notin ActiveExits(exits, t)
      /\ \A u \in Trades : u # t => ActiveExits(exits', u) = ActiveExits(exits, u)
      /\ \A u : \A d \in ActiveExits(exits, u) : exits'[d] = exits[d]
  BY <1>2, <1>7 DEF ActiveExits
<1>9. /\ Allocations(exits', t) = P \cup {p} /\ p \notin P
      /\ \A u \in Trades : u # t => Allocations(exits', u) = Allocations(exits, u)
  <2>1. \A u \in Trades : u # t => Allocations(exits', u) = Allocations(exits, u)
    BY <1>8 DEF Allocations
  <2>2. p \notin P
    BY <1>8 DEF Allocations
  <2>3. Allocations(exits', t) = P \cup {p}
    BY <1>7, <1>8 DEF Allocations
  <2>4. QED
    BY <2>1, <2>2, <2>3
<1>10. \A q \in P : q[2] \in Int
  BY VolumesAreIntegers DEF IInv
<1>11. IsFiniteSet(P) /\ SumOf(P) = trade[t].allocated
  BY <1>2 DEF AllocationInv
<1>12. p[2] = volume
  OBVIOUS
<1> HIDE DEF P, p
<1>13. SumOf(P \cup {p}) = SumOf(P) + volume
  BY <1>1, <1>9, <1>10, <1>11, <1>12, SumOfOneMore
<1>14. IsFiniteSet(P \cup {p})
  BY <1>11, FS_AddElement
<1>15. trade'[t].allocated = SumOf(P \cup {p}) /\ trade'[t].allocated <= trade'[t].volume
  BY <1>5, <1>11, <1>13
<1>16. QED
  BY <1>4, <1>9, <1>14, <1>15, OneTradeMoves

LEMMA CancelKeepsAllocation ==
  ASSUME IInv, AllocationInv, NEW t \in Trades, NEW e \in ExitIds, Atomic!CancelExit(t, e)
  PROVE  AllocationInv'
<1> DEFINE volume == exits[e].volume
           ev == Cancelled(trade[t].version, volume)
           net == Realized(exits, ActiveExits(exits, t) \ {e})
           Q == Allocations(exits', t)
           p == <<e, volume>>
<1>1. /\ trade \in [Trades -> Row \cup {NoRow}] /\ exits \in [ExitIds -> ExitRow \cup {NoRow}]
  BY DEF IInv, TypeOK
<1>2. /\ trade[t] # NoRow /\ Accepts(trade[t], ev)
      /\ trade' = [trade EXCEPT ![t] = [ApplyEvent(trade[t], ev) EXCEPT !.netPnl = net]]
      /\ e \in ActiveExits(exits, t) /\ exits' = [exits EXCEPT ![e].active = FALSE]
  BY SameFold, SameReads
     DEF Atomic!CancelExit, Atomic!Extend, Atomic!Cancelled, Cancelled
<1>3. ev.type = "EXIT_CANCELLED" /\ ev.volume = volume
  BY DEF Cancelled
<1>4. exits[e] \in ExitRow /\ exits[e] # NoRow /\ exits[e].trade = t /\ volume \in Nat
  BY <1>1, <1>2, VolumesArePositive DEF ActiveExits, ExitRow
<1> HIDE DEF ev, net
<1>5. /\ trade'[t] = [ApplyEvent(trade[t], ev) EXCEPT !.netPnl = net] /\ trade[t] \in Row
      /\ \A u \in Trades : u # t => trade'[u] = trade[u]
  BY <1>1, <1>2
<1>6. trade'[t].volume = trade[t].volume /\ trade'[t].allocated = trade[t].allocated - volume
  BY <1>3, <1>5, AppliedAllocation
<1>7. /\ exits'[e].active = FALSE /\ exits'[e].trade = t
      /\ \A d \in ExitIds : d # e => exits'[d] = exits[d]
  BY <1>1, <1>2, <1>4 DEF ExitRow
<1>8. /\ ActiveExits(exits, t) = ActiveExits(exits', t) \cup {e} /\ e \notin ActiveExits(exits', t)
      /\ \A u \in Trades : u # t => ActiveExits(exits', u) = ActiveExits(exits, u)
      /\ \A u : \A d \in ActiveExits(exits', u) : exits'[d] = exits[d]
  BY <1>2, <1>4, <1>7 DEF ActiveExits
<1>9. /\ Allocations(exits, t) = Q \cup {p} /\ p \notin Q
      /\ \A u \in Trades : u # t => Allocations(exits', u) = Allocations(exits, u)
  <2>1. \A u \in Trades : u # t => Allocations(exits', u) = Allocations(exits, u)
    BY <1>8 DEF Allocations
  <2>2. p \notin Q
    BY <1>8 DEF Allocations
  <2>3. Allocations(exits, t) = Q \cup {p}
    BY <1>8 DEF Allocations
  <2>4. QED
    BY <2>1, <2>2, <2>3
<1>10. \A q \in Q \cup {p} : q[2] \in Int
  <2>1. \A q \in Allocations(exits, t) : q[2] \in Int
    BY VolumesAreIntegers DEF IInv
  <2> HIDE DEF Q, p
  <2>2. QED
    BY <1>9, <2>1
<1>11. /\ IsFiniteSet(Q \cup {p}) /\ SumOf(Q \cup {p}) = trade[t].allocated
       /\ trade[t].allocated <= trade[t].volume
  BY <1>2, <1>9 DEF AllocationInv
<1>12. p[2] = volume
  OBVIOUS
<1> HIDE DEF Q, p, volume
<1>13. IsFiniteSet(Q)
  BY <1>11, FS_Subset
<1>14. SumOf(Q \cup {p}) = SumOf(Q) + volume /\ SumOf(Q) \in Int
  BY <1>4, <1>9, <1>10, <1>12, <1>13, SumOfOneMore
<1>15. trade[t].allocated \in Nat /\ trade[t].volume \in Nat
  BY <1>5, VolumesArePositive DEF Row
<1>16. trade'[t].allocated = SumOf(Q) /\ trade'[t].allocated <= trade'[t].volume
  BY <1>4, <1>6, <1>11, <1>14, <1>15
<1>17. QED
  BY <1>5, <1>9, <1>13, <1>16, OneTradeMoves DEF Q

LEMMA StepsKeepAllocation ==
  ASSUME IInv, IInv', AllocationInv, [Next]_vars
  PROVE  AllocationInv'
<1>1. [Atomic!Next]_(Atomic!vars)
  BY StepsAreAtomic
<1>2. CASE UNCHANGED Atomic!vars
  BY <1>2 DEF Atomic!vars, AllocationInv, Allocations, ActiveExits
<1>3. ASSUME NEW t \in Trades, NEW volume \in Volumes, NEW pnl \in Pnls,
             NEW strategy, NEW notes,
             Atomic!Create(t, Atomic!NewRow(volume, pnl, strategy, notes))
      PROVE  AllocationInv'
  <2> DEFINE row == Atomic!NewRow(volume, pnl, strategy, notes)
  <2>1. row.allocated = 0 /\ row.volume \in Nat
    BY VolumesArePositive DEF Atomic!NewRow
  <2> HIDE DEF row
  <2>2. Atomic!Create(t, row)
    BY <1>3 DEF row
  <2>3. QED
    BY <2>1, <2>2, CreateKeepsAllocation
<1>4. ASSUME NEW t \in Trades, NEW patch, Atomic!Edit(t, patch) PROVE AllocationInv'
  <2> DEFINE ev == Atomic!Edited(trade[t].version, patch)
  <2>1. ev.type = "JOURNALING_EDITED"
    BY DEF Atomic!Edited
  <2> HIDE DEF ev
  <2>2. Atomic!Extend(t, ev, trade[t].netPnl) /\ UNCHANGED exits
    BY <1>4 DEF Atomic!Edit, ev
  <2>3. QED
    BY <2>1, <2>2, EditKeepsAllocation
<1>5. ASSUME NEW t \in Trades, Atomic!Tombstone(t) PROVE AllocationInv'
  <2> DEFINE ev == Atomic!Tombstoned(trade[t].version)
  <2>1. ev.type = "TOMBSTONE_SET"
    BY DEF Atomic!Tombstoned
  <2> HIDE DEF ev
  <2>2. Atomic!Extend(t, ev, trade[t].netPnl) /\ UNCHANGED exits
    BY <1>5 DEF Atomic!Tombstone, ev
  <2>3. QED
    BY <2>1, <2>2, EditKeepsAllocation
<1>6. ASSUME NEW t \in Trades, NEW e \in ExitIds, NEW volume \in Volumes, NEW pnl \in Pnls,
             Atomic!RecordExit(t, e, volume, pnl)
      PROVE  AllocationInv'
  BY <1>6, RecordKeepsAllocation
<1>7. ASSUME NEW t \in Trades, NEW e \in ExitIds, Atomic!CancelExit(t, e) PROVE AllocationInv'
  BY <1>7, CancelKeepsAllocation
<1>8. QED
  BY <1>1, <1>2, <1>3, <1>4, <1>5, <1>6, <1>7 DEF Atomic!Next

(* The allocated volume, which one statement raises (velora_apply_exit) and *)
(* another lowers (pgTradeStore.ts cancelExit), is the volume of the active *)
(* exits and never exceeds the trade's own.                                 *)
THEOREM AllocationsAreExact == Spec => []AllocationIsExact
<1>1. Init => AllocationInv
  <2> SUFFICES ASSUME Init PROVE AllocationInv
    OBVIOUS
  <2>1. \A t \in Trades : trade[t] = NoRow /\ Allocations(exits, t) = {}
    BY DEF Init, Allocations, ActiveExits
  <2>2. QED
    BY <2>1, FS_EmptySet DEF AllocationInv
<1>2. IInv /\ IInv' /\ AllocationInv /\ [Next]_vars => AllocationInv'
  BY StepsKeepAllocation
<1>3. AllocationInv => AllocationIsExact
  BY DEF AllocationInv, AllocationIsExact, Allocations
<1>4. QED
  BY <1>1, <1>2, <1>3, Coherence, PTL DEF Spec

=============================================================================
