----------------------------- MODULE MetaApiSync -----------------------------
(***************************************************************************)
(* Historical synchronisation of broker accounts: the tick and the two     *)
(* other producers of sync jobs (scheduler/syncScheduler.ts, the webhook   *)
(* ingress, the manual request), the handler of a job statement by         *)
(* statement (handlers/metaApiSyncHandler.ts), the reservation and the     *)
(* import transaction (metaapi/syncRepository.ts), and the reconciliation  *)
(* of closed positions (metaapi/positionReconciler.ts, the domain's        *)
(* metaApiPositionAssembly.ts).                                            *)
(*                                                                         *)
(* Every deal is one lot, so that a sum of volumes is a number of deals;   *)
(* its data can lack a direction, and is sound otherwise.                  *)
(***************************************************************************)
EXTENDS Integers, FiniteSets

CONSTANTS Accounts,     \* ids of trading_accounts with a MetaAPI identifier
          Positions,    \* provider positions
          Holder,       \* the account of a position
          Deals,        \* provider deals: entries into and out of positions
          Runs,         \* executions of the handler at one time
          JobAttempts,  \* maxAttempts of the sync policy
          TickLimit,    \* LIMIT of listSyncableAccounts
          Lookback,     \* SYNC_INITIAL_LOOKBACK_MS
          Broken,       \* accounts the provider always rejects
          MaxTime,      \* bound of the clock
          MaxJobs,      \* bound of an account's waiting jobs
          MaxFaults     \* bound of crashes, timeouts and failures

ASSUME AccountsAreIds == Accounts \subseteq Nat
ASSUME PositionsHaveHolders == Holder \in [Positions -> Accounts]
ASSUME DealsAreFinite == IsFiniteSet(Deals)
ASSUME DealsAreDeals ==
  \A d \in Deals :
    d.position \in Positions /\ d.entry \in {"in", "out"} /\ d.directed \in BOOLEAN
ASSUME JobAttemptsArePositive == JobAttempts \in Nat \ {0}
ASSUME BoundsAreNaturals == MaxTime \in Nat /\ MaxJobs \in Nat /\ MaxFaults \in Nat
                             /\ TickLimit \in Nat
ASSUME LookbackReachesBack == Lookback \in Nat /\ Lookback >= MaxTime
ASSUME BrokenAreAccounts == Broken \subseteq Accounts

VARIABLES now,          \* the clock
          at,           \* external: when a deal was made at the provider
          account,      \* table trading_accounts: sync_cursor and last_synced_at
          fills,        \* table sync_fills: the deals that have a row
          assessed,     \* table sync_position_state
          trade,        \* table trades: the fills the row of a position sums up
          reservation,  \* table sync_reservations: the unreleased row of an account
          jobs,         \* the jobs that wait to be fetched
          run,          \* the handler executions
          faults        \* crashes, timeouts and failures so far

ledger == <<account, fills, assessed, trade>>
vars   == <<now, at, account, fills, assessed, trade, reservation, jobs, run, faults>>

(* SQL's null; it sorts before every instant.                               *)
Never == -1

Instant == {Never} \cup Nat

NoRun == "none"
ASSUME NoRunIsNoRun == NoRun \notin Runs

(* The window a job asks for: from inclusive, to exclusive.                 *)
Job == [account : Accounts, from : Int, to : Nat, retries : 0..(JobAttempts - 1)]

Idle == [step |-> "idle"]

(* live says that the runner still waits for the handler.                   *)
Working == [step : {"taken", "reserved", "fetched", "leaving", "released"}, job : Job,
            deals : SUBSET Deals, ok : BOOLEAN, live : BOOLEAN]

TypeOK ==
  /\ now \in Nat
  /\ at \in [Deals -> Instant]
  /\ account \in [Accounts -> [cursor : Instant, synced : Instant]]
  /\ fills \in SUBSET Deals
  /\ assessed \in [Positions -> {"absent", "received", "aggregated", "skipped"}]
  /\ trade \in [Positions -> SUBSET Deals]
  /\ reservation \in [Accounts -> [by : Runs \cup {NoRun}, lapsed : BOOLEAN]]
  /\ jobs \in SUBSET Job
  /\ run \in [Runs -> {Idle} \cup Working]
  /\ faults \in 0..MaxFaults

Init ==
  /\ now = 0
  /\ at = [d \in Deals |-> Never]
  /\ account = [a \in Accounts |-> [cursor |-> Never, synced |-> Never]]
  /\ fills = {}
  /\ assessed = [p \in Positions |-> "absent"]
  /\ trade = [p \in Positions |-> {}]
  /\ reservation = [a \in Accounts |-> [by |-> NoRun, lapsed |-> FALSE]]
  /\ jobs = {}
  /\ run = [r \in Runs |-> Idle]
  /\ faults = 0

-----------------------------------------------------------------------------
(* External: the provider.  A position is entered and left; once as much    *)
(* has left as has entered it is closed for good.  No deal is made at the   *)
(* last instant, which no window covers.                                    *)

Made(p) == {d \in Deals : d.position = p /\ at[d] # Never}

Entries(S) == {d \in S : d.entry = "in"}
Exits(S)   == {d \in S : d.entry = "out"}

(* fault: a position with an exit counts as closed *)
HalfClosed(S) == Entries(S) # {} /\ Exits(S) # {}

(* The emit gate of the assembler.                                          *)
Closed(S) ==
  /\ Entries(S) # {} /\ Exits(S) # {}
  /\ Cardinality(Exits(S)) >= Cardinality(Entries(S))

(* openDirection: the assembler takes the direction from the entries.       *)
Directed(S) == \E d \in Entries(S) : d.directed

MakeDeal(d) ==
  LET entered == Cardinality(Entries(Made(d.position)))
      left    == Cardinality(Exits(Made(d.position)))
  IN  /\ at[d] = Never
      /\ now < MaxTime
      /\ left < entered \/ (d.entry = "in" /\ entered = 0)
      /\ at' = [at EXCEPT ![d] = now]
      /\ UNCHANGED <<now, ledger, reservation, jobs, run, faults>>

Clock ==
  /\ now < MaxTime
  /\ now' = now + 1
  /\ UNCHANGED <<at, ledger, reservation, jobs, run, faults>>

-----------------------------------------------------------------------------
(* The producers.  One window rule for all; a job with the same key that    *)
(* waits for its first delivery swallows the new one.                       *)

WindowStart(a) == IF account[a].cursor = Never THEN now - Lookback ELSE account[a].cursor

Enqueue(a) ==
  /\ WindowStart(a) < now
  /\ Cardinality({job \in jobs : job.account = a}) < MaxJobs
  /\ ~ \E job \in jobs : /\ job.account = a /\ job.from = WindowStart(a)
                         /\ job.retries = JobAttempts - 1
  /\ jobs' = jobs \cup {[account |-> a, from |-> WindowStart(a), to |-> now,
                         retries |-> JobAttempts - 1]}
  /\ UNCHANGED <<now, at, ledger, reservation, run, faults>>

Precedes(a, b) ==
  \/ account[a].synced < account[b].synced
  \/ account[a].synced = account[b].synced /\ a < b

(* listSyncableAccounts *)
Listed(a) == Cardinality({b \in Accounts : Precedes(b, a)}) < TickLimit

SyncTick(a) == Listed(a) /\ Enqueue(a)

(* A webhook event or the account's user asks for a sync.                   *)
RequestSync(a) == Enqueue(a)

-----------------------------------------------------------------------------
(* The job queue: a failed or expired job comes back until its retries are  *)
(* used up; two jobs with one key are never active together.                *)

GiveBack(job) ==
  jobs' = IF job.retries > 0 THEN jobs \cup {[job EXCEPT !.retries = @ - 1]} ELSE jobs

Take(r, job) ==
  /\ run[r] = Idle
  /\ job \in jobs
  /\ ~ \E s \in Runs : /\ run[s] # Idle /\ run[s].live
                       /\ run[s].job.account = job.account /\ run[s].job.from = job.from
  /\ jobs' = jobs \ {job}
  /\ run' = [run EXCEPT ![r] = [step |-> "taken", job |-> job, deals |-> {},
                                ok |-> TRUE, live |-> TRUE]]
  /\ UNCHANGED <<now, at, ledger, reservation, faults>>

Goto(r, step) == run' = [run EXCEPT ![r].step = step]

Leave(r, ok) == run' = [run EXCEPT ![r].step = "leaving", ![r].deals = {}, ![r].ok = ok]

Fault == faults < MaxFaults /\ faults' = faults + 1

-----------------------------------------------------------------------------
(* The handler.                                                            *)

Mine(r) == run[r].job.account

(* fault: an expired lease is not reclaimed *)
FaultyAvailable(a) == reservation[a].by = NoRun

(* No unreleased row, or one that the statement before reclaims.            *)
Available(a) == reservation[a].by = NoRun \/ reservation[a].lapsed

(* acquireReservation *)
Acquire(r) ==
  /\ run[r].step = "taken"
  /\ Available(Mine(r))
  /\ reservation' = [reservation EXCEPT ![Mine(r)] = [by |-> r, lapsed |-> FALSE]]
  /\ Goto(r, "reserved")
  /\ UNCHANGED <<now, at, ledger, jobs, faults>>

(* RESERVATION_HELD *)
Refuse(r) ==
  /\ run[r].step = "taken"
  /\ ~Available(Mine(r))
  /\ run' = [run EXCEPT ![r].step = "released", ![r].ok = FALSE]
  /\ UNCHANGED <<now, at, ledger, reservation, jobs, faults>>

(* fault: the first instant of the window is left out *)
FaultyInWindow(d, job) == job.from < at[d] /\ at[d] < job.to

InWindow(d, job) == job.from <= at[d] /\ at[d] < job.to

(* External: the provider answers with every deal of the window.            *)
Fetch(r) ==
  /\ run[r].step = "reserved"
  /\ Mine(r) \notin Broken
  /\ run' = [run EXCEPT ![r].step = "fetched",
       ![r].deals = {d \in Deals : /\ Holder[d.position] = Mine(r) /\ at[d] # Never
                                   /\ InWindow(d, run[r].job)}]
  /\ UNCHANGED <<now, at, ledger, reservation, jobs, faults>>

FetchFails(r) ==
  /\ run[r].step = "reserved"
  /\ IF Mine(r) \in Broken THEN UNCHANGED faults ELSE Fault
  /\ Leave(r, FALSE)
  /\ UNCHANGED <<now, at, ledger, reservation, jobs>>

(* fault: a position is assembled from the batch, not from the ledger *)
FaultyFillsForPosition(p, batch) == {d \in batch : d.position = p}

FillsForPosition(p, batch) == {d \in fills \cup batch : d.position = p}

(* A new fill opens its position again.                                     *)
Reopened(batch) == {d.position : d \in batch \ fills}

(* The positions of account a that the reconciliation assesses; the rest is *)
(* aggregated or skipped for good.                                          *)
Pending(a, batch) ==
  {p \in Positions : /\ Holder[p] = a
                     /\ \E d \in fills \cup batch : d.position = p
                     /\ assessed[p] \in {"absent", "received"} \/ p \in Reopened(batch)}

Emitted(a, batch) ==
  {p \in Pending(a, batch) : /\ Closed(FillsForPosition(p, batch))
                             /\ Directed(FillsForPosition(p, batch))}

Unusable(a, batch) ==
  {p \in Pending(a, batch) : /\ Closed(FillsForPosition(p, batch))
                             /\ ~Directed(FillsForPosition(p, batch))}

(* fault: the outcome of a skipped position is the reason alone *)
ReasonedImport(r) ==
  LET a == Mine(r)
      batch == run[r].deals
  IN  /\ run[r].step = "fetched"
      /\ fills' = fills \cup batch
      /\ assessed' = [p \in Positions |->
           IF p \in Unusable(a, batch) THEN "unknown_direction" ELSE assessed[p]]
      /\ Leave(r, TRUE)
      /\ UNCHANGED <<now, at, account, trade, reservation, jobs, faults>>

(* importBatch, one transaction: the fills, the reconciliation, the cursor. *)
(* The row of a position that has one already stays as it is.               *)
Import(r) ==
  LET a == Mine(r)
      batch == run[r].deals
  IN  /\ run[r].step = "fetched"
      /\ fills' = fills \cup batch
      /\ assessed' = [p \in Positions |->
           CASE p \in Emitted(a, batch)  -> "aggregated"
             [] p \in Unusable(a, batch) -> "skipped"
             [] p \in Reopened(batch) \ (Emitted(a, batch) \cup Unusable(a, batch)) -> "received"
             [] OTHER -> assessed[p]]
      /\ trade' = [p \in Positions |->
           IF p \in Emitted(a, batch) /\ trade[p] = {} THEN FillsForPosition(p, batch)
                                                       ELSE trade[p]]
      /\ account' = [account EXCEPT ![a] = [cursor |-> run[r].job.to, synced |-> now]]
      /\ Leave(r, TRUE)
      /\ UNCHANGED <<now, at, reservation, jobs, faults>>

(* The transaction is rolled back.                                          *)
ImportFails(r) ==
  /\ run[r].step = "fetched"
  /\ Fault
  /\ Leave(r, FALSE)
  /\ UNCHANGED <<now, at, ledger, reservation, jobs>>

(* fault: the reservation of the account is released, whoever holds it *)
FaultyRelease(r) ==
  /\ run[r].step = "leaving"
  /\ reservation' = [reservation EXCEPT ![Mine(r)] = [by |-> NoRun, lapsed |-> FALSE]]
  /\ Goto(r, "released")
  /\ UNCHANGED <<now, at, ledger, jobs, faults>>

(* releaseReservation, by the id of the run's own row                       *)
Release(r) ==
  /\ run[r].step = "leaving"
  /\ reservation' = IF reservation[Mine(r)].by = r
                      THEN [reservation EXCEPT ![Mine(r)] = [by |-> NoRun, lapsed |-> FALSE]]
                      ELSE reservation
  /\ Goto(r, "released")
  /\ UNCHANGED <<now, at, ledger, jobs, faults>>

(* The handler returns or throws; the runner completes or fails the job if  *)
(* it has not given it back.                                                *)
Settle(r) ==
  /\ run[r].step = "released"
  /\ run' = [run EXCEPT ![r] = Idle]
  /\ IF run[r].live /\ ~run[r].ok THEN GiveBack(run[r].job) ELSE UNCHANGED jobs
  /\ UNCHANGED <<now, at, ledger, reservation, faults>>

-----------------------------------------------------------------------------
(* Faults, and the end of a lease.  A lease may end at any time, even while *)
(* its run is live.                                                         *)

LeaseExpires(a) ==
  /\ reservation[a].by # NoRun /\ ~reservation[a].lapsed
  /\ reservation' = [reservation EXCEPT ![a].lapsed = TRUE]
  /\ UNCHANGED <<now, at, ledger, jobs, run, faults>>

(* The hard timeout gives the job back, the handler runs on.                *)
TimeOut(r) ==
  /\ run[r] # Idle /\ run[r].live
  /\ Fault
  /\ run' = [run EXCEPT ![r].live = FALSE]
  /\ GiveBack(run[r].job)
  /\ UNCHANGED <<now, at, ledger, reservation>>

(* The worker dies; the job comes back when pg-boss finds it expired.       *)
Die(r) ==
  /\ run[r] # Idle
  /\ Fault
  /\ run' = [run EXCEPT ![r] = Idle]
  /\ IF run[r].live THEN GiveBack(run[r].job) ELSE UNCHANGED jobs
  /\ UNCHANGED <<now, at, ledger, reservation>>

Serve(a) == \E r \in Runs, job \in jobs : job.account = a /\ Take(r, job)

(* What the handler does by itself: calls and statements return.            *)
Handle(r) ==
  \/ Acquire(r) \/ Refuse(r) \/ Fetch(r) \/ FetchFails(r) \/ Import(r) \/ ImportFails(r)
  \/ Release(r) \/ Settle(r)

Next ==
  \/ Clock
  \/ \E d \in Deals : MakeDeal(d)
  \/ \E a \in Accounts : SyncTick(a) \/ RequestSync(a) \/ LeaseExpires(a) \/ Serve(a)
  \/ \E r \in Runs : Handle(r) \/ TimeOut(r) \/ Die(r)

Spec == Init /\ [][Next]_vars

(* Time passes, the cron fires, a lease ends, the queue hands out the jobs  *)
(* of an account in their turn, and a handler that is under way goes on.    *)
Fairness ==
  /\ WF_vars(Clock)
  /\ \A a \in Accounts : /\ WF_vars(SyncTick(a)) /\ WF_vars(LeaseExpires(a))
                         /\ SF_vars(Serve(a))
  /\ \A r \in Runs : WF_vars(Handle(r))

FairSpec == Spec /\ Fairness

-----------------------------------------------------------------------------
(* Properties.                                                             *)

(* The cursor never runs ahead of committed work: every deal made before it *)
(* has its row, although an older job, or a run that has lost its lease,    *)
(* may move the cursor back, and the windows of jobs overlap.               *)
CursorCoversHistory ==
  \A d \in Deals : at[d] # Never /\ at[d] < account[Holder[d.position]].cursor => d \in fills

(* The trade of a position sums up all its deals, entries and exits: none   *)
(* is emitted for a position that is partly closed at the provider, in      *)
(* whatever batches, by whatever runs, its deals arrived.                   *)
TradesAreWhole ==
  \A p \in Positions : trade[p] # {} =>
    /\ trade[p] = Made(p)
    /\ Cardinality(Exits(Made(p))) = Cardinality(Entries(Made(p)))

(* A position whose fills are complete is a trade, or skipped for good; no  *)
(* other is.                                                                *)
AssessmentIsCurrent ==
  \A p \in Positions :
    LET ledgered == {d \in fills : d.position = p}
    IN  /\ assessed[p] = "aggregated" <=> Closed(ledgered) /\ Directed(ledgered)
        /\ assessed[p] = "skipped" <=> Closed(ledgered) /\ ~Directed(ledgered)
        /\ assessed[p] = "aggregated" <=> trade[p] # {}

(* While its lease runs, a run keeps the account's reservation until it     *)
(* releases it itself: no run that has lost its lease releases another's.   *)
LeaseIsRespected ==
  [][\A a \in Accounts, r \in Runs :
       reservation[a].by = r /\ ~reservation[a].lapsed /\ reservation'[a].by # r
         => run[r].step = "leaving" /\ run'[r].step = "released"]_vars

(* Every deal of an account the provider serves gets its row, whatever is   *)
(* cut short on the way, as long as a tick's listing has room for every     *)
(* account, those the provider always rejects included: they keep the head  *)
(* of the listing (ORDER BY last_synced_at), and as many of them as the     *)
(* LIMIT keep every other account out of it.                                *)
EveryDealIsSynced ==
  Cardinality(Accounts) <= TickLimit =>
    \A d \in Deals : Holder[d.position] \notin Broken => (at[d] # Never ~> d \in fills)
=============================================================================
