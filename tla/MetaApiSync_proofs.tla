-------------------------- MODULE MetaApiSync_proofs --------------------------
(***************************************************************************)
(* Proofs about the historical synchronisation, for any accounts,          *)
(* positions, deals, runs and jobs: its type invariant, that the cursor    *)
(* covers the history before it, that trades are whole and assessments     *)
(* current, and that a run keeps its reservation while the lease runs.     *)
(***************************************************************************)
EXTENDS MetaApiSync, FiniteSetTheorems, TLAPS

(* A set of deals of a position with no gap in time before its last one.    *)
PrefixOf(S, p) ==
  /\ S \subseteq Made(p)
  /\ \A d \in S, e \in Made(p) : at[e] =< at[d] => e \in S

(* The clock is within its bound and ahead of every deal and cursor.        *)
ClockFits ==
  /\ now =< MaxTime
  /\ \A d \in Deals : at[d] =< now
  /\ \A a \in Accounts : account[a].cursor =< now

(* Once as much has left a position as has entered it, it stays as it is.   *)
ClosedForGood ==
  \A p \in Positions :
    /\ \A S \in SUBSET Deals : PrefixOf(S, p) /\ Closed(S) => S = Made(p)
    /\ Cardinality(Exits(Made(p))) =< Cardinality(Entries(Made(p)))

(* Every deal of the account made before t has its row.                     *)
Covered(a, t) ==
  \A d \in Deals : Holder[d.position] = a /\ at[d] # Never /\ at[d] < t => d \in fills

(* A window begins where the ledger is complete, and does not reach beyond  *)
(* the clock; what was fetched for it is all there is of it.                *)
Fits(j) == j.to =< now /\ j.from =< now /\ Covered(j.account, j.from)
Window(j) == {d \in Deals : Holder[d.position] = j.account /\ at[d] # Never /\ InWindow(d, j)}
WindowsFit ==
  /\ \A j \in jobs : Fits(j)
  /\ \A r \in Runs : run[r] # Idle => Fits(run[r].job)
  /\ \A r \in Runs : run[r].step = "fetched" => run[r].deals = Window(run[r].job)
  /\ \A a \in Accounts : Covered(a, account[a].cursor)

(* The rows of a position are its deals up to some instant that has passed. *)
RowsOf(p) == {d \in fills : d.position = p}
LedgerFits ==
  /\ \A d \in fills : at[d] # Never /\ at[d] < now
  /\ \A p \in Positions : PrefixOf(RowsOf(p), p)

IInv ==
  /\ TypeOK /\ ClockFits /\ ClosedForGood /\ WindowsFit /\ LedgerFits
  /\ TradesAreWhole /\ AssessmentIsCurrent

-----------------------------------------------------------------------------
(* Operators.                                                               *)

(* What a deal adds to the entries and exits of a set, and what they count. *)
LEMMA Sides ==
  ASSUME NEW S, S \subseteq Deals
  PROVE  /\ IsFiniteSet(Entries(S)) /\ IsFiniteSet(Exits(S))
         /\ Cardinality(Entries(S)) \in Nat /\ Cardinality(Exits(S)) \in Nat
<1>1. Entries(S) \subseteq Deals /\ Exits(S) \subseteq Deals
  BY DEF Entries, Exits
<1>2. IsFiniteSet(Entries(S)) /\ IsFiniteSet(Exits(S))
  BY <1>1, DealsAreFinite, FS_Subset
<1> QED
  BY <1>2, FS_CardinalityType

LEMMA DealAdded ==
  ASSUME NEW S, S \subseteq Deals, NEW d \in Deals, d \notin S
  PROVE  /\ d.entry = "in" => /\ Cardinality(Entries(S \cup {d})) = Cardinality(Entries(S)) + 1
                              /\ Exits(S \cup {d}) = Exits(S)
         /\ d.entry = "out" => /\ Cardinality(Exits(S \cup {d})) = Cardinality(Exits(S)) + 1
                               /\ Entries(S \cup {d}) = Entries(S)
<1>1. d \notin Entries(S) /\ d \notin Exits(S)
  BY DEF Entries, Exits
<1>2. /\ Cardinality(Entries(S) \cup {d}) = Cardinality(Entries(S)) + 1
      /\ Cardinality(Exits(S) \cup {d}) = Cardinality(Exits(S)) + 1
  BY <1>1, Sides, FS_AddElement
<1>3. CASE d.entry = "in"
  <2>1. Entries(S \cup {d}) = Entries(S) \cup {d} /\ Exits(S \cup {d}) = Exits(S)
    BY <1>3 DEF Entries, Exits
  <2> QED
    BY <1>2, <1>3, <2>1
<1>4. CASE d.entry = "out"
  <2>1. Entries(S \cup {d}) = Entries(S) /\ Exits(S \cup {d}) = Exits(S) \cup {d}
    BY <1>4 DEF Entries, Exits
  <2> QED
    BY <1>2, <1>4, <2>1
<1> QED
  BY <1>3, <1>4

LEMMA DealsHaveHolders ==
  \A d \in Deals : d.position \in Positions /\ Holder[d.position] \in Accounts
  BY DealsAreDeals, PositionsHaveHolders

-----------------------------------------------------------------------------
(* Runs and jobs.                                                           *)

LEMMA IdleStep == Idle.step = "idle" /\ Idle \notin Working
  BY DEF Idle, Working

(* A run that is not idle works on a job.                                   *)
LEMMA RunIsWorking ==
  ASSUME TypeOK, NEW r \in Runs, run[r] # Idle \/ run[r].step # "idle"
  PROVE  /\ run[r] \in Working /\ run[r] # Idle /\ run[r].job \in Job
         /\ run[r].deals \subseteq Deals
  BY IdleStep DEF TypeOK, Working

LEMMA JobIsTyped ==
  ASSUME NEW j \in Job
  PROVE  /\ j.account \in Accounts /\ j.from \in Int /\ j.to \in Nat
         /\ j.retries \in 0..(JobAttempts - 1)
  BY DEF Job

(* The others stay where they are.                                          *)
Others(r) == \A s \in Runs : s # r => run'[s] = run[s]

(* A run goes to another step of the same job.                              *)
Proceeds(r, step) ==
  /\ run'[r] \in Working /\ run'[r].job = run[r].job /\ run'[r].step = step

LEMMA GotoFacts ==
  ASSUME TypeOK, NEW r \in Runs, run[r].step # "idle",
         NEW s \in {"taken", "reserved", "fetched", "leaving", "released"}, Goto(r, s)
  PROVE  /\ run' \in [Runs -> {Idle} \cup Working] /\ Others(r) /\ Proceeds(r, s)
<1>1. run[r] \in Working
  BY RunIsWorking
<1>2. /\ [run[r] EXCEPT !.step = s] \in Working /\ [run[r] EXCEPT !.step = s].job = run[r].job
      /\ [run[r] EXCEPT !.step = s].step = s
  BY <1>1 DEF Working
<1>3. run' = [run EXCEPT ![r] = [run[r] EXCEPT !.step = s]]
  BY DEF Goto
<1> QED
  BY <1>2, <1>3 DEF TypeOK, Others, Proceeds

LEMMA LeaveFacts ==
  ASSUME TypeOK, NEW r \in Runs, run[r].step # "idle", NEW ok \in BOOLEAN, Leave(r, ok)
  PROVE  /\ run' \in [Runs -> {Idle} \cup Working] /\ Others(r) /\ Proceeds(r, "leaving")
<1>1. run[r] \in Working
  BY RunIsWorking
<1> DEFINE w == [[[run[r] EXCEPT !.step = "leaving"] EXCEPT !.deals = {}] EXCEPT !.ok = ok]
<1>2. w \in Working /\ w.job = run[r].job /\ w.step = "leaving"
  BY <1>1 DEF Working
<1>3. run' = [run EXCEPT ![r] = w]
  BY DEF Leave, TypeOK
<1> QED
  BY <1>2, <1>3 DEF TypeOK, Others, Proceeds

LEMMA RefuseFacts ==
  ASSUME TypeOK, NEW r \in Runs, run[r].step # "idle",
         run' = [run EXCEPT ![r].step = "released", ![r].ok = FALSE]
  PROVE  /\ run' \in [Runs -> {Idle} \cup Working] /\ Others(r) /\ Proceeds(r, "released")
<1>1. run[r] \in Working
  BY RunIsWorking
<1> DEFINE w == [[run[r] EXCEPT !.step = "released"] EXCEPT !.ok = FALSE]
<1>2. w \in Working /\ w.job = run[r].job /\ w.step = "released"
  BY <1>1 DEF Working
<1>3. run' = [run EXCEPT ![r] = w]
  BY DEF TypeOK
<1> QED
  BY <1>2, <1>3 DEF TypeOK, Others, Proceeds

LEMMA FetchedFacts ==
  ASSUME TypeOK, NEW r \in Runs, Fetch(r)
  PROVE  /\ run' \in [Runs -> {Idle} \cup Working] /\ Others(r) /\ Proceeds(r, "fetched")
         /\ run'[r].deals = Window(run[r].job)
<1>1. run[r] \in Working
  BY RunIsWorking DEF Fetch
<1> DEFINE S == Window(run[r].job)
<1> DEFINE w == [[run[r] EXCEPT !.step = "fetched"] EXCEPT !.deals = S]
<1>2. w \in Working /\ w.job = run[r].job /\ w.step = "fetched" /\ w.deals = S
  BY <1>1 DEF Working, Window
<1>3. run' = [run EXCEPT ![r] = w]
  BY DEF TypeOK, Fetch, Window, Mine
<1> HIDE DEF w
<1> QED
  BY <1>2, <1>3 DEF TypeOK, Others, Proceeds

LEMMA DisownFacts ==
  ASSUME TypeOK, NEW r \in Runs, run[r] # Idle, run' = [run EXCEPT ![r].live = FALSE]
  PROVE  /\ run' \in [Runs -> {Idle} \cup Working] /\ Others(r) /\ Proceeds(r, run[r].step)
         /\ run'[r].deals = run[r].deals
<1>1. run[r] \in Working
  BY RunIsWorking
<1>2. /\ [run[r] EXCEPT !.live = FALSE] \in Working
      /\ [run[r] EXCEPT !.live = FALSE].job = run[r].job
      /\ [run[r] EXCEPT !.live = FALSE].step = run[r].step
      /\ [run[r] EXCEPT !.live = FALSE].deals = run[r].deals
  BY <1>1 DEF Working
<1>3. run' = [run EXCEPT ![r] = [run[r] EXCEPT !.live = FALSE]]
  OBVIOUS
<1> QED
  BY <1>2, <1>3 DEF TypeOK, Others, Proceeds

LEMMA StopFacts ==
  ASSUME TypeOK, NEW r \in Runs, run' = [run EXCEPT ![r] = Idle]
  PROVE  run' \in [Runs -> {Idle} \cup Working] /\ Others(r) /\ run'[r] = Idle
  BY DEF TypeOK, Others

(* A job that is given back asks for the window it asked for.               *)
LEMMA GivenBackFits ==
  ASSUME jobs \in SUBSET Job, \A j \in jobs : Fits(j), NEW job \in Job, Fits(job), GiveBack(job)
  PROVE  jobs' \in SUBSET Job /\ \A j \in jobs' : Fits(j)
<1>1. CASE job.retries > 0
  <2> DEFINE back == [job EXCEPT !.retries = @ - 1]
  <2>1. /\ back \in Job
        /\ back.account = job.account /\ back.from = job.from /\ back.to = job.to
    BY <1>1, JobAttemptsArePositive DEF Job
  <2>2. Fits(back)
    BY <2>1 DEF Fits
  <2>3. jobs' = jobs \cup {back}
    BY <1>1 DEF GiveBack
  <2> QED
    BY <2>1, <2>2, <2>3
<1>2. CASE ~(job.retries > 0)
  BY <1>2 DEF GiveBack
<1> QED
  BY <1>1, <1>2

(* A step that leaves the ledger, the provider and the clock alone.         *)
LEMMA QuietKeepsIInv ==
  ASSUME IInv, UNCHANGED <<now, at, ledger>>,
         run' \in [Runs -> {Idle} \cup Working],
         \A r \in Runs : run'[r] # Idle => Fits(run'[r].job),
         \A r \in Runs : run'[r].step = "fetched" => run'[r].deals = Window(run'[r].job),
         reservation' \in [Accounts -> [by : Runs \cup {NoRun}, lapsed : BOOLEAN]],
         jobs' \in SUBSET Job, \A j \in jobs' : Fits(j), faults' \in 0..MaxFaults
  PROVE  IInv'
<1>1. UNCHANGED <<now, at, account, fills, assessed, trade>>
  BY DEF ledger
<1>2. TypeOK'
  BY <1>1 DEF IInv, TypeOK
<1>3. ClockFits' /\ ClosedForGood' /\ LedgerFits' /\ TradesAreWhole' /\ AssessmentIsCurrent'
  <2>1. ClockFits' /\ LedgerFits'
    BY <1>1 DEF IInv, ClockFits, LedgerFits, PrefixOf, RowsOf, Made
  <2>2. ClosedForGood'
    <3>1. \A p \in Positions : Made(p)' = Made(p)
      BY <1>1 DEF Made
    <3>2. \A p \in Positions : \A S \in SUBSET Deals : PrefixOf(S, p)' <=> PrefixOf(S, p)
      BY <1>1, <3>1 DEF PrefixOf
    <3>3. QED
      BY <3>1, <3>2 DEF IInv, ClosedForGood, Closed, Entries, Exits
  <2>3. TradesAreWhole'
    <3>1. \A p \in Positions : Made(p)' = Made(p)
      BY <1>1 DEF Made
    <3>2. \A p \in Positions : Entries(Made(p))' = Entries(Made(p)) /\ Exits(Made(p))' = Exits(Made(p))
      BY <3>1 DEF Entries, Exits
    <3>3. QED
      BY <1>1, <3>1, <3>2 DEF IInv, TradesAreWhole
  <2>4. AssessmentIsCurrent'
    BY <1>1 DEF IInv, AssessmentIsCurrent, Closed, Directed, Entries, Exits
  <2> QED
    BY <2>1, <2>2, <2>3, <2>4
<1>4. WindowsFit'
  BY <1>1 DEF IInv, WindowsFit, Fits, Covered, Window, InWindow
<1> QED
  BY <1>2, <1>3, <1>4 DEF IInv

(* A step of one run.                                                       *)
LEMMA RunStepKeepsIInv ==
  ASSUME IInv, NEW r \in Runs, UNCHANGED <<now, at, ledger>>,
         run' \in [Runs -> {Idle} \cup Working], Others(r),
         \/ run'[r] = Idle
         \/ /\ run'[r] \in Working /\ Fits(run'[r].job)
            /\ run'[r].step = "fetched" => run'[r].deals = Window(run'[r].job),
         reservation' \in [Accounts -> [by : Runs \cup {NoRun}, lapsed : BOOLEAN]],
         jobs' \in SUBSET Job, \A j \in jobs' : Fits(j), faults' \in 0..MaxFaults
  PROVE  IInv'
<1>1. \A s \in Runs : run'[s] # Idle => Fits(run'[s].job)
  BY DEF IInv, WindowsFit, Others
<1>2. \A s \in Runs : run'[s].step = "fetched" => run'[s].deals = Window(run'[s].job)
  BY IdleStep DEF IInv, WindowsFit, Others
<1> QED
  BY <1>1, <1>2, QuietKeepsIInv

-----------------------------------------------------------------------------
(* The actions.                                                             *)

LEMMA FaultIsBounded ==
  ASSUME TypeOK, Fault
  PROVE  faults' \in 0..MaxFaults
  BY BoundsAreNaturals DEF TypeOK, Fault

(* What a run that is not idle knows.                                       *)
LEMMA RunFits ==
  ASSUME IInv, NEW r \in Runs, run[r] # Idle \/ run[r].step # "idle"
  PROVE  /\ run[r] \in Working /\ run[r] # Idle /\ run[r].job \in Job /\ Fits(run[r].job)
         /\ run[r].step = "fetched" => run[r].deals = Window(run[r].job)
         /\ Mine(r) \in Accounts
  BY RunIsWorking, JobIsTyped DEF IInv, WindowsFit, Mine

LEMMA Unchanged ==
  ASSUME IInv
  PROVE  /\ run \in [Runs -> {Idle} \cup Working]
         /\ reservation \in [Accounts -> [by : Runs \cup {NoRun}, lapsed : BOOLEAN]]
         /\ jobs \in SUBSET Job /\ \A j \in jobs : Fits(j)
         /\ faults \in 0..MaxFaults
         /\ \A r \in Runs : run[r] # Idle => Fits(run[r].job)
         /\ \A r \in Runs : run[r].step = "fetched" => run[r].deals = Window(run[r].job)
  BY DEF IInv, TypeOK, WindowsFit

LEMMA TakeKeepsIInv ==
  ASSUME IInv, NEW r \in Runs, NEW job \in jobs, Take(r, job)
  PROVE  IInv'
<1>1. job \in Job /\ Fits(job) /\ jobs' = jobs \ {job} /\ UNCHANGED <<now, at, ledger, reservation, faults>>
  BY Unchanged DEF Take
<1> DEFINE w == [step |-> "taken", job |-> job, deals |-> {}, ok |-> TRUE, live |-> TRUE]
<1>2. w \in Working /\ w.job = job /\ w.step = "taken"
  BY <1>1 DEF Working
<1>3. run' = [run EXCEPT ![r] = w]
  BY DEF Take
<1>4. run' \in [Runs -> {Idle} \cup Working] /\ Others(r) /\ run'[r] = w
  BY <1>2, <1>3, Unchanged DEF Others
<1>5. jobs' \in SUBSET Job /\ \A j \in jobs' : Fits(j)
  BY <1>1, Unchanged
<1> HIDE DEF w
<1> QED
  BY <1>1, <1>2, <1>4, <1>5, Unchanged, RunStepKeepsIInv

(* The steps that only move the run, its reservation or the faults.         *)
LEMMA ProceedKeepsIInv ==
  ASSUME IInv, NEW r \in Runs, run[r].step # "idle", NEW s, s # "fetched",
         UNCHANGED <<now, at, ledger, jobs>>,
         run' \in [Runs -> {Idle} \cup Working], Others(r), Proceeds(r, s),
         reservation' \in [Accounts -> [by : Runs \cup {NoRun}, lapsed : BOOLEAN]],
         faults' \in 0..MaxFaults
  PROVE  IInv'
<1>1. Fits(run[r].job)
  BY RunFits
<1> QED
  BY <1>1, Unchanged, RunStepKeepsIInv DEF Proceeds

LEMMA AcquireKeepsIInv ==
  ASSUME IInv, NEW r \in Runs, Acquire(r)
  PROVE  IInv'
<1>1. run[r].step # "idle" /\ Goto(r, "reserved") /\ UNCHANGED <<now, at, ledger, jobs, faults>>
  BY DEF Acquire
<1>2. run' \in [Runs -> {Idle} \cup Working] /\ Others(r) /\ Proceeds(r, "reserved")
  BY <1>1, GotoFacts DEF IInv
<1>3. reservation' \in [Accounts -> [by : Runs \cup {NoRun}, lapsed : BOOLEAN]]
  BY Unchanged DEF Acquire
<1> QED
  BY <1>1, <1>2, <1>3, Unchanged, ProceedKeepsIInv

LEMMA ReleaseKeepsIInv ==
  ASSUME IInv, NEW r \in Runs, Release(r)
  PROVE  IInv'
<1>1. run[r].step # "idle" /\ Goto(r, "released") /\ UNCHANGED <<now, at, ledger, jobs, faults>>
  BY DEF Release
<1>2. run' \in [Runs -> {Idle} \cup Working] /\ Others(r) /\ Proceeds(r, "released")
  BY <1>1, GotoFacts DEF IInv
<1>3. reservation' \in [Accounts -> [by : Runs \cup {NoRun}, lapsed : BOOLEAN]]
  BY Unchanged DEF Release
<1> QED
  BY <1>1, <1>2, <1>3, Unchanged, ProceedKeepsIInv

LEMMA RefuseKeepsIInv ==
  ASSUME IInv, NEW r \in Runs, Refuse(r)
  PROVE  IInv'
<1>1. run[r].step # "idle" /\ UNCHANGED <<now, at, ledger, reservation, jobs, faults>>
  BY DEF Refuse
<1>2. run' \in [Runs -> {Idle} \cup Working] /\ Others(r) /\ Proceeds(r, "released")
  BY <1>1, RefuseFacts DEF IInv, Refuse
<1> QED
  BY <1>1, <1>2, Unchanged, ProceedKeepsIInv

LEMMA FailsKeepsIInv ==
  ASSUME IInv, NEW r \in Runs, FetchFails(r) \/ ImportFails(r)
  PROVE  IInv'
<1>1. /\ run[r].step # "idle" /\ Leave(r, FALSE) /\ (faults' = faults \/ Fault)
      /\ UNCHANGED <<now, at, ledger, reservation, jobs>>
  BY DEF FetchFails, ImportFails
<1>2. run' \in [Runs -> {Idle} \cup Working] /\ Others(r) /\ Proceeds(r, "leaving")
  BY <1>1, LeaveFacts DEF IInv
<1>3. faults' \in 0..MaxFaults
  BY <1>1, Unchanged, FaultIsBounded DEF IInv
<1> QED
  BY <1>1, <1>2, <1>3, Unchanged, ProceedKeepsIInv

LEMMA FetchKeepsIInv ==
  ASSUME IInv, NEW r \in Runs, Fetch(r)
  PROVE  IInv'
<1>1. run[r].step # "idle" /\ UNCHANGED <<now, at, ledger, reservation, jobs, faults>>
  BY DEF Fetch
<1>2. /\ run' \in [Runs -> {Idle} \cup Working] /\ Others(r) /\ Proceeds(r, "fetched")
      /\ run'[r].deals = Window(run[r].job)
  BY FetchedFacts DEF IInv
<1>3. /\ run'[r] \in Working /\ Fits(run'[r].job)
      /\ run'[r].deals = Window(run'[r].job)
  BY <1>1, <1>2, RunFits DEF Proceeds
<1> QED
  BY <1>1, <1>2, <1>3, Unchanged, RunStepKeepsIInv

LEMMA StopKeepsIInv ==
  ASSUME IInv, NEW r \in Runs, Settle(r) \/ Die(r)
  PROVE  IInv'
<1>1. /\ run[r] # Idle /\ run' = [run EXCEPT ![r] = Idle] /\ (faults' = faults \/ Fault)
      /\ GiveBack(run[r].job) \/ jobs' = jobs
      /\ UNCHANGED <<now, at, ledger, reservation>>
  BY IdleStep DEF Settle, Die
<1>2. run' \in [Runs -> {Idle} \cup Working] /\ Others(r) /\ run'[r] = Idle
  BY <1>1, StopFacts DEF IInv
<1>3. jobs' \in SUBSET Job /\ \A j \in jobs' : Fits(j)
  BY <1>1, Unchanged, RunFits, GivenBackFits
<1>4. faults' \in 0..MaxFaults
  BY <1>1, Unchanged, FaultIsBounded DEF IInv
<1> QED
  BY <1>1, <1>2, <1>3, <1>4, Unchanged, RunStepKeepsIInv

LEMMA TimeOutKeepsIInv ==
  ASSUME IInv, NEW r \in Runs, TimeOut(r)
  PROVE  IInv'
<1>1. /\ run[r] # Idle /\ run' = [run EXCEPT ![r].live = FALSE] /\ Fault
      /\ GiveBack(run[r].job) /\ UNCHANGED <<now, at, ledger, reservation>>
  BY DEF TimeOut
<1>2. /\ run' \in [Runs -> {Idle} \cup Working] /\ Others(r) /\ Proceeds(r, run[r].step)
      /\ run'[r].deals = run[r].deals
  BY <1>1, DisownFacts DEF IInv
<1>3. jobs' \in SUBSET Job /\ \A j \in jobs' : Fits(j)
  BY <1>1, Unchanged, RunFits, GivenBackFits
<1>4. faults' \in 0..MaxFaults
  BY <1>1, FaultIsBounded DEF IInv
<1>5. /\ run'[r] \in Working /\ Fits(run'[r].job)
      /\ run'[r].step = "fetched" => run'[r].deals = Window(run'[r].job)
  BY <1>1, <1>2, RunFits DEF Proceeds
<1> QED
  BY <1>1, <1>2, <1>3, <1>4, <1>5, Unchanged, RunStepKeepsIInv

LEMMA LeaseExpiresKeepsIInv ==
  ASSUME IInv, NEW a \in Accounts, LeaseExpires(a)
  PROVE  IInv'
<1>1. UNCHANGED <<now, at, ledger, jobs, run, faults>>
  BY DEF LeaseExpires
<1>2. reservation' \in [Accounts -> [by : Runs \cup {NoRun}, lapsed : BOOLEAN]]
  BY Unchanged DEF LeaseExpires
<1> QED
  BY <1>1, <1>2, Unchanged, QuietKeepsIInv

(* A new window begins at the cursor, or before the first instant.          *)
LEMMA EnqueueKeepsIInv ==
  ASSUME IInv, NEW a \in Accounts, Enqueue(a)
  PROVE  IInv'
<1>1. UNCHANGED <<now, at, ledger, reservation, run, faults>>
  BY DEF Enqueue
<1> DEFINE j == [account |-> a, from |-> WindowStart(a), to |-> now, retries |-> JobAttempts - 1]
<1>2. jobs' = jobs \cup {j}
  BY DEF Enqueue
<1>3. /\ now \in Nat /\ now =< MaxTime /\ account[a].cursor \in Instant
      /\ at \in [Deals -> Instant] /\ Covered(a, account[a].cursor)
  BY DEF IInv, TypeOK, ClockFits, WindowsFit
<1>4. WindowStart(a) \in Int
  BY <1>3, LookbackReachesBack DEF WindowStart, Instant, Never
<1>5. j \in Job /\ j.account = a /\ j.from = WindowStart(a) /\ j.to = now
  BY <1>3, <1>4, JobAttemptsArePositive DEF Job
<1>6. Covered(a, WindowStart(a))
  <2>1. CASE account[a].cursor = Never
    <3>1. WindowStart(a) =< 0
      BY <1>3, <2>1, LookbackReachesBack, BoundsAreNaturals DEF WindowStart
    <3>2. \A d \in Deals : at[d] = Never \/ ~(at[d] < WindowStart(a))
      BY <1>3, <1>4, <3>1 DEF Instant, Never
    <3> QED
      BY <3>2 DEF Covered
  <2>2. CASE account[a].cursor # Never
    BY <1>3, <2>2 DEF WindowStart
  <2> QED
    BY <2>1, <2>2
<1>7. Fits(j)
  <2>1. WindowStart(a) =< now
    BY <1>3, <1>4 DEF Enqueue
  <2> QED
    BY <1>3, <1>5, <1>6, <2>1 DEF Fits
<1> HIDE DEF j
<1>8. jobs' \in SUBSET Job /\ \A i \in jobs' : Fits(i)
  BY <1>2, <1>5, <1>7, Unchanged
<1> QED
  BY <1>1, <1>8, Unchanged, QuietKeepsIInv

LEMMA ClockKeepsIInv ==
  ASSUME IInv, Clock
  PROVE  IInv'
<1>1. /\ now < MaxTime /\ now' = now + 1 /\ now \in Nat
      /\ UNCHANGED <<at, account, fills, assessed, trade, reservation, jobs, run, faults>>
  BY DEF Clock, ledger, IInv, TypeOK
<1>2. TypeOK'
  BY <1>1 DEF IInv, TypeOK
<1>3. at \in [Deals -> Instant] /\ \A a \in Accounts : account[a].cursor \in Instant
  BY DEF IInv, TypeOK
<1>4. ClockFits'
  BY <1>1, <1>3, BoundsAreNaturals DEF IInv, ClockFits, Instant, Never
<1>5. ClosedForGood'
  BY <1>1 DEF IInv, ClosedForGood, PrefixOf, Made, Closed, Entries, Exits
<1>6. WindowsFit'
  <2>1. ASSUME NEW j \in Job, Fits(j) PROVE Fits(j)'
    <3>1. j.to =< now' /\ j.from =< now'
      BY <1>1, <2>1, JobIsTyped DEF Fits
    <3> QED
      BY <1>1, <2>1, <3>1 DEF Fits, Covered
  <2>2. \A j \in jobs : Fits(j)'
    BY <2>1 DEF IInv, TypeOK, WindowsFit
  <2>3. \A r \in Runs : run[r] # Idle => Fits(run[r].job)'
    <3> SUFFICES ASSUME NEW r \in Runs, run[r] # Idle PROVE Fits(run[r].job)'
      OBVIOUS
    <3>1. PICK j \in Job : j = run[r].job
      BY RunFits
    <3>2. Fits(j)'
      BY <2>1, <3>1, RunFits
    <3> QED
      BY <1>1, <3>1, <3>2 DEF Fits, Covered
  <2> QED
    BY <1>1, <2>2, <2>3 DEF IInv, WindowsFit, Window, InWindow, Covered, Fits
<1>7. LedgerFits'
  <2>1. \A d \in fills : at[d] < now'
    BY <1>1, <1>3 DEF IInv, TypeOK, LedgerFits, Instant, Never
  <2> QED
    BY <1>1, <2>1 DEF IInv, LedgerFits, PrefixOf, RowsOf, Made
<1>8. TradesAreWhole'
  BY <1>1 DEF IInv, TradesAreWhole, Made, Entries, Exits
<1>9. AssessmentIsCurrent'
  BY <1>1 DEF IInv, AssessmentIsCurrent, Closed, Directed, Entries, Exits
<1> QED
  BY <1>2, <1>4, <1>5, <1>6, <1>7, <1>8, <1>9 DEF IInv

(* A set that counts as closed has entries to count.                        *)
LEMMA NoSides ==
  ASSUME NEW S, S \subseteq Deals
  PROVE  /\ Cardinality(Entries(S)) = 0 => Entries(S) = {}
         /\ Cardinality(Exits(S)) = 0 => Exits(S) = {}
         /\ S # {} => Entries(S) # {} \/ Exits(S) # {}
<1>1. (S # {} => Entries(S) # {} \/ Exits(S) # {})
  BY DealsAreDeals DEF Entries, Exits
<1> QED
  BY <1>1, Sides, FS_EmptySet

LEMMA MakeDealKeepsIInv ==
  ASSUME IInv, NEW d \in Deals, MakeDeal(d)
  PROVE  IInv'
<1> DEFINE p == d.position
<1>1. /\ at[d] = Never /\ now < MaxTime /\ at' = [at EXCEPT ![d] = now]
      /\ UNCHANGED <<now, account, fills, assessed, trade, reservation, jobs, run, faults>>
  BY DEF MakeDeal, ledger
<1>2. /\ at \in [Deals -> Instant] /\ now \in Nat /\ fills \subseteq Deals /\ p \in Positions
      /\ \A e \in Deals : at[e] =< now
  BY DealsHaveHolders DEF IInv, TypeOK, ClockFits
<1>3. /\ at' \in [Deals -> Instant] /\ at'[d] = now
      /\ \A e \in Deals : e # d => at'[e] = at[e]
  BY <1>1, <1>2 DEF Instant
<1>4. now # Never
  BY <1>2 DEF Never
<1>5. /\ \A q \in Positions : q # p => Made(q)' = Made(q)
      /\ Made(p)' = Made(p) \cup {d} /\ d \notin Made(p) /\ Made(p) \subseteq Deals
  BY <1>1, <1>3, <1>4 DEF Made
<1>6. \/ Cardinality(Exits(Made(p))) < Cardinality(Entries(Made(p)))
      \/ d.entry = "in" /\ Cardinality(Entries(Made(p))) = 0
  BY DEF MakeDeal
<1>7. /\ Cardinality(Exits(Made(p))) \in Nat /\ Cardinality(Entries(Made(p))) \in Nat
      /\ Cardinality(Exits(Made(p))) =< Cardinality(Entries(Made(p)))
  BY <1>2, <1>5, Sides DEF IInv, ClosedForGood
<1>8. ~Closed(Made(p))
  BY <1>5, <1>6, <1>7, NoSides DEF Closed
<1>9. TypeOK'
  BY <1>1, <1>3 DEF IInv, TypeOK
<1>10. ClockFits'
  <2>1. \A e \in Deals : at'[e] =< now
    BY <1>2, <1>3
  <2> QED
    BY <1>1, <2>1 DEF IInv, ClockFits
<1>11. ClosedForGood'
  <2>1. ASSUME NEW q \in Positions, q # p, NEW S \in SUBSET Deals, PrefixOf(S, q)', Closed(S)
        PROVE  S = Made(q)'
    <3>1. Made(q)' = Made(q) /\ \A e \in Made(q) : e # d /\ at'[e] = at[e] /\ e \in Deals
      BY <1>3, <1>5, <2>1 DEF Made
    <3>2. PrefixOf(S, q)
      BY <2>1, <3>1 DEF PrefixOf
    <3> QED
      BY <2>1, <3>1, <3>2 DEF IInv, ClosedForGood
  <2>2. ASSUME NEW S \in SUBSET Deals, PrefixOf(S, p)', Closed(S)
        PROVE  S = Made(p)'
    <3>1. CASE d \in S
      <4>1. \A e \in Made(p)' : at'[e] =< at'[d]
        BY <1>2, <1>3, <1>5
      <4> QED
        BY <2>2, <3>1, <4>1 DEF PrefixOf
    <3>2. CASE d \notin S
      <4>1. PrefixOf(S, p)
        BY <1>3, <1>5, <2>2, <3>2 DEF PrefixOf
      <4> QED
        BY <1>2, <1>8, <2>2, <4>1 DEF IInv, ClosedForGood
    <3> QED
      BY <3>1, <3>2
  <2>3. ASSUME NEW q \in Positions, q # p
        PROVE  (Cardinality(Exits(Made(q))) =< Cardinality(Entries(Made(q))))'
    BY <1>5, <2>3 DEF IInv, ClosedForGood, Entries, Exits
  <2>4. Cardinality(Exits(Made(p) \cup {d})) =< Cardinality(Entries(Made(p) \cup {d}))
    <3>1. CASE d.entry = "in"
      BY <1>5, <1>7, <3>1, DealAdded
    <3>2. CASE d.entry = "out"
      BY <1>5, <1>6, <1>7, <3>2, DealAdded
    <3> QED
      BY <3>1, <3>2, DealsAreDeals
  <2>5. (Cardinality(Exits(Made(p))) =< Cardinality(Entries(Made(p))))'
    BY <1>5, <2>4 DEF Entries, Exits
  <2> QED
    BY <2>1, <2>2, <2>3, <2>5 DEF ClosedForGood, Closed, Entries, Exits
<1>12. WindowsFit'
  <2>1. ASSUME NEW a, NEW t \in Int, t =< now, Covered(a, t) PROVE Covered(a, t)'
    BY <1>1, <1>2, <1>3, <2>1 DEF Covered
  <2>2. ASSUME NEW j \in Job, Fits(j)
        PROVE  Fits(j)' /\ Window(j)' = Window(j)
    <3>1. j.from \in Int /\ j.to \in Nat /\ j.to =< now /\ j.from =< now
      BY <2>2, JobIsTyped DEF Fits
    <3>2. Fits(j)'
      BY <1>1, <2>1, <2>2, <3>1 DEF Fits
    <3>3. ~InWindow(d, j)' /\ ~(at[d] # Never)
      BY <1>1, <1>2, <1>3, <3>1 DEF InWindow
    <3>4. Window(j)' = Window(j)
      BY <1>3, <3>3 DEF Window, InWindow
    <3> QED
      BY <3>2, <3>4
  <2>3. \A j \in jobs' : Fits(j)'
    BY <1>1, <2>2 DEF IInv, TypeOK, WindowsFit
  <2>4. ASSUME NEW r \in Runs, run[r] # Idle \/ run[r].step # "idle"
        PROVE  /\ Fits(run[r].job)'
               /\ run[r].step = "fetched" => run[r].deals = Window(run[r].job)'
    <3>1. PICK j \in Job : j = run[r].job
      BY <2>4, RunFits
    <3>2. Fits(j)' /\ Window(j)' = Window(j)
      BY <2>2, <2>4, <3>1, RunFits
    <3>3. Fits(run[r].job)' = Fits(j)' /\ Window(run[r].job)' = Window(j)'
      BY <1>1, <3>1 DEF Fits, Window, InWindow, Covered
    <3> QED
      BY <2>4, <3>1, <3>2, <3>3, RunFits
  <2>5. ASSUME NEW a \in Accounts PROVE Covered(a, account[a].cursor)'
    <3>1. PICK t \in Int : t = account[a].cursor
      BY DEF IInv, TypeOK, Instant, Never
    <3>2. t =< now /\ Covered(a, t)
      BY <3>1 DEF IInv, ClockFits, WindowsFit
    <3>3. Covered(a, t)'
      BY <2>1, <3>2
    <3> QED
      BY <1>1, <3>1, <3>3 DEF Covered
  <2>6. \A r \in Runs : run'[r] # Idle => Fits(run[r].job)'
    BY <1>1, <2>4
  <2>7. \A r \in Runs : run'[r].step = "fetched" => run'[r].deals = Window(run[r].job)'
    BY <1>1, <2>4
  <2> QED
    BY <2>3, <2>5, <2>6, <2>7 DEF WindowsFit
<1>13. LedgerFits'
  <2>1. \A f \in fills : f # d /\ at'[f] = at[f] /\ at[f] # Never /\ at[f] < now /\ f \in Deals
    BY <1>1, <1>2, <1>3 DEF IInv, LedgerFits
  <2>2. ASSUME NEW q \in Positions PROVE PrefixOf(RowsOf(q), q)'
    <3>1. RowsOf(q)' = RowsOf(q) /\ RowsOf(q) \subseteq fills /\ PrefixOf(RowsOf(q), q)
      BY <1>1 DEF RowsOf, IInv, LedgerFits
    <3>2. RowsOf(q) \subseteq Made(q)'
      BY <2>1, <3>1 DEF RowsOf, Made
    <3>3. ASSUME NEW f \in RowsOf(q), NEW e \in Made(q)', at'[e] =< at'[f]
          PROVE  e \in RowsOf(q)
      <4>1. e # d
        BY <1>2, <1>3, <2>1, <3>1, <3>3 DEF Instant, Never
      <4>2. e \in Made(q) /\ at[e] =< at[f]
        BY <1>3, <2>1, <3>1, <3>3, <4>1 DEF Made
      <4> QED
        BY <3>1, <3>3, <4>2 DEF PrefixOf
    <3> QED
      BY <3>1, <3>2, <3>3 DEF PrefixOf
  <2> QED
    BY <1>1, <2>1, <2>2 DEF LedgerFits
<1>14. TradesAreWhole'
  <2>1. trade[p] = {}
    <3> SUFFICES ASSUME trade[p] # {} PROVE FALSE
      OBVIOUS
    <3>1. /\ Made(p) # {}
          /\ Cardinality(Exits(Made(p))) = Cardinality(Entries(Made(p)))
      BY <1>2 DEF IInv, TradesAreWhole
    <3>2. Cardinality(Exits(Made(p))) = 0 /\ Cardinality(Entries(Made(p))) = 0
      BY <1>6, <1>7, <3>1
    <3> QED
      BY <1>5, <3>1, <3>2, NoSides
  <2>2. ASSUME NEW q \in Positions, trade'[q] # {}
        PROVE  (trade[q] = Made(q) /\ Cardinality(Exits(Made(q))) = Cardinality(Entries(Made(q))))'
    <3>1. q # p /\ Made(q)' = Made(q)
      BY <1>1, <1>5, <2>1, <2>2
    <3> QED
      BY <1>1, <2>2, <3>1 DEF IInv, TradesAreWhole, Entries, Exits
  <2> QED
    BY <2>2 DEF TradesAreWhole
<1>15. AssessmentIsCurrent'
  BY <1>1 DEF IInv, AssessmentIsCurrent, Closed, Directed, Entries, Exits
<1> QED
  BY <1>9, <1>10, <1>11, <1>12, <1>13, <1>14, <1>15 DEF IInv

(* The import of a window: what the reconciliation sees of a position is    *)
(* all its deals up to the end of the window.                               *)
LEMMA ImportKeepsIInv ==
  ASSUME IInv, NEW r \in Runs, Import(r)
  PROVE  IInv'
<1>1. /\ run[r].step = "fetched" /\ run[r].step # "idle" /\ Leave(r, TRUE)
      /\ UNCHANGED <<now, at, reservation, jobs, faults>>
  BY DEF Import
<1>2. PICK job \in Job : job = run[r].job
  BY <1>1, RunFits
<1>3. PICK a \in Accounts : a = job.account
  BY JobIsTyped
<1>4. PICK batch \in SUBSET Deals : batch = run[r].deals /\ batch = Window(job)
  BY <1>1, <1>2, RunFits, RunIsWorking DEF IInv
<1>5. /\ a = Mine(r) /\ Fits(job)
      /\ job.from \in Int /\ job.to \in Nat /\ job.to =< now /\ job.from =< now
  BY <1>1, <1>2, <1>3, RunFits, JobIsTyped DEF Mine, Fits
<1>6. /\ fills' = fills \cup batch
      /\ assessed' = [p \in Positions |->
           CASE p \in Emitted(a, batch)  -> "aggregated"
             [] p \in Unusable(a, batch) -> "skipped"
             [] p \in Reopened(batch) \ (Emitted(a, batch) \cup Unusable(a, batch)) -> "received"
             [] OTHER -> assessed[p]]
      /\ trade' = [p \in Positions |->
           IF p \in Emitted(a, batch) /\ trade[p] = {} THEN FillsForPosition(p, batch)
                                                       ELSE trade[p]]
      /\ account' = [account EXCEPT ![a] = [cursor |-> job.to, synced |-> now]]
  BY <1>2, <1>4, <1>5 DEF Import
<1>7. /\ now \in Nat /\ at \in [Deals -> Instant] /\ fills \subseteq Deals
      /\ assessed \in [Positions -> {"absent", "received", "aggregated", "skipped"}]
      /\ trade \in [Positions -> SUBSET Deals]
      /\ account \in [Accounts -> [cursor : Instant, synced : Instant]]
  BY DEF IInv, TypeOK
<1>8. \A d \in batch : /\ d \in Deals /\ Holder[d.position] = a /\ at[d] # Never
                       /\ job.from =< at[d] /\ at[d] < job.to /\ at[d] < now
  BY <1>3, <1>4, <1>5, <1>7 DEF Window, InWindow, Instant, Never
<1> DEFINE F(p) == FillsForPosition(p, batch)
<1>9. ASSUME NEW p \in Positions
      PROVE  PrefixOf(F(p), p) /\ RowsOf(p) \subseteq F(p) /\ RowsOf(p)' = F(p) /\ F(p) \subseteq Deals
  <2>1. RowsOf(p) \subseteq F(p) /\ RowsOf(p)' = F(p) /\ F(p) \subseteq Deals
    BY <1>6, <1>7 DEF FillsForPosition, RowsOf
  <2>2. F(p) \subseteq Made(p)
    BY <1>7, <1>8 DEF FillsForPosition, Made, IInv, LedgerFits
  <2>3. ASSUME NEW f \in F(p), NEW e \in Made(p), at[e] =< at[f] PROVE e \in F(p)
    <3>1. CASE f \in fills
      <4>1. f \in RowsOf(p) /\ PrefixOf(RowsOf(p), p)
        BY <3>1 DEF FillsForPosition, RowsOf, IInv, LedgerFits
      <4> QED
        BY <2>1, <2>3, <4>1 DEF PrefixOf
    <3>2. CASE f \in batch
      <4>1. e \in Deals /\ e.position = p /\ f.position = p /\ at[e] # Never
        BY DEF Made, FillsForPosition
      <4>2. Holder[e.position] = job.account
        BY <1>3, <1>8, <3>2, <4>1
      <4>3. at[e] \in Int /\ at[f] \in Int /\ at[e] < job.to
        BY <1>5, <1>7, <1>8, <2>3, <3>2, <4>1 DEF Instant, Never
      <4>4. CASE at[e] < job.from
        <5>1. e \in fills
          BY <1>5, <4>1, <4>2, <4>4 DEF Fits, Covered
        <5> QED
          BY <4>1, <5>1 DEF FillsForPosition
      <4>5. CASE ~(at[e] < job.from)
        <5>1. e \in batch
          BY <1>4, <1>5, <4>1, <4>2, <4>3, <4>5 DEF Window, InWindow
        <5> QED
          BY <4>1, <5>1 DEF FillsForPosition
      <4> QED
        BY <4>4, <4>5
    <3> QED
      BY <3>1, <3>2 DEF FillsForPosition
  <2> QED
    BY <2>1, <2>2, <2>3 DEF PrefixOf
<1>10. ASSUME NEW p \in Positions
       PROVE  /\ Closed(F(p)) => F(p) = Made(p)
              /\ Closed(RowsOf(p)) => RowsOf(p) = F(p)
  <2>1. Closed(F(p)) => F(p) = Made(p)
    BY <1>9 DEF IInv, ClosedForGood
  <2>2. RowsOf(p) \in SUBSET Deals /\ PrefixOf(RowsOf(p), p)
    BY <1>7 DEF RowsOf, IInv, LedgerFits
  <2>3. Closed(RowsOf(p)) => RowsOf(p) = Made(p)
    BY <2>2 DEF IInv, ClosedForGood
  <2>4. F(p) \subseteq Made(p)
    BY <1>9 DEF PrefixOf
  <2> QED
    BY <1>9, <2>1, <2>3, <2>4
<1> HIDE DEF F
<1>11. ASSUME NEW p \in Positions, p \notin Pending(a, batch)
       PROVE  F(p) = RowsOf(p) /\ p \notin Reopened(batch)
  <2>1. p \notin Reopened(batch)
    <3> SUFFICES ASSUME p \in Reopened(batch) PROVE FALSE
      OBVIOUS
    <3>1. PICK d \in batch \ fills : d.position = p
      BY DEF Reopened
    <3> QED
      BY <1>8, <1>11, <3>1 DEF Pending
  <2>2. \A d \in batch : d.position = p => d \in fills
    BY <2>1 DEF Reopened
  <2> QED
    BY <2>1, <2>2 DEF F, FillsForPosition, RowsOf
<1>12. ASSUME NEW p \in Positions
       PROVE  /\ p \in Emitted(a, batch) <=> p \in Pending(a, batch) /\ Closed(F(p)) /\ Directed(F(p))
              /\ p \in Unusable(a, batch) <=> p \in Pending(a, batch) /\ Closed(F(p)) /\ ~Directed(F(p))
  BY DEF Emitted, Unusable, F
<1>13. ASSUME NEW p \in Positions
       PROVE  /\ p \in Emitted(a, batch) => assessed'[p] = "aggregated"
              /\ p \in Unusable(a, batch) => assessed'[p] = "skipped"
              /\ p \notin Emitted(a, batch) \cup Unusable(a, batch) =>
                   /\ p \in Reopened(batch) => assessed'[p] = "received"
                   /\ p \notin Reopened(batch) => assessed'[p] = assessed[p]
              /\ p \in Emitted(a, batch) /\ trade[p] = {} => trade'[p] = F(p)
              /\ p \notin Emitted(a, batch) \/ trade[p] # {} => trade'[p] = trade[p]
  BY <1>6, <1>12 DEF F
<1>14. /\ assessed' \in [Positions -> {"absent", "received", "aggregated", "skipped"}]
       /\ trade' \in [Positions -> SUBSET Deals]
  <2>1. \A p \in Positions : assessed'[p] \in {"absent", "received", "aggregated", "skipped"}
    BY <1>7, <1>13
  <2>2. \A p \in Positions : trade'[p] \in SUBSET Deals
    BY <1>7, <1>9, <1>13
  <2> QED
    BY <1>6, <2>1, <2>2
<1>15. /\ account' \in [Accounts -> [cursor : Instant, synced : Instant]]
       /\ account'[a].cursor = job.to
       /\ \A b \in Accounts : b # a => account'[b] = account[b]
  <2>1. /\ [cursor |-> job.to, synced |-> now] \in [cursor : Instant, synced : Instant]
        /\ [cursor |-> job.to, synced |-> now].cursor = job.to
    BY <1>5, <1>7 DEF Instant
  <2> QED
    BY <1>6, <1>7, <2>1
<1>16. /\ run' \in [Runs -> {Idle} \cup Working] /\ Others(r) /\ Proceeds(r, "leaving")
  BY <1>1, LeaveFacts DEF IInv
<1>17. TypeOK'
  BY <1>1, <1>6, <1>7, <1>14, <1>15, <1>16 DEF IInv, TypeOK
<1>18. ClockFits'
  BY <1>1, <1>5, <1>15 DEF IInv, ClockFits
<1>19. ClosedForGood'
  BY <1>1 DEF IInv, ClosedForGood, PrefixOf, Made, Closed, Entries, Exits
<1>20. WindowsFit'
  <2>1. ASSUME NEW b, NEW t, Covered(b, t) PROVE Covered(b, t)'
    BY <1>1, <1>6, <2>1 DEF Covered
  <2>2. ASSUME NEW j, Fits(j) PROVE Fits(j)' /\ Window(j)' = Window(j)
    BY <1>1, <2>1, <2>2 DEF Fits, Window, InWindow
  <2>3. \A j \in jobs' : Fits(j)'
    BY <1>1, <2>2 DEF IInv, WindowsFit
  <2>4. ASSUME NEW s \in Runs, run'[s] # Idle
        PROVE  (Fits(run[s].job))'
    <3>1. PICK j \in Job : j = run'[s].job /\ Fits(j)
      <4>1. CASE s = r
        BY <1>2, <1>5, <1>16, <4>1 DEF Proceeds
      <4>2. CASE s # r
        BY <1>16, <2>4, <4>2, RunFits DEF Others
      <4> QED
        BY <4>1, <4>2
    <3>2. Fits(j)'
      BY <2>2, <3>1
    <3> QED
      BY <3>1, <3>2 DEF Fits, Covered
  <2>5. ASSUME NEW s \in Runs, run'[s].step = "fetched"
        PROVE  (run[s].deals = Window(run[s].job))'
    <3>1. s # r /\ run'[s] = run[s]
      BY <1>16, <2>5 DEF Proceeds, Others
    <3>2. run[s].deals = Window(run[s].job)
      BY <2>5, <3>1 DEF IInv, WindowsFit
    <3> QED
      BY <1>1, <3>1, <3>2 DEF Window, InWindow
  <2>6. Covered(a, job.to)'
    <3>1. ASSUME NEW d \in Deals, Holder[d.position] = a, at[d] # Never, at[d] < job.to
          PROVE  d \in fills'
      <4>1. at[d] \in Int
        BY <1>7 DEF Instant, Never
      <4>2. CASE at[d] < job.from
        BY <1>3, <1>5, <1>6, <3>1, <4>2 DEF Fits, Covered
      <4>3. CASE ~(at[d] < job.from)
        <5>1. job.from =< at[d]
          BY <1>5, <4>1, <4>3
        <5>2. d \in batch
          BY <1>3, <1>4, <3>1, <5>1 DEF Window, InWindow
        <5> QED
          BY <1>6, <5>2
      <4> QED
        BY <4>2, <4>3
    <3> QED
      BY <1>1, <3>1 DEF Covered
  <2>7. ASSUME NEW b \in Accounts PROVE Covered(b, account[b].cursor)'
    <3>1. CASE b = a
      BY <1>15, <2>6, <3>1 DEF Covered
    <3>2. CASE b # a
      <4>1. account'[b] = account[b] /\ Covered(b, account[b].cursor)
        BY <1>15, <3>2 DEF IInv, WindowsFit
      <4> QED
        BY <1>1, <1>6, <4>1 DEF Covered
    <3> QED
      BY <3>1, <3>2
  <2> QED
    BY <2>3, <2>4, <2>5, <2>7 DEF WindowsFit
<1>21. LedgerFits'
  <2>1. \A d \in fills' : at'[d] # Never /\ at'[d] < now'
    BY <1>1, <1>6, <1>8 DEF IInv, LedgerFits
  <2>2. \A p \in Positions : PrefixOf(RowsOf(p), p)'
    BY <1>1, <1>9 DEF PrefixOf, Made, F
  <2> QED
    BY <2>1, <2>2 DEF LedgerFits
<1>22. TradesAreWhole'
  <2> SUFFICES ASSUME NEW p \in Positions, trade'[p] # {}
               PROVE  /\ trade'[p] = Made(p)
                      /\ Cardinality(Exits(Made(p))) = Cardinality(Entries(Made(p)))
    BY <1>1 DEF TradesAreWhole, Made, Entries, Exits
  <2>1. CASE trade'[p] = trade[p]
    BY <2>1 DEF IInv, TradesAreWhole
  <2>2. CASE trade'[p] # trade[p]
    <3>1. trade'[p] = F(p) /\ Closed(F(p))
      BY <1>12, <1>13, <2>2
    <3>2. F(p) = Made(p) /\ Made(p) \subseteq Deals
      BY <1>10, <3>1 DEF Made
    <3>3. Cardinality(Exits(Made(p))) >= Cardinality(Entries(Made(p)))
      BY <3>1, <3>2 DEF Closed
    <3>4. Cardinality(Exits(Made(p))) =< Cardinality(Entries(Made(p)))
      BY DEF IInv, ClosedForGood
    <3>5. Cardinality(Exits(Made(p))) \in Nat /\ Cardinality(Entries(Made(p))) \in Nat
      BY <3>2, Sides
    <3> QED
      BY <3>1, <3>2, <3>3, <3>4, <3>5
  <2> QED
    BY <2>1, <2>2
<1>23. AssessmentIsCurrent'
  <2>1. ASSUME NEW p \in Positions
        PROVE  /\ assessed'[p] = "aggregated" <=> Closed(F(p)) /\ Directed(F(p))
               /\ assessed'[p] = "skipped" <=> Closed(F(p)) /\ ~Directed(F(p))
               /\ assessed'[p] = "aggregated" <=> trade'[p] # {}
    <3>1. /\ assessed[p] = "aggregated" <=> Closed(RowsOf(p)) /\ Directed(RowsOf(p))
          /\ assessed[p] = "skipped" <=> Closed(RowsOf(p)) /\ ~Directed(RowsOf(p))
          /\ assessed[p] = "aggregated" <=> trade[p] # {}
      BY DEF IInv, AssessmentIsCurrent, RowsOf
    <3>2. CASE p \notin Pending(a, batch)
      <4>1. F(p) = RowsOf(p) /\ assessed'[p] = assessed[p] /\ trade'[p] = trade[p]
        BY <1>11, <1>12, <1>13, <3>2
      <4> QED
        BY <3>1, <4>1
    <3>3. CASE p \in Emitted(a, batch)
      <4>1. Closed(F(p)) /\ Directed(F(p)) /\ F(p) # {}
        BY <1>12, <3>3 DEF Closed, Entries
      <4>2. assessed'[p] = "aggregated" /\ trade'[p] # {}
        BY <1>13, <3>3, <4>1
      <4> QED
        BY <4>1, <4>2
    <3>4. CASE p \in Unusable(a, batch)
      <4>1. Closed(F(p)) /\ ~Directed(F(p)) /\ p \notin Emitted(a, batch)
        BY <1>12, <3>4
      <4>2. assessed'[p] = "skipped" /\ trade'[p] = trade[p]
        BY <1>13, <3>4, <4>1
      <4>3. trade[p] = {}
        BY <1>10, <3>1, <4>1
      <4> QED
        BY <4>1, <4>2, <4>3
    <3>5. CASE p \in Pending(a, batch) /\ p \notin Emitted(a, batch) \cup Unusable(a, batch)
      <4>1. ~Closed(F(p))
        BY <1>12, <3>5
      <4>2. ~Closed(RowsOf(p)) /\ trade[p] = {} /\ trade'[p] = trade[p]
        BY <1>10, <1>13, <3>1, <3>5, <4>1
      <4>3. assessed'[p] \in {"absent", "received"}
        BY <1>13, <3>5 DEF Pending
      <4> QED
        BY <4>1, <4>2, <4>3
    <3> QED
      BY <3>2, <3>3, <3>4, <3>5
  <2>2. \A p \in Positions : {d \in fills' : d.position = p} = F(p)
    BY <1>9 DEF RowsOf
  <2> QED
    BY <2>1, <2>2 DEF AssessmentIsCurrent, Closed, Directed, Entries, Exits
<1> QED
  BY <1>17, <1>18, <1>19, <1>20, <1>21, <1>22, <1>23 DEF IInv

-----------------------------------------------------------------------------
(* The theorems.                                                            *)

LEMMA InitIsFit == Init => IInv
<1> SUFFICES ASSUME Init PROVE IInv
  OBVIOUS
<1>1. TypeOK
  <2>1. [cursor |-> Never, synced |-> Never] \in [cursor : Instant, synced : Instant]
    BY DEF Instant
  <2>2. [by |-> NoRun, lapsed |-> FALSE] \in [by : Runs \cup {NoRun}, lapsed : BOOLEAN]
    OBVIOUS
  <2>3. 0 \in 0..MaxFaults
    BY BoundsAreNaturals
  <2> QED
    BY <2>1, <2>2, <2>3 DEF Init, TypeOK, Instant
<1>2. \A d \in Deals : at[d] = Never
  BY DEF Init
<1>3. \A p \in Positions : Made(p) = {}
  BY <1>2 DEF Made
<1>4. \A p \in Positions : Entries(Made(p)) = {} /\ Exits(Made(p)) = {}
  BY <1>3 DEF Entries, Exits
<1>5. ClockFits
  BY BoundsAreNaturals DEF Init, ClockFits, Never
<1>6. ClosedForGood
  <2>1. \A p \in Positions : Cardinality(Exits(Made(p))) =< Cardinality(Entries(Made(p)))
    BY <1>4, FS_EmptySet
  <2>2. ASSUME NEW p \in Positions, NEW S \in SUBSET Deals, PrefixOf(S, p) PROVE S = Made(p)
    BY <1>3, <2>2 DEF PrefixOf
  <2> QED
    BY <2>1, <2>2 DEF ClosedForGood
<1>7. WindowsFit
  <2>1. \A a \in Accounts : Covered(a, account[a].cursor)
    BY <1>2 DEF Covered
  <2> QED
    BY <2>1, IdleStep DEF Init, WindowsFit
<1>8. LedgerFits
  BY DEF Init, LedgerFits, PrefixOf, RowsOf
<1>9. TradesAreWhole /\ AssessmentIsCurrent
  BY DEF Init, TradesAreWhole, AssessmentIsCurrent, Closed, Entries
<1> QED
  BY <1>1, <1>5, <1>6, <1>7, <1>8, <1>9 DEF IInv

LEMMA StepKeepsIInv == IInv /\ [Next]_vars => IInv'
<1> SUFFICES ASSUME IInv, [Next]_vars PROVE IInv'
  OBVIOUS
<1>1. ASSUME Clock PROVE IInv'
  BY <1>1, ClockKeepsIInv
<1>2. ASSUME NEW d \in Deals, MakeDeal(d) PROVE IInv'
  BY <1>2, MakeDealKeepsIInv
<1>3. ASSUME NEW a \in Accounts, SyncTick(a) \/ RequestSync(a) \/ LeaseExpires(a) \/ Serve(a)
      PROVE  IInv'
  BY <1>3, EnqueueKeepsIInv, LeaseExpiresKeepsIInv, TakeKeepsIInv DEF SyncTick, RequestSync, Serve
<1>4. ASSUME NEW r \in Runs, Handle(r) PROVE IInv'
  BY <1>4, AcquireKeepsIInv, RefuseKeepsIInv, FetchKeepsIInv, FailsKeepsIInv, ImportKeepsIInv,
     ReleaseKeepsIInv, StopKeepsIInv DEF Handle
<1>5. ASSUME NEW r \in Runs, TimeOut(r) \/ Die(r) PROVE IInv'
  BY <1>5, TimeOutKeepsIInv, StopKeepsIInv
<1>6. CASE UNCHANGED vars
  BY <1>6, Unchanged, QuietKeepsIInv DEF vars, ledger
<1> QED
  BY <1>1, <1>2, <1>3, <1>4, <1>5, <1>6 DEF Next

(* The inductive invariant: windows begin where the ledger is complete, the *)
(* rows of a position are its deals up to some instant, and a position that *)
(* was once closed at the provider stays as it is.                          *)
THEOREM SyncInvariant == Spec => []IInv
  BY InitIsFit, StepKeepsIInv, PTL DEF Spec

(* Every variable keeps its type (trading_accounts, sync_fills,             *)
(* sync_position_state, sync_reservations, the sync jobs and their runs).   *)
THEOREM TypeCorrect == Spec => []TypeOK
<1>1. IInv => TypeOK
  BY DEF IInv
<1> QED
  BY <1>1, SyncInvariant, PTL

(* The cursor never runs ahead of committed work, whatever older jobs or    *)
(* runs without a lease import (importBatch).                               *)
THEOREM CursorCovers == Spec => []CursorCoversHistory
<1>1. IInv => CursorCoversHistory
  BY DealsHaveHolders DEF IInv, WindowsFit, Covered, CursorCoversHistory
<1> QED
  BY <1>1, SyncInvariant, PTL

(* A trade sums up all the deals of its position, in whatever batches they  *)
(* arrived (positionReconciler, metaApiPositionAssembly).                   *)
THEOREM WholeTrades == Spec => []TradesAreWhole
<1>1. IInv => TradesAreWhole
  BY DEF IInv
<1> QED
  BY <1>1, SyncInvariant, PTL

(* A position is aggregated, or skipped, exactly when its rows are complete *)
(* (sync_position_state).                                                   *)
THEOREM CurrentAssessments == Spec => []AssessmentIsCurrent
<1>1. IInv => AssessmentIsCurrent
  BY DEF IInv
<1> QED
  BY <1>1, SyncInvariant, PTL

(* While its lease runs, a run keeps the reservation until it releases it   *)
(* itself (acquireReservation, releaseReservation).                         *)
THEOREM LeasesAreRespected == Spec => LeaseIsRespected
<1> DEFINE Kept == \A a \in Accounts, r \in Runs :
              reservation[a].by = r /\ ~reservation[a].lapsed /\ reservation'[a].by # r
                => run[r].step = "leaving" /\ run'[r].step = "released"
<1>1. ASSUME TypeOK, [Next]_vars, NEW a \in Accounts, NEW r \in Runs,
             reservation[a].by = r, ~reservation[a].lapsed, reservation'[a].by # r
      PROVE  run[r].step = "leaving" /\ run'[r].step = "released"
  <2>1. reservation \in [Accounts -> [by : Runs \cup {NoRun}, lapsed : BOOLEAN]] /\ r # NoRun
    BY <1>1, NoRunIsNoRun DEF TypeOK
  <2>2. ASSUME NEW s \in Runs, Acquire(s) PROVE FALSE
    BY <1>1, <2>1, <2>2 DEF Acquire, Available
  <2>3. ASSUME NEW s \in Runs, Release(s)
        PROVE  run[r].step = "leaving" /\ run'[r].step = "released"
    <3>1. s = r
      BY <1>1, <2>1, <2>3 DEF Release
    <3>2. run[r].step = "leaving" /\ Goto(r, "released")
      BY <2>3, <3>1 DEF Release
    <3>3. run'[r].step = "released"
      BY <1>1, <3>2, GotoFacts DEF Proceeds
    <3> QED
      BY <3>2, <3>3
  <2>4. ASSUME NEW b \in Accounts, LeaseExpires(b) PROVE reservation'[a].by = reservation[a].by
    BY <2>1, <2>4 DEF LeaseExpires
  <2>5. reservation' # reservation
    BY <1>1
  <2> QED
    BY <1>1, <2>2, <2>3, <2>4, <2>5
       DEF Next, Clock, MakeDeal, SyncTick, RequestSync, Enqueue, Serve, Take, Handle, Refuse,
           Fetch, FetchFails, Import, ImportFails, Settle, TimeOut, Die, vars
<1>2. TypeOK /\ [Next]_vars => [Kept]_vars
  BY <1>1
<1> QED
  BY <1>2, TypeCorrect, PTL DEF Spec, LeaseIsRespected

=============================================================================
