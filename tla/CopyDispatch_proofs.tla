------------------------- MODULE CopyDispatch_proofs -------------------------
(***************************************************************************)
(* Proofs about CopyDispatch, for every set of signals, followers and      *)
(* overlapping runs, and every ceiling of attempts.                        *)
(***************************************************************************)
EXTENDS CopyDispatch, TLAPS

(* What a row of signal_queue and its history say of its deliveries.        *)
SignalOK(s) ==
  /\ steady[s] \subseteq Active
  /\ Emitted(s) => Active \subseteq consented[s]
  /\ ~Emitted(s) => delivered[s] = {}
  /\ delivered[s] \subseteq consented[s]
  /\ signal[s].leased => signal[s].status = "dispatched"
  /\ signal[s].status \in {"acked", "expired"} => steady[s] \subseteq delivered[s]
  /\ signal[s].status = "acked" => delivered[s] # {}

(* What a run has read and done covers the followers who stayed active.     *)
RunOK(h) ==
  /\ run[h] # Free /\ run[h].pc = "fetched" => ~run[h].failed
  /\ Claimed(h) =>
    LET r == run[h]
        s == run[h].signal
    IN  /\ Emitted(s)
        /\ r.n <= signal[s].attempts
        /\ r.pc = "claimed" => ~r.failed
        /\ r.pc = "expiring" => steady[s] = {}
        /\ r.pc = "sending" =>
             /\ r.todo \subseteq consented[s]
             /\ ~r.failed => /\ steady[s] \subseteq r.todo \cup delivered[s]
                             /\ r.todo \cup delivered[s] # {}

DistinctRuns(h, g) ==
  h # g /\ Claimed(h) /\ Claimed(g) /\ run[h].signal = run[g].signal
    => run[h].n # run[g].n

(* The inductive invariant.                                                 *)
IInv ==
  /\ TypeOK
  /\ \A s \in Signals : SignalOK(s)
  /\ \A h \in Runs : RunOK(h)
  /\ \A h, g \in Runs : DistinctRuns(h, g)

-----------------------------------------------------------------------------
LEMMA InitIInv == Init => IInv
<1> SUFFICES ASSUME Init PROVE IInv
  OBVIOUS
<1>1. TypeOK
  <2>1. [status |-> "none", attempts |-> 0, leased |-> FALSE] \in SignalRow
    BY DEF SignalRow
  <2>2. QED
    BY <2>1 DEF Init, TypeOK
<1>2. \A s \in Signals : SignalOK(s)
  BY DEF Init, SignalOK, Emitted, Active
<1>3. \A h \in Runs : run[h] = Free
  BY DEF Init
<1>4. QED
  BY <1>1, <1>2, <1>3 DEF IInv, RunOK, DistinctRuns, Claimed

(* A run with its fields.                                                   *)
LEMMA BusyFields ==
  ASSUME NEW r \in Busy
  PROVE  /\ r # Free /\ r.signal \in Signals /\ r.n \in Nat
         /\ r.todo \in SUBSET Followers /\ r.failed \in BOOLEAN /\ r.patient \in BOOLEAN
         /\ r.job \in Job /\ r.pc \in {"fetched", "claimed", "sending", "expiring"}
BY DEF Busy, Free

(* Relationships come and go.                                               *)
LEMMA SetRelationKeepsIInv ==
  ASSUME IInv, NEW f \in Followers, NEW status \in {"none", "pending", "active", "paused"},
         SetRelation(f, status)
  PROVE  IInv'
<1>1. /\ relation' = [relation EXCEPT ![f] = status]
      /\ \A s \in Signals : steady'[s] = IF status = "active" THEN steady[s] ELSE steady[s] \ {f}
      /\ \A s \in Signals : consented'[s] =
           IF status = "active" /\ Emitted(s) THEN consented[s] \cup {f} ELSE consented[s]
      /\ signal' = signal /\ jobs' = jobs /\ run' = run /\ delivered' = delivered
      /\ cut' = cut /\ listed' = listed
  BY DEF SetRelation
<1>2. TypeOK'
  <2>1. relation' \in [Followers -> {"none", "pending", "active", "paused"}]
    BY <1>1 DEF IInv, TypeOK
  <2>2. steady' \in [Signals -> SUBSET Followers]
    BY DEF IInv, TypeOK, SetRelation
  <2>3. consented' \in [Signals -> SUBSET Followers]
    BY DEF IInv, TypeOK, SetRelation
  <2>4. QED
    BY <1>1, <2>1, <2>2, <2>3 DEF IInv, TypeOK
<1>3. Active' = IF status = "active" THEN Active \cup {f} ELSE Active \ {f}
  BY <1>1 DEF Active, IInv, TypeOK
<1>4. ASSUME NEW s \in Signals PROVE SignalOK(s)'
  BY <1>1, <1>3 DEF IInv, SignalOK, Emitted
<1>5. ASSUME NEW h \in Runs PROVE RunOK(h)'
  <2>1. RunOK(h) /\ (run[h] # Free => run[h] \in Busy)
    BY DEF IInv, TypeOK
  <2>2. CASE run[h] = Free
    BY <1>1, <2>2 DEF RunOK, Claimed
  <2>3. CASE run[h] # Free
    <3>1. run[h].signal \in Signals
      BY <2>1, <2>3, BusyFields
    <3>2. QED
      BY <1>1, <2>1, <2>3, <3>1 DEF RunOK, Emitted, Claimed
  <2>4. QED
    BY <2>2, <2>3
<1>6. QED
  BY <1>1, <1>2, <1>4, <1>5 DEF IInv, DistinctRuns, Claimed

(* A run that a step does not touch stays covered: deliveries, attempts and *)
(* emissions only grow.                                                     *)
LEMMA RunPersists ==
  ASSUME IInv, NEW h \in Runs, run'[h] = run[h], UNCHANGED <<steady, consented>>,
         \A s \in Signals : delivered[s] \subseteq delivered'[s],
         \A s \in Signals : Emitted(s) => Emitted(s)',
         \A s \in Signals : signal[s].attempts <= signal'[s].attempts,
         signal' \in [Signals -> SignalRow]
  PROVE  RunOK(h)'
<1>1. RunOK(h) /\ (run[h] # Free => run[h] \in Busy)
  BY DEF IInv, TypeOK
<1>2. CASE run[h] = Free \/ ~Claimed(h)
  BY <1>1, <1>2 DEF RunOK, Claimed
<1>3. CASE run[h] # Free /\ Claimed(h)
  <2> DEFINE s == run[h].signal
  <2>1. s \in Signals /\ run[h].n \in Nat
    BY <1>1, <1>3, BusyFields
  <2>2. signal[s].attempts \in Nat /\ signal'[s].attempts \in Nat
    BY <2>1 DEF IInv, TypeOK, SignalRow
  <2>3. steady' = steady /\ consented' = consented
    OBVIOUS
  <2>4. run[h].n <= signal'[s].attempts
    BY <1>1, <1>3, <2>1, <2>2 DEF RunOK
  <2>5. QED
    BY <1>1, <1>3, <2>1, <2>3, <2>4 DEF RunOK, Claimed
<1>4. QED
  BY <1>2, <1>3

(* A step in which no run claims keeps their numbers apart.                 *)
LEMMA DistinctPersists ==
  ASSUME IInv, NEW h \in Runs, NEW g \in Runs,
         Claimed(h)' => Claimed(h) /\ run'[h].signal = run[h].signal /\ run'[h].n = run[h].n,
         Claimed(g)' => Claimed(g) /\ run'[g].signal = run[g].signal /\ run'[g].n = run[g].n
  PROVE  DistinctRuns(h, g)'
BY DEF IInv, DistinctRuns

(* A row with a column rewritten is a row.                                  *)
LEMMA SignalColumns ==
  ASSUME NEW r \in SignalRow
  PROVE  /\ r.attempts \in Nat /\ r.leased \in BOOLEAN
         /\ \A b \in BOOLEAN : [r EXCEPT !.leased = b] \in SignalRow
         /\ \A x \in {"none", "queued", "dispatched", "acked", "expired", "failed"} :
              [r EXCEPT !.status = x] \in SignalRow
<1>1. r.attempts \in Nat /\ r.leased \in BOOLEAN
  BY DEF SignalRow
<1>2. \A b \in BOOLEAN : [r EXCEPT !.leased = b] \in SignalRow
  BY DEF SignalRow
<1>3. \A x \in {"none", "queued", "dispatched", "acked", "expired", "failed"} :
        [r EXCEPT !.status = x] \in SignalRow
  BY DEF SignalRow
<1>4. QED
  BY <1>1, <1>2, <1>3

LEMMA EmitKeepsIInv ==
  ASSUME IInv, NEW s \in Signals, EmitCopySignal(s)
  PROVE  IInv'
<1>1. /\ ~Emitted(s) /\ signal[s] \in SignalRow /\ signal \in [Signals -> SignalRow]
      /\ steady \in [Signals -> SUBSET Followers] /\ consented \in [Signals -> SUBSET Followers]
      /\ relation' = relation /\ jobs' = jobs /\ run' = run /\ delivered' = delivered
      /\ Active' = Active /\ Active \in SUBSET Followers /\ cut' = cut /\ listed' = listed
  BY DEF EmitCopySignal, IInv, TypeOK, Active
<1>2. /\ \A x \in Signals : x # s => /\ signal'[x] = signal[x] /\ steady'[x] = steady[x]
                                     /\ consented'[x] = consented[x]
      /\ steady'[s] = Active /\ consented'[s] = Active
      /\ signal'[s].status = "queued" /\ signal'[s].leased = signal[s].leased
      /\ signal'[s] \in SignalRow
  BY <1>1 DEF EmitCopySignal, SignalRow
<1>3. TypeOK'
  <2>1. signal' \in [Signals -> SignalRow]
    BY <1>1, <1>2 DEF EmitCopySignal
  <2>2. steady' \in [Signals -> SUBSET Followers] /\ consented' \in [Signals -> SUBSET Followers]
    BY <1>1 DEF EmitCopySignal
  <2>3. QED
    BY <1>1, <2>1, <2>2 DEF IInv, TypeOK
<1>4. ASSUME NEW x \in Signals PROVE SignalOK(x)'
  <2>1. CASE x = s
    BY <1>1, <1>2, <2>1 DEF IInv, SignalOK, Emitted
  <2>2. CASE x # s
    BY <1>1, <1>2, <2>2 DEF IInv, SignalOK, Emitted
  <2>3. QED
    BY <2>1, <2>2
<1>5. ASSUME NEW h \in Runs PROVE RunOK(h)'
  <2>1. RunOK(h) /\ (run[h] # Free => run[h] \in Busy)
    BY DEF IInv, TypeOK
  <2>2. CASE ~Claimed(h)
    BY <1>1, <2>1, <2>2 DEF RunOK, Claimed
  <2>3. CASE Claimed(h)
    <3>0. run[h] # Free
      BY <2>3 DEF Claimed
    <3>1. run[h].signal \in Signals /\ (Claimed(h) => run[h].signal # s)
      BY <1>1, <2>1, <2>3, <3>0, BusyFields DEF RunOK
    <3>2. QED
      BY <1>1, <1>2, <2>1, <2>3, <3>1 DEF RunOK, Emitted, Claimed
  <2>4. QED
    BY <2>2, <2>3
<1>6. QED
  BY <1>1, <1>3, <1>4, <1>5 DEF IInv, DistinctRuns, Claimed

(* A new job may come back as often as the policy says.                     *)
LEMMA FirstDelivery == JobAttempts - 1 \in 0..(JobAttempts - 1)
BY JobAttemptsArePositive

(* A step that no signal, follower or claimed run notices: leases end, jobs *)
(* are listed, enqueued and fetched, runs come and go before their claim.   *)
LEMMA QuietKeepsIInv ==
  ASSUME IInv, TypeOK', UNCHANGED <<relation, delivered, steady, consented>>,
         \A s \in Signals : /\ signal'[s].status = signal[s].status
                            /\ signal'[s].attempts = signal[s].attempts
                            /\ signal'[s].leased => signal[s].leased,
         \A h \in Runs : \/ run'[h] = run[h] \/ run'[h] = Free
                         \/ run'[h].pc = "fetched" /\ ~run'[h].failed
  PROVE  IInv'
<1>1. ASSUME NEW s \in Signals PROVE SignalOK(s)'
  BY DEF IInv, SignalOK, Emitted, Active
<1>2. ASSUME NEW h \in Runs PROVE RunOK(h)'
  <2>1. CASE run'[h] = run[h]
    <3>1. \A s \in Signals : signal[s].attempts \in Nat
      BY SignalColumns DEF IInv, TypeOK
    <3>2. QED
      BY <2>1, <3>1, RunPersists DEF Emitted, TypeOK
  <2>2. CASE run'[h] = Free \/ (run'[h].pc = "fetched" /\ ~run'[h].failed)
    BY <2>2 DEF RunOK, Claimed
  <2>3. QED
    BY <2>1, <2>2
<1>3. ASSUME NEW h \in Runs, NEW g \in Runs PROVE DistinctRuns(h, g)'
  <2>1. \A x \in Runs : Claimed(x)' => Claimed(x) /\ run'[x] = run[x]
    BY DEF Claimed
  <2>2. QED
    BY <2>1, DistinctPersists
<1>4. QED
  BY <1>1, <1>2, <1>3 DEF IInv

LEMMA LeaseKeepsIInv ==
  ASSUME IInv, NEW s \in Signals, LeaseExpires(s)
  PROVE  IInv'
<1> DEFINE row == [signal[s] EXCEPT !.leased = FALSE]
<1>1. signal \in [Signals -> SignalRow] /\ signal[s] \in SignalRow
  BY DEF IInv, TypeOK
<1>2. row \in SignalRow /\ row.status = signal[s].status
      /\ row.attempts = signal[s].attempts /\ ~row.leased
  BY <1>1 DEF SignalRow
<1>3. signal' = [signal EXCEPT ![s] = row]
      /\ UNCHANGED <<relation, listed, jobs, run, delivered, steady, consented, cut>>
  BY DEF LeaseExpires, history
<1> HIDE DEF row
<1>4. TypeOK'
  BY <1>1, <1>2, <1>3 DEF IInv, TypeOK
<1>5. \A x \in Signals : /\ signal'[x].status = signal[x].status
                         /\ signal'[x].attempts = signal[x].attempts
                         /\ signal'[x].leased => signal[x].leased
  BY <1>1, <1>2, <1>3
<1>6. QED
  BY <1>3, <1>4, <1>5, QuietKeepsIInv

(* A pass of the tick lists, enqueues and dies.                             *)
LEMMA PassKeepsIInv ==
  ASSUME IInv, NEW t \in Ticks,
         \/ ListDispatchable(t) \/ AbandonPass(t)
         \/ \E due \in listed[t] : Enqueue(t, due)
  PROVE  IInv'
<1>1. UNCHANGED <<relation, signal, run, delivered, steady, consented, cut>>
  BY DEF ListDispatchable, AbandonPass, Enqueue, history
<1>2. /\ signal \in [Signals -> SignalRow] /\ jobs \in SUBSET Job
      /\ listed \in [Ticks -> SUBSET Due]
  BY DEF IInv, TypeOK
<1>3. listed' \in [Ticks -> SUBSET Due]
  <2>1. CASE ListDispatchable(t)
    <3> DEFINE found == {[signal |-> s, key |-> signal[s].attempts] :
                           s \in {x \in Signals : Dispatchable(x)}}
    <3>1. \A s \in Signals : signal[s].attempts \in Nat
      BY <1>2, SignalColumns
    <3>2. found \in SUBSET Due
      BY <3>1 DEF Due
    <3>3. listed' = [listed EXCEPT ![t] = found]
      BY <2>1 DEF ListDispatchable
    <3> HIDE DEF found
    <3>4. QED
      BY <1>2, <3>2, <3>3
  <2>2. CASE AbandonPass(t)
    BY <1>2, <2>2 DEF AbandonPass
  <2>3. CASE \E due \in listed[t] : Enqueue(t, due)
    BY <1>2, <2>3 DEF Enqueue
  <2>4. QED
    BY <2>1, <2>2, <2>3
<1>4. jobs' \in SUBSET Job
  <2>1. ASSUME NEW due \in listed[t], Enqueue(t, due) PROVE jobs' \in SUBSET Job
    <3> DEFINE job == [signal |-> due.signal, key |-> due.key, retries |-> JobAttempts - 1]
    <3>1. due \in Due
      BY <1>2
    <3>2. job \in Job
      BY <3>1, FirstDelivery DEF Due, Job
    <3>3. jobs' = jobs \/ jobs' = jobs \cup {job}
      BY <2>1 DEF Enqueue
    <3> HIDE DEF job
    <3>4. QED
      BY <1>2, <3>2, <3>3
  <2>2. QED
    BY <1>2, <2>1 DEF ListDispatchable, AbandonPass
<1>5. TypeOK'
  BY <1>1, <1>3, <1>4 DEF IInv, TypeOK
<1>6. QED
  BY <1>1, <1>5, QuietKeepsIInv

(* A run fetches a job, or finds its signal taken.                          *)
LEMMA FetchKeepsIInv ==
  ASSUME IInv, NEW h \in Runs, NEW job \in jobs, Fetch(h, job)
  PROVE  IInv'
<1> DEFINE r == [pc |-> "fetched", signal |-> job.signal, job |-> job, n |-> 0,
                 patient |-> TRUE, todo |-> {}, failed |-> FALSE]
<1>1. jobs \in SUBSET Job /\ run \in [Runs -> {Free} \cup Busy] /\ job.signal \in Signals
  BY DEF IInv, TypeOK, Job
<1>2. r \in Busy /\ r.pc = "fetched" /\ ~r.failed
  BY <1>1 DEF Busy
<1>3. run' = [run EXCEPT ![h] = r] /\ jobs' = jobs \ {job}
      /\ UNCHANGED <<relation, signal, listed, delivered, steady, consented, cut>>
  BY DEF Fetch, history
<1> HIDE DEF r
<1>4. TypeOK'
  BY <1>1, <1>2, <1>3 DEF IInv, TypeOK
<1>5. QED
  BY <1>1, <1>2, <1>3, <1>4, QuietKeepsIInv

LEMMA SkipKeepsIInv ==
  ASSUME IInv, NEW h \in Runs, Skip(h)
  PROVE  IInv'
<1>1. run' = [run EXCEPT ![h] = Free] /\ run \in [Runs -> {Free} \cup Busy]
      /\ UNCHANGED <<relation, signal, listed, jobs, delivered, steady, consented, cut>>
  BY DEF Skip, Finish, history, IInv, TypeOK
<1>2. TypeOK'
  BY <1>1 DEF IInv, TypeOK
<1>3. QED
  BY <1>1, <1>2, QuietKeepsIInv

(* A run that claims: its number is the newest.                             *)
LEMMA ClaimKeepsIInv ==
  ASSUME IInv, NEW h \in Runs, Claim(h)
  PROVE  IInv'
<1> DEFINE s == run[h].signal
           n == signal[s].attempts + 1
           row == [status |-> "dispatched", attempts |-> n, leased |-> TRUE]
           r == [run[h] EXCEPT !.pc = "claimed", !.n = n]
<1>1. /\ signal \in [Signals -> SignalRow] /\ run \in [Runs -> {Free} \cup Busy]
      /\ run[h] \in Busy /\ run[h].pc = "fetched" /\ ~run[h].failed
  BY DEF Claim, IInv, TypeOK, Free, RunOK
<1>2. s \in Signals
  BY <1>1, BusyFields
<1>3. signal[s].attempts \in Nat /\ n \in Nat /\ Open(s) /\ ~signal[s].leased
  <2>1. Open(s) /\ ~signal[s].leased
    BY DEF Claim, Claimable
  <2>2. signal[s].attempts \in Nat
    BY <1>1, <1>2, SignalColumns
  <2> HIDE DEF s
  <2>3. QED
    BY <2>1, <2>2
<1>4. /\ signal' = [signal EXCEPT ![s] = row] /\ run' = [run EXCEPT ![h] = r]
      /\ relation' = relation /\ delivered' = delivered /\ jobs' = jobs
      /\ steady' = steady /\ consented' = consented /\ cut' = cut /\ listed' = listed
  BY <1>1 DEF Claim, history
<1>5. row \in SignalRow /\ row.status = "dispatched" /\ row.attempts = n
  BY <1>3 DEF SignalRow
<1>6. /\ r \in Busy /\ r # Free /\ r.pc = "claimed" /\ r.signal = s /\ r.n = n /\ ~r.failed
  <2> HIDE DEF n
  <2>1. QED
    BY <1>1, <1>2, <1>3 DEF Busy, Free
<1> HIDE DEF s, row, r, n
<1>7. /\ \A x \in Signals : x # s => signal'[x] = signal[x]
      /\ signal'[s] = row /\ signal' \in [Signals -> SignalRow]
      /\ \A g \in Runs : g # h => run'[g] = run[g]
      /\ run'[h] = r /\ run' \in [Runs -> {Free} \cup Busy]
  BY <1>1, <1>2, <1>4, <1>5, <1>6
<1>8. TypeOK'
  BY <1>1, <1>4, <1>7 DEF IInv, TypeOK
<1>9. ASSUME NEW x \in Signals PROVE SignalOK(x)'
  BY <1>3, <1>4, <1>5, <1>7 DEF IInv, SignalOK, Emitted, Active, Open
<1>10. \A x \in Signals : signal[x].attempts \in Nat
  BY <1>1, SignalColumns
<1>11. n = signal[s].attempts + 1
  BY DEF n
<1>12. ASSUME NEW g \in Runs PROVE RunOK(g)'
  <2>1. CASE g = h
    BY <1>3, <1>5, <1>6, <1>7, <1>10, <1>11, <2>1, <1>2 DEF RunOK, Emitted, Claimed
  <2>2. CASE g # h
    <3>1. \A x \in Signals : Emitted(x) => Emitted(x)'
      BY <1>5, <1>7 DEF Emitted
    <3>2. \A x \in Signals : signal[x].attempts <= signal'[x].attempts
      BY <1>5, <1>7, <1>10, <1>11
    <3>3. QED
      BY <1>4, <1>7, <2>2, <3>1, <3>2, RunPersists
  <2>3. QED
    BY <2>1, <2>2
<1>13. \A g \in Runs : Claimed(g) /\ run[g].signal = s => run[g].n # n
  <2> SUFFICES ASSUME NEW g \in Runs, Claimed(g), run[g].signal = s PROVE run[g].n # n
    OBVIOUS
  <2>1. run[g].n \in Nat /\ run[g].n <= signal[s].attempts
    BY <1>1, BusyFields DEF IInv, RunOK, Claimed
  <2>2. QED
    BY <1>2, <1>10, <1>11, <2>1
<1>14. ASSUME NEW g \in Runs, NEW k \in Runs PROVE DistinctRuns(g, k)'
  BY <1>6, <1>7, <1>13 DEF IInv, DistinctRuns, Claimed
<1>15. QED
  BY <1>8, <1>9, <1>12, <1>14 DEF IInv

(* A run that moves on without touching its signal's row.                   *)
LEMMA RunStepKeepsIInv ==
  ASSUME IInv, NEW h \in Runs, run[h] # Free, NEW r \in {Free} \cup Busy,
         run' = [run EXCEPT ![h] = r],
         r # Free => /\ r.signal = run[h].signal /\ r.n = run[h].n
                     /\ r.pc # "fetched" => run[h].pc # "fetched",
         UNCHANGED <<relation, signal, listed, steady, consented>>,
         jobs' \in SUBSET Job, cut' \in SUBSET Signals,
         delivered' \in [Signals -> SUBSET Followers],
         \A s \in Signals : delivered[s] \subseteq delivered'[s],
         \A s \in Signals : delivered'[s] # delivered[s] =>
                              Emitted(s) /\ delivered'[s] \subseteq consented[s],
         RunOK(h)'
  PROVE  IInv'
<1>1. run \in [Runs -> {Free} \cup Busy] /\ signal' = signal /\ signal \in [Signals -> SignalRow]
      /\ steady' = steady /\ consented' = consented /\ relation' = relation
  BY DEF IInv, TypeOK
<1>2. run'[h] = r /\ \A g \in Runs : g # h => run'[g] = run[g]
  BY <1>1
<1>3. TypeOK'
  BY <1>1 DEF IInv, TypeOK
<1>4. ASSUME NEW s \in Signals PROVE SignalOK(s)'
  BY <1>1 DEF IInv, SignalOK, Emitted, Active
<1>5. ASSUME NEW g \in Runs PROVE RunOK(g)'
  <2>1. CASE g = h
    BY <2>1
  <2>2. CASE g # h
    <3>1. \A x \in Signals : Emitted(x) => Emitted(x)'
      BY <1>1 DEF Emitted
    <3>2. \A x \in Signals : signal[x].attempts <= signal'[x].attempts
      <4>1. \A x \in Signals : signal[x].attempts \in Nat
        BY <1>1, SignalColumns
      <4>2. QED
        BY <1>1, <4>1
    <3>3. QED
      BY <1>1, <1>2, <2>2, <3>1, <3>2, RunPersists
  <2>3. QED
    BY <2>1, <2>2
<1>6. ASSUME NEW g \in Runs, NEW k \in Runs PROVE DistinctRuns(g, k)'
  <2>1. \A x \in Runs : Claimed(x)' => /\ Claimed(x) /\ run'[x].signal = run[x].signal
                                      /\ run'[x].n = run[x].n
    BY <1>2 DEF Claimed
  <2>2. QED
    BY <2>1, DistinctPersists
<1>7. QED
  BY <1>3, <1>4, <1>5, <1>6 DEF IInv

(* Reading the audience, an answer of the transport, a timeout, a death.    *)
LEMMA ReadKeepsIInv ==
  ASSUME IInv, NEW h \in Runs, ReadAudience(h)
  PROVE  IInv'
<1> DEFINE r == [run[h] EXCEPT !.pc = IF Audience = {} THEN "expiring" ELSE "sending",
                               !.todo = Audience]
           s == run[h].signal
<1>1. run[h] \in Busy /\ run \in [Runs -> {Free} \cup Busy] /\ run[h].pc = "claimed"
  BY DEF ReadAudience, IInv, TypeOK, Free
<1>2. s \in Signals /\ run[h] # Free /\ RunOK(h) /\ SignalOK(s) /\ Claimed(h)
  BY <1>1, BusyFields DEF IInv, Claimed
<1>3. run' = [run EXCEPT ![h] = r] /\ UNCHANGED <<relation, signal, listed, jobs, delivered, steady, consented, cut>>
  BY <1>1 DEF ReadAudience, history
<1>4. Audience = Active /\ Active \in SUBSET Followers
  BY DEF Audience, Active
<1>5. /\ r \in Busy /\ r # Free /\ r.signal = s /\ r.n = run[h].n /\ r.todo = Active
      /\ r.failed = run[h].failed
      /\ r.pc = (IF Active = {} THEN "expiring" ELSE "sending") /\ r.pc # "fetched"
  BY <1>1, <1>4 DEF Busy, Free
<1> HIDE DEF r, s
<1>6. run'[h] = r
  BY <1>1, <1>3
<1>7. RunOK(h)'
  <2>1. /\ signal' = signal /\ steady' = steady /\ consented' = consented
        /\ delivered' = delivered
    BY <1>3
  <2>2. Emitted(s) /\ run[h].n <= signal[s].attempts /\ ~run[h].failed
        /\ steady[s] \subseteq Active /\ Active \subseteq consented[s]
    BY <1>1, <1>2 DEF RunOK, SignalOK, s, Claimed
  <2>3. QED
    BY <1>5, <1>6, <2>1, <2>2 DEF RunOK, Emitted
<1>8. /\ jobs' \in SUBSET Job /\ cut' \in SUBSET Signals /\ delivered' = delivered
      /\ delivered' \in [Signals -> SUBSET Followers]
  BY <1>3 DEF IInv, TypeOK
<1>9. r # Free => /\ r.signal = run[h].signal /\ r.n = run[h].n
                  /\ r.pc # "fetched" => run[h].pc # "fetched"
  BY <1>1, <1>5 DEF s
<1>10. UNCHANGED <<relation, signal, listed, steady, consented>>
  BY <1>3
<1>11. QED
  BY <1>2, <1>3, <1>5, <1>7, <1>8, <1>9, <1>10, RunStepKeepsIInv

LEMMA DispatchKeepsIInv ==
  ASSUME IInv, NEW h \in Runs, NEW f \in Followers, NEW ok \in BOOLEAN, NEW reached \in BOOLEAN,
         Dispatch(h, f, ok, reached)
  PROVE  IInv'
<1> DEFINE r == [run[h] EXCEPT !.todo = @ \ {f}, !.failed = @ \/ ~ok]
           s == run[h].signal
<1>1. /\ run[h] \in Busy /\ run \in [Runs -> {Free} \cup Busy]
      /\ run[h].pc = "sending" /\ f \in run[h].todo /\ (ok => reached)
  BY DEF Dispatch, IInv, TypeOK, Free
<1>2. s \in Signals /\ run[h] # Free /\ RunOK(h) /\ SignalOK(s) /\ Claimed(h)
  BY <1>1, BusyFields DEF IInv, Claimed
<1>3. run' = [run EXCEPT ![h] = r] /\ UNCHANGED <<relation, signal, listed, jobs, steady, consented, cut>>
  BY <1>1 DEF Dispatch, history
<1>4. /\ r \in Busy /\ r # Free /\ r.signal = s /\ r.n = run[h].n /\ r.pc = "sending"
      /\ r.todo = run[h].todo \ {f} /\ r.failed = (run[h].failed \/ ~ok)
  BY <1>1 DEF Busy, Free
<1>5. delivered \in [Signals -> SUBSET Followers]
  BY DEF IInv, TypeOK
<1>6. delivered' = [delivered EXCEPT ![s] = IF reached THEN @ \cup {f} ELSE @]
  BY <1>2, <1>5 DEF Dispatch
<1> HIDE DEF r, s
<1>7. /\ delivered'[s] = IF reached THEN delivered[s] \cup {f} ELSE delivered[s]
      /\ \A x \in Signals : x # s => delivered'[x] = delivered[x]
      /\ delivered' \in [Signals -> SUBSET Followers]
  BY <1>2, <1>5, <1>6
<1>8. Emitted(s) /\ run[h].n <= signal[s].attempts /\ run[h].todo \subseteq consented[s]
      /\ (~run[h].failed => /\ steady[s] \subseteq run[h].todo \cup delivered[s]
                            /\ run[h].todo \cup delivered[s] # {})
      /\ delivered[s] \subseteq consented[s]
  BY <1>1, <1>2 DEF RunOK, SignalOK, s, Claimed
<1>9. RunOK(h)'
  <2>1. /\ signal' = signal /\ steady' = steady /\ consented' = consented /\ run'[h] = r
    BY <1>1, <1>3
  <2>2. QED
    BY <1>1, <1>4, <1>7, <1>8, <2>1 DEF RunOK, Emitted
<1>10. \A x \in Signals : delivered[x] \subseteq delivered'[x]
  BY <1>7
<1>11. \A x \in Signals : delivered'[x] # delivered[x] =>
                            Emitted(x) /\ delivered'[x] \subseteq consented[x]
  BY <1>1, <1>7, <1>8
<1>12. jobs' \in SUBSET Job /\ cut' \in SUBSET Signals
  BY <1>3 DEF IInv, TypeOK
<1>13. /\ UNCHANGED <<relation, signal, listed, steady, consented>>
       /\ r.signal = run[h].signal /\ run[h].pc # "fetched"
  BY <1>1, <1>3, <1>4 DEF s
<1>14. QED
  BY <1>2, <1>3, <1>4, <1>7, <1>9, <1>10, <1>11, <1>12, <1>13, RunStepKeepsIInv

LEMMA LeaveKeepsIInv ==
  ASSUME IInv, NEW h \in Runs, TimeOut(h) \/ Die(h)
  PROVE  IInv'
<1>1. run[h] \in Busy /\ run \in [Runs -> {Free} \cup Busy] /\ run[h] # Free /\ RunOK(h)
  BY DEF TimeOut, Die, Working, IInv, TypeOK
<1>2. jobs' \in SUBSET Job
  <2> DEFINE job == run[h].job
  <2>1. jobs' = jobs \/ (Redeliver(job) /\ job.retries # 0)
    BY DEF TimeOut, Die, Redeliver
  <2>2. job \in Job
    BY <1>1, BusyFields
  <2> HIDE DEF job
  <2>3. job.retries # 0 => [job EXCEPT !.retries = @ - 1] \in Job
    BY <2>2, JobAttemptsArePositive DEF Job
  <2>4. QED
    BY <1>1, <2>1, <2>3 DEF IInv, TypeOK, Redeliver
<1>3. UNCHANGED <<relation, signal, listed, steady, consented>> /\ delivered' = delivered
  BY DEF TimeOut, Die, history
<1>7. cut' \in SUBSET Signals
  <2>1. run[h].signal \in Signals
    BY <1>1, BusyFields
  <2>2. QED
    BY <2>1 DEF TimeOut, Die, history, IInv, TypeOK
<1>4. CASE TimeOut(h)
  <2> DEFINE r == [run[h] EXCEPT !.patient = FALSE]
  <2>1. /\ r \in Busy /\ r # Free /\ r.signal = run[h].signal /\ r.n = run[h].n
        /\ r.pc = run[h].pc /\ r.todo = run[h].todo /\ r.failed = run[h].failed
    BY <1>1 DEF Busy, Free
  <2>2. run' = [run EXCEPT ![h] = r]
    BY <1>1, <1>4 DEF TimeOut
  <2> HIDE DEF r
  <2>3. run'[h] = r
    BY <1>1, <2>2
  <2>4. RunOK(h)'
    BY <1>1, <1>3, <2>1, <2>3 DEF RunOK, Emitted, Claimed
  <2>5. QED
    BY <1>1, <1>2, <1>3, <1>7, <2>1, <2>2, <2>4, RunStepKeepsIInv DEF IInv, TypeOK
<1>5. CASE Die(h)
  <2>1. run' = [run EXCEPT ![h] = Free]
    BY <1>5 DEF Die, Finish
  <2>2. RunOK(h)'
    BY <1>1, <2>1 DEF RunOK, Claimed
  <2>3. QED
    BY <1>1, <1>2, <1>3, <1>7, <2>1, <2>2, RunStepKeepsIInv DEF IInv, TypeOK
<1>6. QED
  BY <1>4, <1>5

(* A run that records its outcome on the row of its signal and ends.        *)
LEMMA OutcomeKeepsIInv ==
  ASSUME IInv, NEW h \in Runs, run' = [run EXCEPT ![h] = Free],
         UNCHANGED <<relation, listed, jobs, delivered, history>>,
         NEW s \in Signals, NEW row \in SignalRow, Emitted(s),
         signal' = [signal EXCEPT ![s] = row],
         row.attempts = signal[s].attempts, row.status # "none",
         row.leased => row.status = "dispatched",
         row.status \in {"acked", "expired"} => steady[s] \subseteq delivered[s],
         row.status = "acked" => delivered[s] # {}
  PROVE  IInv'
<1>1. /\ run \in [Runs -> {Free} \cup Busy] /\ signal \in [Signals -> SignalRow]
      /\ relation' = relation /\ jobs' = jobs /\ delivered' = delivered /\ listed' = listed
      /\ steady' = steady /\ consented' = consented /\ cut' = cut
  BY DEF IInv, TypeOK, history
<1>2. /\ run'[h] = Free /\ run' \in [Runs -> {Free} \cup Busy]
      /\ \A g \in Runs : g # h => run'[g] = run[g]
      /\ signal'[s] = row /\ signal' \in [Signals -> SignalRow]
      /\ \A x \in Signals : x # s => signal'[x] = signal[x]
  BY <1>1
<1>3. TypeOK'
  BY <1>1, <1>2 DEF IInv, TypeOK
<1>4. ASSUME NEW x \in Signals PROVE SignalOK(x)'
  BY <1>1, <1>2 DEF IInv, SignalOK, Emitted, Active
<1>5. ASSUME NEW g \in Runs PROVE RunOK(g)'
  <2>1. CASE g = h
    BY <1>2, <2>1 DEF RunOK, Claimed
  <2>2. CASE g # h
    <3>1. \A x \in Signals : Emitted(x) => Emitted(x)'
      BY <1>2 DEF Emitted
    <3>2. \A x \in Signals : signal[x].attempts <= signal'[x].attempts
      <4>1. \A x \in Signals : signal[x].attempts \in Nat
        BY <1>1, SignalColumns
      <4>2. QED
        BY <1>2, <4>1
    <3>3. QED
      BY <1>1, <1>2, <2>2, <3>1, <3>2, RunPersists
  <2>3. QED
    BY <2>1, <2>2
<1>6. ASSUME NEW g \in Runs, NEW k \in Runs PROVE DistinctRuns(g, k)'
  <2>1. \A x \in Runs : Claimed(x)' => /\ Claimed(x) /\ run'[x].signal = run[x].signal
                                      /\ run'[x].n = run[x].n
    BY <1>2 DEF Claimed
  <2>2. QED
    BY <2>1, DistinctPersists
<1>7. QED
  BY <1>3, <1>4, <1>5, <1>6 DEF IInv

(* The row after an outcome: only status and lease differ.                  *)
LEMMA OutcomeRow ==
  ASSUME NEW r \in SignalRow,
         NEW x \in {"none", "queued", "dispatched", "acked", "expired", "failed"}
  PROVE  LET row == [r EXCEPT !.status = x, !.leased = FALSE]
         IN  /\ row \in SignalRow /\ row.status = x /\ ~row.leased
             /\ row.attempts = r.attempts
BY DEF SignalRow

LEMMA MarkKeepsIInv ==
  ASSUME IInv, NEW h \in Runs, MarkAcked(h) \/ MarkExpired(h) \/ MarkFailed(h)
  PROVE  IInv'
<1> DEFINE s == run[h].signal
<1>1. run[h] \in Busy /\ signal \in [Signals -> SignalRow]
  BY DEF MarkAcked, MarkExpired, MarkFailed, IInv, TypeOK, Free
<1>2. /\ s \in Signals /\ run[h] # Free /\ RunOK(h) /\ SignalOK(s) /\ signal[s] \in SignalRow
      /\ Claimed(h)
  BY <1>1, BusyFields DEF IInv, Claimed, MarkAcked, MarkExpired, MarkFailed
<1>3. run' = [run EXCEPT ![h] = Free] /\ UNCHANGED <<relation, listed, jobs, delivered, history>>
  BY DEF MarkAcked, MarkExpired, MarkFailed, Finish
<1>4. Emitted(s)
  BY <1>2 DEF RunOK
<1>5. CASE signal' = signal
  <2>1. signal' = [signal EXCEPT ![s] = signal[s]]
    BY <1>1, <1>5
  <2> HIDE DEF s
  <2>2. QED
    BY <1>2, <1>3, <1>4, <2>1, OutcomeKeepsIInv DEF SignalOK, Emitted
<1>6. CASE MarkAcked(h)
  <2> DEFINE row == [signal[s] EXCEPT !.status = "acked", !.leased = FALSE]
  <2>1. signal' = [signal EXCEPT ![s] = row]
    BY <1>1, <1>2, <1>6 DEF MarkAcked
  <2>2. row \in SignalRow /\ row.status = "acked" /\ ~row.leased
        /\ row.attempts = signal[s].attempts
    BY <1>2, OutcomeRow
  <2>3. steady[s] \subseteq delivered[s] /\ delivered[s] # {}
    BY <1>1, <1>2, <1>6 DEF RunOK, MarkAcked
  <2> HIDE DEF row, s
  <2>4. QED
    BY <1>2, <1>3, <1>4, <2>1, <2>2, <2>3, OutcomeKeepsIInv
<1>7. CASE MarkExpired(h) /\ Open(s)
  <2> DEFINE row == [signal[s] EXCEPT !.status = "expired", !.leased = FALSE]
  <2>1. signal' = [signal EXCEPT ![s] = row]
    BY <1>1, <1>2, <1>7 DEF MarkExpired
  <2>2. row \in SignalRow /\ row.status = "expired" /\ ~row.leased
        /\ row.attempts = signal[s].attempts
    BY <1>2, OutcomeRow
  <2>3. steady[s] = {}
    BY <1>2, <1>7 DEF RunOK, MarkExpired
  <2> HIDE DEF row, s
  <2>4. QED
    BY <1>2, <1>3, <1>4, <2>1, <2>2, <2>3, OutcomeKeepsIInv
<1>8. CASE MarkFailed(h) /\ run[h].n >= MaxAttempts /\ Open(s)
  <2> DEFINE row == [signal[s] EXCEPT !.status = "failed", !.leased = FALSE]
  <2>1. signal' = [signal EXCEPT ![s] = row]
    BY <1>1, <1>2, <1>8 DEF MarkFailed
  <2>2. row \in SignalRow /\ row.status = "failed" /\ ~row.leased
        /\ row.attempts = signal[s].attempts
    BY <1>2, OutcomeRow
  <2> HIDE DEF row, s
  <2>3. QED
    BY <1>2, <1>3, <1>4, <2>1, <2>2, OutcomeKeepsIInv
<1>9. CASE MarkFailed(h) /\ ~(run[h].n >= MaxAttempts) /\ signal[s].status = "dispatched"
  <2> DEFINE row == [signal[s] EXCEPT !.leased = TRUE]
  <2>1. signal' = [signal EXCEPT ![s] = row]
    BY <1>1, <1>2, <1>9 DEF MarkFailed
  <2>2. row \in SignalRow /\ row.status = "dispatched" /\ row.leased
        /\ row.attempts = signal[s].attempts
    BY <1>2, <1>9 DEF SignalRow
  <2> HIDE DEF row, s
  <2>3. QED
    BY <1>2, <1>3, <1>4, <2>1, <2>2, OutcomeKeepsIInv
<1>10. QED
  BY <1>5, <1>6, <1>7, <1>8, <1>9 DEF MarkExpired, MarkFailed

LEMMA NextKeepsIInv == IInv /\ [Next]_vars => IInv'
<1> SUFFICES ASSUME IInv, [Next]_vars PROVE IInv'
  OBVIOUS
<1>1. ASSUME NEW f \in Followers, Relate(f) PROVE IInv'
  BY <1>1, SetRelationKeepsIInv
     DEF Relate, CreateRelationship, SetRelationshipStatus, RevokeRelationship
<1>2. ASSUME NEW s \in Signals, EmitCopySignal(s) PROVE IInv'
  BY <1>2, EmitKeepsIInv
<1>3. ASSUME NEW s \in Signals, LeaseExpires(s) \/ EnqueueSignal(s) PROVE IInv'
  BY <1>3, LeaseKeepsIInv, PassKeepsIInv DEF EnqueueSignal
<1>8. ASSUME NEW t \in Ticks, ListDispatchable(t) \/ AbandonPass(t) PROVE IInv'
  BY <1>8, PassKeepsIInv
<1>5. ASSUME NEW h \in Runs, NEW s \in Signals, FetchSignal(h, s) PROVE IInv'
  BY <1>5, FetchKeepsIInv DEF FetchSignal
<1>4. ASSUME NEW h \in Runs, Handle(h) \/ TimeOut(h) \/ Die(h) PROVE IInv'
  BY <1>4, ClaimKeepsIInv, SkipKeepsIInv, ReadKeepsIInv, DispatchKeepsIInv, MarkKeepsIInv,
     LeaveKeepsIInv DEF Handle, Take, Answered
<1>6. CASE UNCHANGED vars
  BY <1>6 DEF vars, IInv, TypeOK, SignalOK, RunOK, DistinctRuns, Emitted, Active,
                   Claimed
<1>7. QED
  BY <1>1, <1>2, <1>3, <1>4, <1>5, <1>6, <1>8 DEF Next

-----------------------------------------------------------------------------
(* The invariant holds in every reachable state.                            *)
THEOREM CopyInvariant == Spec => []IInv
<1>1. QED
  BY InitIInv, NextKeepsIInv, PTL DEF Spec

(* The tables, the waiting jobs and the runs keep their types.              *)
THEOREM CopyTypes == Spec => []TypeOK
<1>1. IInv => TypeOK
  BY DEF IInv
<1>2. QED
  BY <1>1, CopyInvariant, PTL

(* No signal ends acked or expired over a follower who stayed active, for   *)
(* any number of followers, overlapping runs, crashes and timeouts.         *)
THEOREM SteadyFollowersServed == Spec => []SettledServesSteadyFollowers
<1>1. IInv => SettledServesSteadyFollowers
  BY DEF IInv, SignalOK, SettledServesSteadyFollowers
<1>2. QED
  BY <1>1, CopyInvariant, PTL

(* An acknowledged signal has reached somebody.                             *)
THEOREM AckMeansReplicated == Spec => []AckedIsReplicated
<1>1. IInv => AckedIsReplicated
  BY DEF IInv, SignalOK, AckedIsReplicated
<1>2. QED
  BY <1>1, CopyInvariant, PTL

(* Only followers who have been active since the emission are copied to.    *)
THEOREM ConsentedDelivery == Spec => []DeliveryNeedsConsent
<1>1. IInv => DeliveryNeedsConsent
  BY DEF IInv, SignalOK, DeliveryNeedsConsent
<1>2. QED
  BY <1>1, CopyInvariant, PTL

(* Two runs of one signal hold different attempt numbers.                   *)
THEOREM DistinctAttempts == Spec => []AttemptsAreDistinct
<1>1. IInv => AttemptsAreDistinct
  BY DEF IInv, RunOK, DistinctRuns, AttemptsAreDistinct
<1>2. QED
  BY <1>1, CopyInvariant, PTL

(* No step of any run, tick or lease changes an acknowledged signal: what   *)
(* is leased is dispatched, a claim and a late outcome ask for the status,  *)
(* and a second acknowledgement writes what is there.                       *)
THEOREM AckFinality == Spec => AckIsFinal
<1> DEFINE A == \A s \in Signals : signal[s].status = "acked" => signal'[s] = signal[s]
<1>1. IInv /\ [Next]_vars => A
  <2> SUFFICES ASSUME IInv, [Next]_vars, NEW s \in Signals, signal[s].status = "acked"
               PROVE  signal'[s] = signal[s]
    OBVIOUS
  <2>1. signal \in [Signals -> SignalRow] /\ signal[s] \in SignalRow /\ ~signal[s].leased
    BY DEF IInv, TypeOK, SignalOK
  <2>2. CASE signal' = signal
    BY <2>2
  <2>3. ASSUME NEW x \in Signals, EmitCopySignal(x) PROVE signal'[s] = signal[s]
    BY <2>1, <2>3 DEF EmitCopySignal, Emitted
  <2>4. ASSUME NEW x \in Signals, LeaseExpires(x) PROVE signal'[s] = signal[s]
    BY <2>1, <2>4 DEF LeaseExpires
  <2>5. ASSUME NEW h \in Runs, Claim(h) PROVE signal'[s] = signal[s]
    BY <2>1, <2>5 DEF Claim, Claimable, Open
  <2>6. ASSUME NEW h \in Runs, MarkAcked(h) PROVE signal'[s] = signal[s]
    <3>1. CASE run[h].signal = s
      <4>1. signal'[s] = [[signal[s] EXCEPT !.status = "acked"] EXCEPT !.leased = FALSE]
        BY <2>1, <2>6, <3>1 DEF MarkAcked
      <4> DEFINE row == signal[s]
      <4>2. row \in SignalRow /\ row.status = "acked" /\ row.leased = FALSE
        BY <2>1 DEF SignalRow
      <4> HIDE DEF row
      <4>3. [[row EXCEPT !.status = "acked"] EXCEPT !.leased = FALSE] = row
        BY <4>2 DEF SignalRow
      <4>4. QED
        BY <4>1, <4>3 DEF row
    <3>2. CASE run[h].signal # s
      BY <2>1, <2>6, <3>2 DEF MarkAcked
    <3>3. QED
      BY <3>1, <3>2
  <2>7. ASSUME NEW h \in Runs, MarkExpired(h) PROVE signal'[s] = signal[s]
    BY <2>1, <2>7 DEF MarkExpired, Open
  <2>8. ASSUME NEW h \in Runs, MarkFailed(h) PROVE signal'[s] = signal[s]
    <3>1. CASE run[h].signal = s
      <4>1. ~Open(s) /\ signal[s].status # "dispatched"
        BY DEF Open
      <4>2. signal' = signal
        BY <2>8, <3>1, <4>1 DEF MarkFailed
      <4>3. QED
        BY <4>2
    <3>2. CASE run[h].signal # s
      BY <2>1, <2>8, <3>2 DEF MarkFailed
    <3>3. QED
      BY <3>1, <3>2
  <2>9. QED
    BY <2>2, <2>3, <2>4, <2>5, <2>6, <2>7, <2>8
       DEF Next, vars, Relate, CreateRelationship, SetRelationshipStatus, RevokeRelationship,
           SetRelation, ListDispatchable, AbandonPass, EnqueueSignal, Enqueue, FetchSignal,
           Fetch, Take, Skip, Handle, ReadAudience, Answered, Dispatch,
           TimeOut, Die
<1>2. IInv /\ [Next]_vars => [A]_vars
  BY <1>1
<1>3. QED
  BY <1>2, CopyInvariant, PTL DEF Spec, AckIsFinal

=============================================================================
