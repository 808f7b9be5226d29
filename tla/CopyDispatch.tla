----------------------------- MODULE CopyDispatch -----------------------------
(***************************************************************************)
(* Copy trading, from the signal a leader's trade emits to its followers:  *)
(* the emitter and the relationships (apps/api/src/tenancy), the durable   *)
(* signal queue and its dispatch handler (apps/worker/src/copytrading),    *)
(* the tick that feeds the job queue (scheduler/copyScheduler.ts), and the *)
(* runner around a job (runner.ts, queue/pgBossAdapter.ts).                *)
(*                                                                         *)
(* One leader account: every statement filters on it.  Time is a lease     *)
(* that is held or over; it may run out while a handler is still at work,  *)
(* since a job's hard timeout abandons the handler without stopping it.    *)
(***************************************************************************)
EXTENDS Naturals, FiniteSets

CONSTANTS Signals,      \* rows of signal_queue
          Followers,    \* follower accounts
          Ticks,        \* passes of the tick at one time
          Runs,         \* executions of the handler at one time
          MaxAttempts,  \* MAX_ATTEMPTS
          JobAttempts,  \* maxAttempts of the job policy: deliveries of one job
          MayDie        \* whether a pass or a run may be cut short (crash, database error)

ASSUME AttemptsArePositive == MaxAttempts \in Nat \ {0}
ASSUME JobAttemptsArePositive == JobAttempts \in Nat \ {0}
ASSUME MayDieIsBoolean == MayDie \in BOOLEAN

VARIABLES relation,   \* table copy_relationships: the live row of a follower
          signal,     \* table signal_queue
          listed,     \* per pass of the tick: what it has listed and not enqueued yet
          jobs,       \* the jobs that wait to be fetched
          run,        \* the handler executions
          delivered,  \* external: the executions a follower's account has had
          steady,     \* history: followers active ever since the emission
          consented,  \* history: followers active at some time since the emission
          cut         \* history: signals whose last attempt was cut short

tables  == <<relation, signal>>
history == <<steady, consented, cut>>
vars    == <<relation, signal, listed, jobs, run, delivered, steady, consented, cut>>

SignalRow == [status : {"none", "queued", "dispatched", "acked", "expired", "failed"},
              attempts : Nat, leased : BOOLEAN]

(* What a pass knows of a due signal: key is the number of attempts in the  *)
(* idempotency key of the job it is about to enqueue.                       *)
Due == [signal : Signals, key : Nat]

(* retries says how often the job may still come back.                      *)
Job == [signal : Signals, key : Nat, retries : 0..(JobAttempts - 1)]

Free == [pc |-> "free"]

(* n is the attempt number the run's claim returned, 0 before the claim;    *)
(* patient says that the runner still waits for the handler.                *)
Busy == [pc : {"fetched", "claimed", "sending", "expiring"}, signal : Signals,
         job : Job, n : Nat, patient : BOOLEAN, todo : SUBSET Followers, failed : BOOLEAN]

TypeOK ==
  /\ relation \in [Followers -> {"none", "pending", "active", "paused"}]
  /\ signal \in [Signals -> SignalRow]
  /\ listed \in [Ticks -> SUBSET Due]
  /\ jobs \in SUBSET Job
  /\ run \in [Runs -> {Free} \cup Busy]
  /\ delivered \in [Signals -> SUBSET Followers]
  /\ steady \in [Signals -> SUBSET Followers]
  /\ consented \in [Signals -> SUBSET Followers]
  /\ cut \in SUBSET Signals

Init ==
  /\ relation = [f \in Followers |-> "none"]
  /\ signal = [s \in Signals |-> [status |-> "none", attempts |-> 0, leased |-> FALSE]]
  /\ listed = [t \in Ticks |-> {}]
  /\ jobs = {}
  /\ run = [h \in Runs |-> Free]
  /\ delivered = [s \in Signals |-> {}]
  /\ steady = [s \in Signals |-> {}]
  /\ consented = [s \in Signals |-> {}]
  /\ cut = {}

Active == {f \in Followers : relation[f] = "active"}

Emitted(s) == signal[s].status # "none"
Open(s)    == signal[s].status \in {"queued", "dispatched"}
Terminal(s) == signal[s].status \in {"acked", "expired", "failed"}

-----------------------------------------------------------------------------
(* Relationships.  A revoked row is dead: the pair may be linked again.     *)

SetRelation(f, status) ==
  /\ relation' = [relation EXCEPT ![f] = status]
  /\ steady' = [s \in Signals |-> IF status = "active" THEN steady[s] ELSE steady[s] \ {f}]
  /\ consented' = [s \in Signals |->
       IF status = "active" /\ Emitted(s) THEN consented[s] \cup {f} ELSE consented[s]]
  /\ UNCHANGED <<signal, listed, jobs, run, delivered, cut>>

CreateRelationship(f) == relation[f] = "none" /\ SetRelation(f, "pending")

SetRelationshipStatus(f, status) == relation[f] # "none" /\ SetRelation(f, status)

RevokeRelationship(f) == relation[f] # "none" /\ SetRelation(f, "none")

-----------------------------------------------------------------------------
(* A leader's trade or exit commits, and its signal with it; there is no    *)
(* signal when nobody is active.                                            *)
EmitCopySignal(s) ==
  /\ ~Emitted(s)
  /\ Active # {}
  /\ signal' = [signal EXCEPT ![s].status = "queued"]
  /\ steady' = [steady EXCEPT ![s] = Active]
  /\ consented' = [consented EXCEPT ![s] = Active]
  /\ UNCHANGED <<relation, listed, jobs, run, delivered, cut>>

(* A lease runs out; it is the retry timer.                                 *)
LeaseExpires(s) ==
  /\ signal[s].leased
  /\ signal' = [signal EXCEPT ![s].leased = FALSE]
  /\ UNCHANGED <<relation, listed, jobs, run, delivered, history>>

Dispatchable(s) == Open(s) /\ ~signal[s].leased /\ signal[s].attempts < MaxAttempts

(* The tick lists what is due, and enqueues it one job after the other.     *)
ListDispatchable(t) ==
  /\ listed[t] = {}
  /\ \E s \in Signals : Dispatchable(s)
  /\ listed' = [listed EXCEPT ![t] =
       {[signal |-> s, key |-> signal[s].attempts] : s \in {x \in Signals : Dispatchable(x)}}]
  /\ UNCHANGED <<relation, signal, jobs, run, delivered, history>>

Kin(job, other) == job.signal = other.signal /\ job.key = other.key
Fresh(job)      == job.retries = JobAttempts - 1

(* The policy of the queue is external: of the jobs of one key it holds one *)
(* new job, one retried job and one job that is being worked on, at most.   *)
Enqueue(t, due) ==
  /\ due \in listed[t]
  /\ listed' = [listed EXCEPT ![t] = @ \ {due}]
  /\ jobs' = IF \E job \in jobs : Kin(job, due) /\ Fresh(job)
               THEN jobs
               ELSE jobs \cup {[signal |-> due.signal, key |-> due.key,
                               retries |-> JobAttempts - 1]}
  /\ UNCHANGED <<relation, signal, run, delivered, history>>

(* The process dies between two jobs, or the queue refuses one.             *)
AbandonPass(t) ==
  /\ MayDie
  /\ listed[t] # {}
  /\ listed' = [listed EXCEPT ![t] = {}]
  /\ UNCHANGED <<relation, signal, jobs, run, delivered, history>>

-----------------------------------------------------------------------------
(* The handler.                                                             *)

(* The runner still waits for the run: the queue counts its job as active.  *)
Working(h) == run[h] # Free /\ run[h].patient

Fetch(h, job) ==
  /\ run[h] = Free
  /\ job \in jobs
  /\ ~ \E g \in Runs : Working(g) /\ Kin(run[g].job, job)
  /\ jobs' = jobs \ {job}
  /\ run' = [run EXCEPT ![h] =
       [pc |-> "fetched", signal |-> job.signal, job |-> job, n |-> 0, patient |-> TRUE,
        todo |-> {}, failed |-> FALSE]]
  /\ UNCHANGED <<relation, signal, listed, delivered, history>>

Finish(h) == run' = [run EXCEPT ![h] = Free]

Claimable(s) == Open(s) /\ ~signal[s].leased

(* fault: the attempt is numbered by the job, not by the row *)
FaultyClaim(h) ==
  LET s == run[h].signal
  IN  /\ run[h].pc = "fetched"
      /\ Claimable(s)
      /\ signal' = [signal EXCEPT ![s] = [status |-> "dispatched", attempts |-> @.attempts + 1,
                                          leased |-> TRUE]]
      /\ run' = [run EXCEPT ![h].pc = "claimed", ![h].n = run[h].job.key + 1]
      /\ UNCHANGED <<relation, listed, jobs, delivered, history>>

Claim(h) ==
  LET s == run[h].signal
      n == signal[s].attempts + 1
  IN  /\ run[h].pc = "fetched"
      /\ Claimable(s)
      /\ signal' = [signal EXCEPT ![s] = [status |-> "dispatched", attempts |-> n,
                                          leased |-> TRUE]]
      /\ run' = [run EXCEPT ![h].pc = "claimed", ![h].n = n]
      /\ UNCHANGED <<relation, listed, jobs, delivered, history>>

(* The claim returns no row: the job is done.                               *)
Skip(h) ==
  /\ run[h].pc = "fetched"
  /\ ~Claimable(run[h].signal)
  /\ Finish(h)
  /\ UNCHANGED <<relation, signal, listed, jobs, delivered, history>>

(* fault: paused and pending relationships are read, too *)
FaultyAudience == {f \in Followers : relation[f] # "none"}

(* followersOf *)
Audience == Active

ReadAudience(h) ==
  /\ run[h].pc = "claimed"
  /\ run' = [run EXCEPT ![h].pc = IF Audience = {} THEN "expiring" ELSE "sending",
                        ![h].todo = Audience]
  /\ UNCHANGED <<relation, signal, listed, jobs, delivered, history>>

(* External: the transport answers ok only when it has delivered; what it   *)
(* answers otherwise, or throws, leaves the delivery open.  The same key    *)
(* delivered again converges on one execution.                              *)
Dispatch(h, f, ok, reached) ==
  /\ run[h].pc = "sending" /\ f \in run[h].todo
  /\ ok => reached
  /\ delivered' = IF reached
                    THEN [delivered EXCEPT ![run[h].signal] = @ \cup {f}]
                    ELSE delivered
  /\ run' = [run EXCEPT ![h].todo = @ \ {f}, ![h].failed = @ \/ ~ok]
  /\ UNCHANGED <<relation, signal, listed, jobs, history>>

(* fault: a failure of one follower does not count once another succeeded *)
FaultyMarkAcked(h) ==
  /\ run[h].pc = "sending" /\ run[h].todo = {}
  /\ run[h].failed => delivered[run[h].signal] # {}
  /\ signal' = [signal EXCEPT ![run[h].signal].status = "acked",
                              ![run[h].signal].leased = FALSE]
  /\ Finish(h)
  /\ UNCHANGED <<relation, listed, jobs, delivered, history>>

MarkAcked(h) ==
  /\ run[h].pc = "sending" /\ run[h].todo = {} /\ ~run[h].failed
  /\ signal' = [signal EXCEPT ![run[h].signal].status = "acked",
                              ![run[h].signal].leased = FALSE]
  /\ Finish(h)
  /\ UNCHANGED <<relation, listed, jobs, delivered, history>>

MarkExpired(h) ==
  /\ run[h].pc = "expiring"
  /\ LET s == run[h].signal
     IN  signal' = IF Open(s) THEN [signal EXCEPT ![s].status = "expired", ![s].leased = FALSE]
                              ELSE signal
  /\ Finish(h)
  /\ UNCHANGED <<relation, listed, jobs, delivered, history>>

(* fault: the status is not part of the predicate *)
FaultyMarkFailed(h) ==
  /\ run[h].pc = "sending" /\ run[h].todo = {} /\ run[h].failed
  /\ LET s == run[h].signal
     IN  signal' = [signal EXCEPT ![s].status = IF run[h].n >= MaxAttempts THEN "failed" ELSE @,
                                  ![s].leased = run[h].n < MaxAttempts]
  /\ Finish(h)
  /\ UNCHANGED <<relation, listed, jobs, delivered, history>>

(* fault: the last attempt is retried, too *)
EndlessMarkFailed(h) ==
  /\ run[h].pc = "sending" /\ run[h].todo = {} /\ run[h].failed
  /\ LET s == run[h].signal
     IN  signal' = IF signal[s].status = "dispatched" THEN [signal EXCEPT ![s].leased = TRUE]
                                                      ELSE signal
  /\ Finish(h)
  /\ UNCHANGED <<relation, listed, jobs, delivered, history>>

MarkFailed(h) ==
  /\ run[h].pc = "sending" /\ run[h].todo = {} /\ run[h].failed
  /\ LET s == run[h].signal
         terminal == run[h].n >= MaxAttempts
     IN  signal' = CASE terminal /\ Open(s) ->
                          [signal EXCEPT ![s].status = "failed", ![s].leased = FALSE]
                     [] ~terminal /\ signal[s].status = "dispatched" ->
                          [signal EXCEPT ![s].leased = TRUE]
                     [] OTHER -> signal
  /\ Finish(h)
  /\ UNCHANGED <<relation, listed, jobs, delivered, history>>

-----------------------------------------------------------------------------
(* The job's own retry, after fail or when its own lease is over: it comes  *)
(* back until its retries are used up, or another retry of its key waits.   *)
Redeliver(job) ==
  jobs' = IF job.retries = 0 \/ \E other \in jobs : Kin(other, job) /\ ~Fresh(other)
            THEN jobs
            ELSE jobs \cup {[job EXCEPT !.retries = @ - 1]}

(* The hard timeout: the runner gives the job back, the handler runs on.    *)
(* A completion that fails gives the job back, too: the same two steps in   *)
(* the other order.                                                         *)
TimeOut(h) ==
  /\ Working(h)
  /\ run' = [run EXCEPT ![h].patient = FALSE]
  /\ Redeliver(run[h].job)
  /\ UNCHANGED <<relation, signal, listed, delivered, history>>

(* A run ends without recording anything: the process dies, or a statement  *)
(* fails and the handler throws.                                            *)
Die(h) ==
  /\ MayDie
  /\ run[h] # Free
  /\ Finish(h)
  /\ IF run[h].patient THEN Redeliver(run[h].job) ELSE UNCHANGED jobs
  /\ cut' = cut \cup {s \in {run[h].signal} : run[h].n >= MaxAttempts}
  /\ UNCHANGED <<relation, signal, listed, delivered, steady, consented>>

Relate(f) ==
  \/ CreateRelationship(f)
  \/ \E status \in {"active", "paused"} : SetRelationshipStatus(f, status)
  \/ RevokeRelationship(f)

EnqueueSignal(s) == \E t \in Ticks : \E due \in listed[t] : due.signal = s /\ Enqueue(t, due)

FetchSignal(h, s) == \E job \in jobs : job.signal = s /\ Fetch(h, job)

Answered(h) == \E f \in Followers, ok, reached \in BOOLEAN : Dispatch(h, f, ok, reached)

Take(h) == Claim(h) \/ Skip(h)

Handle(h) ==
  Take(h) \/ ReadAudience(h) \/ Answered(h) \/ MarkAcked(h) \/ MarkExpired(h) \/ MarkFailed(h)

Next ==
  \/ \E f \in Followers : Relate(f)
  \/ \E t \in Ticks : ListDispatchable(t) \/ AbandonPass(t)
  \/ \E s \in Signals : EmitCopySignal(s) \/ LeaseExpires(s) \/ EnqueueSignal(s)
  \/ \E h \in Runs : \/ \E s \in Signals : FetchSignal(h, s)
                     \/ Handle(h) \/ TimeOut(h) \/ Die(h)

Spec == Init /\ [][Next]_vars

(* The cron fires every minute, the runner polls twice a second, a lease    *)
(* ends, and a statement or a transport call that is under way returns.     *)
(* Passes and runs may be cut short again and again, but not every pass     *)
(* before it enqueues a signal, nor every run of it before the claim; and   *)
(* the queue hands out its jobs in turn.                                    *)
Fairness ==
  /\ \A t \in Ticks : WF_vars(ListDispatchable(t))
  /\ \A s \in Signals : /\ WF_vars(LeaseExpires(s))
                        /\ SF_vars(EnqueueSignal(s))
                        /\ SF_vars(\E h \in Runs : FetchSignal(h, s))
                        /\ SF_vars(\E h \in Runs : run[h] # Free /\ run[h].signal = s /\ Take(h))
  /\ \A h \in Runs : WF_vars(Handle(h))

FairSpec == Spec /\ Fairness

-----------------------------------------------------------------------------
(* Properties.                                                             *)

(* A signal ends acked or expired only when every follower who has stayed   *)
(* active since the emission has received it, whatever relationships came   *)
(* and went, and however many overlapping runs served it.                   *)
SettledServesSteadyFollowers ==
  \A s \in Signals : signal[s].status \in {"acked", "expired"} => steady[s] \subseteq delivered[s]

(* acked is the state that means replicated: somebody has received it.      *)
AckedIsReplicated == \A s \in Signals : signal[s].status = "acked" => delivered[s] # {}

(* A signal reaches nobody who was never active since it was emitted: a     *)
(* pending, paused or revoked link does not copy.                           *)
DeliveryNeedsConsent == \A s \in Signals : delivered[s] \subseteq consented[s]

(* Every claim works under an attempt number of its own, no later than the  *)
(* row's, so two runs never take the terminal decision for one attempt,     *)
(* although jobs of one key may be fetched again and again.                 *)
Claimed(h) == run[h] # Free /\ run[h].pc # "fetched"

AttemptsAreDistinct ==
  \A h, g \in Runs : Claimed(h) /\ Claimed(g) /\ run[h].signal = run[g].signal =>
    /\ run[h].n <= signal[run[h].signal].attempts
    /\ h # g => run[h].n # run[g].n

(* An acknowledgement stands: no late expiry, failure or claim by another   *)
(* run of the signal takes it back.                                         *)
AckIsFinal == [][\A s \in Signals : signal[s].status = "acked" => signal'[s] = signal[s]]_vars

(* signalQueue.ts says that a signal must reach a terminal state, and it    *)
(* does, whatever fails or times out on the way: unless its last attempt    *)
(* was cut short, after which listDispatchable does not list it again.      *)
EmittedIsSettled == \A s \in Signals : Emitted(s) ~> (Terminal(s) \/ s \in cut)
=============================================================================
