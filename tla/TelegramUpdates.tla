---------------------------- MODULE TelegramUpdates ----------------------------
(***************************************************************************)
(* The stream of Telegram updates (ADR-018): the webhook's claim and its   *)
(* hand-over to the job queue or to a timer of the API process, the worker *)
(* that serves the queue, and the poller that replaces both in             *)
(* development.  Every statement on telegram_updates is a step.            *)
(*                                                                         *)
(* A process is a request of the API (which becomes the timer's task), a   *)
(* run of the worker, or the poller.  faults bounds what goes wrong: an    *)
(* API or worker that dies, a statement that fails (before or after it     *)
(* took effect), a run that exceeds its hard timeout.                      *)
(***************************************************************************)
EXTENDS Integers, FiniteSets, FiniteSetsExt

CONSTANTS LastUpdate,   \* update ids are 1..LastUpdate
          Malformed,    \* those the contract schema refuses
          Requests,     \* webhook requests at one time
          Runs,         \* runs of the worker at one time
          MaxAttempts,  \* DEFAULT_JOB_POLICIES.ai
          MaxFaults     \* bound of the faults

ASSUME IdsAreNaturals == LastUpdate \in Nat /\ Malformed \subseteq 1..LastUpdate
ASSUME AttemptsArePositive == MaxAttempts \in Nat \ {0} /\ MaxFaults \in Nat
ASSUME ProcessesAreDisjoint == Requests \cap Runs = {} /\ "poller" \notin Requests \cup Runs

(* Seeded faults carry the prefix Faulty; no action uses them.              *)

VARIABLES mode,        \* how this deployment consumes the stream
          row,         \* table telegram_updates
          answered,    \* updates Telegram has no reason to send again
          proc,        \* the processes
          offset,      \* the poller's: the first update it has not handled
          batch,       \* the poller's: what is left of its batch
          job,         \* queue telegram.update
          dispatched,  \* how often the bot acted on an update
          faults,      \* faults so far
          hit          \* history: updates a fault fell upon

vars == <<mode, row, answered, proc, offset, batch, job, dispatched, faults, hit>>

Updates   == 1..LastUpdate
Poller    == "poller"
Processes == Requests \cup Runs \cup {Poller}
NoUpdate  == 0

(* With the queue, without it, or without a webhook.                        *)
Modes == {"queue", "timer", "polling"}

(* The marker columns of a row: received, processing_started_at,            *)
(* processed_at.                                                            *)
RowStates == {"none", "claimed", "started", "processed"}

JobStates == {"none", "waiting", "active", "done", "failed"}
Job == [state : JobStates, retries : 0..(MaxAttempts - 1)]
NoJob == [state |-> "none", retries |-> 0]

(* owns: the runner still waits for the run and will report to the queue.   *)
Steps == {"idle", "claiming", "enqueueing", "starting", "dispatching", "finishing"}
Process == [step : Steps, update : Updates \cup {NoUpdate}, owns : BOOLEAN]
Idle == [step |-> "idle", update |-> NoUpdate, owns |-> FALSE]

At(p, step) == proc[p].step = step
Goto(p, step) == proc' = [proc EXCEPT ![p].step = step]

Fault(us) ==
  /\ faults < MaxFaults
  /\ faults' = faults + 1
  /\ hit' = hit \cup us
NoFault == UNCHANGED <<faults, hit>>

Init ==
  /\ mode \in Modes
  /\ row = [u \in Updates |-> "none"]
  /\ answered = {}
  /\ proc = [p \in Processes |-> Idle]
  /\ offset = 1
  /\ batch = {}
  /\ job = [u \in Updates |-> NoJob]
  /\ dispatched = [u \in Updates |-> 0]
  /\ faults = 0
  /\ hit = {}

-----------------------------------------------------------------------------
(* The queue.                                                               *)

(* fault: the retries have no limit *)
FaultyRetried(j) == [state |-> "waiting", retries |-> j.retries + 1]

(* fail of an active job: back for another attempt, or out of retries.      *)
Retried(j) ==
  IF j.retries < MaxAttempts - 1
  THEN [state |-> "waiting", retries |-> j.retries + 1]
  ELSE [j EXCEPT !.state = "failed"]

(* The end of a process that ran through processClaimed: the timer's task   *)
(* is over, the runner completes the job, the poller advances.              *)
Advance(u) == offset' = u + 1 /\ batch' = batch \ {u}
Completed(p, u) == IF proc[p].owns THEN [job EXCEPT ![u].state = "done"] ELSE job
End(p) ==
  /\ proc' = [proc EXCEPT ![p] = Idle]
  /\ job' = Completed(p, proc[p].update)
  /\ IF p = Poller THEN Advance(proc[p].update) ELSE UNCHANGED <<offset, batch>>

(* fault: a failed run completes its job *)
FaultyThrows(p, u) == Completed(p, u)
Throws(p, u) == IF proc[p].owns THEN [job EXCEPT ![u] = Retried(@)] ELSE job

(* The end of a process whose statement failed: the request answers 500,    *)
(* the task's error is only logged, the runner fails the job, and the       *)
(* poller drops its batch with the offset where it was.                     *)
Throw(p) ==
  /\ proc' = [proc EXCEPT ![p] = Idle]
  /\ job' = Throws(p, proc[p].update)
  /\ batch' = IF p = Poller THEN {} ELSE batch
  /\ UNCHANGED offset

-----------------------------------------------------------------------------
(* The webhook.                                                             *)

(* handleWebhookIngress: Telegram repeats what it has no answer to, and     *)
(* what it lost the answer to.  A payload the schema refuses ends here.     *)
Deliver(r, u) ==
  /\ mode \in {"queue", "timer"}
  /\ At(r, "idle")
  /\ u \notin Malformed
  /\ proc' = [proc EXCEPT ![r] = [Idle EXCEPT !.step = "claiming", !.update = u]]
  /\ UNCHANGED <<mode, row, answered, offset, batch, job, dispatched>> /\ NoFault

(* claimUpdate, for the webhook and the poller.                             *)
Claimed(u) == [row EXCEPT ![u] = IF @ = "none" THEN "claimed" ELSE @]

AfterClaim == IF mode = "queue" THEN "enqueueing" ELSE "starting"

Claim(p) ==
  /\ At(p, "claiming")
  /\ LET u == proc[p].update IN
       /\ row' = Claimed(u)
       /\ answered' = IF p # Poller /\ (row[u] # "none" \/ mode = "timer")
                      THEN answered \cup {u} ELSE answered
       /\ IF row[u] = "none"
          THEN Goto(p, AfterClaim) /\ UNCHANGED <<offset, batch, job>>
          ELSE End(p)
  /\ UNCHANGED <<mode, dispatched>> /\ NoFault

ClaimFails(p) ==
  /\ At(p, "claiming")
  /\ row' \in {row, Claimed(proc[p].update)}
  /\ Throw(p)
  /\ Fault(IF row' = row THEN {} ELSE {proc[p].update})
  /\ UNCHANGED <<mode, answered, dispatched>>

Sent(u) == [job EXCEPT ![u] = [NoJob EXCEPT !.state = "waiting"]]

Enqueue(r) ==
  /\ At(r, "enqueueing")
  /\ job' = Sent(proc[r].update)
  /\ answered' = answered \cup {proc[r].update}
  /\ proc' = [proc EXCEPT ![r] = Idle]
  /\ UNCHANGED <<mode, row, offset, batch, dispatched>> /\ NoFault

(* The queue did not answer, with or without having stored the job: the     *)
(* request answers, and its timer takes the update over.                    *)
(* fault: the timer is not set *)
FaultyFallBack(r) == proc' = [proc EXCEPT ![r] = Idle]
FallBack(r) == Goto(r, "starting")

EnqueueFails(r) ==
  /\ At(r, "enqueueing")
  /\ job' \in {job, Sent(proc[r].update)}
  /\ answered' = answered \cup {proc[r].update}
  /\ FallBack(r)
  /\ Fault({})
  /\ UNCHANGED <<mode, row, offset, batch, dispatched>>

-----------------------------------------------------------------------------
(* processClaimed, in whichever process.                                    *)

(* fault: the start is not one-shot *)
FaultyStartable(u) == row[u] \in {"claimed", "started"}
Startable(u) == row[u] = "claimed"
Started(u) == IF Startable(u) THEN [row EXCEPT ![u] = "started"] ELSE row

BeginUpdateProcessing(p) ==
  /\ At(p, "starting")
  /\ row' = Started(proc[p].update)
  /\ IF Startable(proc[p].update)
     THEN Goto(p, "dispatching") /\ UNCHANGED <<offset, batch, job>>
     ELSE End(p)
  /\ UNCHANGED <<mode, answered, dispatched>> /\ NoFault

BeginFails(p) ==
  /\ At(p, "starting")
  /\ row' \in {row, Started(proc[p].update)}
  /\ Throw(p)
  /\ Fault({proc[p].update})
  /\ UNCHANGED <<mode, answered, dispatched>>

(* An exception of the dispatch is an outcome like any other.               *)
Dispatch(p) ==
  /\ At(p, "dispatching")
  /\ dispatched' = [dispatched EXCEPT ![proc[p].update] = @ + 1]
  /\ Goto(p, "finishing")
  /\ UNCHANGED <<mode, row, answered, offset, batch, job>> /\ NoFault

FinishUpdate(p) ==
  /\ At(p, "finishing")
  /\ row' = [row EXCEPT ![proc[p].update] = IF @ = "started" THEN "processed" ELSE @]
  /\ End(p)
  /\ UNCHANGED <<mode, answered, dispatched>> /\ NoFault

(* The failure of the record is swallowed.                                  *)
FinishFails(p) ==
  /\ At(p, "finishing")
  /\ End(p)
  /\ Fault({proc[p].update})
  /\ UNCHANGED <<mode, row, answered, dispatched>>

-----------------------------------------------------------------------------
(* The poller.                                                              *)

(* getUpdates(offset) confirms what is below the offset; a poller that has  *)
(* just started has none and gets all that is unconfirmed.                  *)
From == IF offset = 1 THEN Updates \ answered ELSE {u \in Updates : u >= offset}

GetUpdates ==
  /\ mode = "polling"
  /\ At(Poller, "idle") /\ batch = {}
  /\ answered' = answered \cup {u \in Updates : u < offset}
  /\ \E last \in From : batch' = {u \in From : u <= last}
  /\ UNCHANGED <<mode, row, proc, offset, job, dispatched>> /\ NoFault

(* fault: a malformed update holds the offset *)
FaultySkip(u) == UNCHANGED offset /\ batch' = {}
Skip(u) == Advance(u)

HandleNext ==
  /\ At(Poller, "idle") /\ batch # {}
  /\ LET u == Min(batch) IN
       IF u \in Malformed
       THEN Skip(u) /\ UNCHANGED proc
       ELSE /\ proc' = [proc EXCEPT ![Poller] = [Idle EXCEPT !.step = "claiming", !.update = u]]
            /\ UNCHANGED <<offset, batch>>
  /\ UNCHANGED <<mode, row, answered, job, dispatched>> /\ NoFault

-----------------------------------------------------------------------------
(* The worker.                                                              *)

Fetch(w, u) ==
  /\ At(w, "idle")
  /\ job[u].state = "waiting"
  /\ job' = [job EXCEPT ![u].state = "active"]
  /\ proc' = [proc EXCEPT ![w] = [step |-> "starting", update |-> u, owns |-> TRUE]]
  /\ UNCHANGED <<mode, row, answered, offset, batch, dispatched>> /\ NoFault

(* The hard timeout fails the job; the handler runs on by itself.           *)
TimeOut(w) ==
  /\ proc[w].owns
  /\ job' = [job EXCEPT ![proc[w].update] = Retried(@)]
  /\ proc' = [proc EXCEPT ![w].owns = FALSE]
  /\ Fault({})
  /\ UNCHANGED <<mode, row, answered, offset, batch, dispatched>>

(* The lease of a job nobody is left to report on runs out.                 *)
Expire(u) ==
  /\ job[u].state = "active"
  /\ \A w \in Runs : ~(proc[w].owns /\ proc[w].update = u)
  /\ job' = [job EXCEPT ![u] = Retried(@)]
  /\ UNCHANGED <<mode, row, answered, proc, offset, batch, dispatched>> /\ NoFault

-----------------------------------------------------------------------------
(* Crashes.                                                                 *)

Die(ps) ==
  /\ \E p \in ps : ~At(p, "idle")
  /\ proc' = [p \in Processes |-> IF p \in ps THEN Idle ELSE proc[p]]
  /\ Fault({proc[p].update : p \in ps} \ {NoUpdate})
  /\ UNCHANGED <<mode, row, answered, job, dispatched>>

ApiCrash    == Die(Requests \cup {Poller}) /\ offset' = 1 /\ batch' = {}
WorkerCrash == Die(Runs) /\ UNCHANGED <<offset, batch>>

Continue(p) ==
  Claim(p) \/ Enqueue(p) \/ BeginUpdateProcessing(p) \/ Dispatch(p) \/ FinishUpdate(p)
Fails(p) == ClaimFails(p) \/ EnqueueFails(p) \/ BeginFails(p) \/ FinishFails(p)
Poll == GetUpdates \/ HandleNext
Serve(w) == \E u \in Updates : Fetch(w, u)

Next ==
  \/ \E r \in Requests, u \in Updates : Deliver(r, u)
  \/ \E p \in Processes : Continue(p) \/ Fails(p)
  \/ Poll
  \/ \E w \in Runs : Serve(w) \/ TimeOut(w)
  \/ \E u \in Updates : Expire(u)
  \/ ApiCrash \/ WorkerCrash

Spec == Init /\ [][Next]_vars

(* Processes go on, the poller loops until it is stopped, idle runs poll    *)
(* the queue, leases run out.  Telegram and the faults owe nothing.         *)
FairSpec ==
  /\ Spec
  /\ \A p \in Processes : WF_vars(Continue(p))
  /\ WF_vars(Poll)
  /\ \A w \in Runs : WF_vars(Serve(w))
  /\ \A u \in Updates : WF_vars(Expire(u))

-----------------------------------------------------------------------------
(* Properties.                                                              *)

(* Every variable has its type; a run that owns a job works on an active    *)
(* one, and the queue never retries a job beyond its attempts.              *)
TypeOK ==
  /\ mode \in Modes
  /\ row \in [Updates -> RowStates]
  /\ answered \subseteq Updates
  /\ proc \in [Processes -> Process]
  /\ \A p \in Processes : ~At(p, "idle") => proc[p].update \in Updates
  /\ offset \in 1..(LastUpdate + 1)
  /\ batch \subseteq Updates
  /\ job \in [Updates -> Job]
  /\ dispatched \in [Updates -> Nat]
  /\ faults \in Nat
  /\ hit \subseteq Updates
  /\ \A w \in Runs : proc[w].owns => job[proc[w].update].state = "active"

(* What a row and the bot's acts amount to in the promise.                  *)
Stage(u) ==
  CASE row[u] = "none"      -> "new"
    [] row[u] = "claimed"   -> "claimed"
    [] row[u] = "started"   -> IF dispatched[u] = 0 THEN "started" ELSE "acted"
    [] row[u] = "processed" -> "settled"

Promise == INSTANCE OneShotUpdates WITH
             stage <- [u \in Updates |-> Stage(u)],
             acted <- dispatched

(* Redelivered, queued twice, retried, timed out, overtaken or interrupted: *)
(* an update goes through its stages once and in order, and the bot acts on *)
(* it at most once (claimUpdate, beginUpdateProcessing, finishUpdate).      *)
RefinesOneShot == Promise!Spec

(* An update Telegram will not send again is either in somebody's hands,    *)
(* or past its start, or a fault fell upon it (acceptDeferred, handleBatch).*)
InHand(u) ==
  \/ job[u].state \in {"waiting", "active"}
  \/ \E p \in Processes : proc[p].update = u /\ ~At(p, "claiming")
NothingIsDropped ==
  \A u \in answered \ (Malformed \cup hit) :
    row[u] = "processed" \/ (row[u] # "none" /\ InHand(u))

(* A job that was stored survives any crashes, timeouts and failures fewer  *)
(* than its attempts: its update is started (retries of pg-boss).           *)
StoredJobIsStarted ==
  \A u \in Updates :
    job[u].state # "none" ~> (row[u] \in {"started", "processed"} \/ faults >= MaxAttempts)

(* The poller passes every update, the ones nobody can read included, and   *)
(* the ones a fault of its own made it ask for again (handleBatch).         *)
StreamAdvances ==
  \A u \in Updates : mode = "polling" ~> u \in answered \/ u < offset
=============================================================================
