-------------------------- MODULE TelegramUpdates_proofs --------------------------
(***************************************************************************)
(* Proofs about the stream of Telegram updates, for any number of updates, *)
(* requests, runs of the worker, attempts and faults: its type invariant,  *)
(* that no update is dropped, and that it implements OneShotUpdates.       *)
(***************************************************************************)
EXTENDS TelegramUpdates, WellFoundedInduction, TLAPS

On(p, u) == proc[p].update = u

(* Between the statement that started an update and the one that records   *)
(* its outcome.                                                             *)
Works(p) == proc[p].step \in {"dispatching", "finishing"}

(* What each kind of process can be doing.                                  *)
ProcessesFit ==
  \A p \in Processes :
    /\ At(p, "idle") => proc[p] = Idle
    /\ At(p, "enqueueing") => p \in Requests
    /\ proc[p].owns => p \in Runs
    /\ p \in Runs => ~At(p, "claiming")

(* The markers of a row, the acts of the bot, the job and the steps of the  *)
(* processes agree.                                                         *)
RowsFit ==
  /\ \A u \in Updates :
       /\ row[u] \in {"none", "claimed"} => dispatched[u] = 0
       /\ job[u].state # "none" => row[u] # "none"
  /\ \A p \in Processes :
       /\ At(p, "enqueueing") => row[proc[p].update] = "claimed"
                                 /\ job[proc[p].update].state = "none"
       /\ At(p, "starting") => row[proc[p].update] # "none"
       /\ At(p, "dispatching") => row[proc[p].update] = "started"
                                  /\ dispatched[proc[p].update] = 0
       /\ At(p, "finishing") => row[proc[p].update] = "started"
                                /\ dispatched[proc[p].update] = 1

(* Two processes on one update do not both work on it, do not both own its  *)
(* job, and while one hands it to the queue the other has yet to claim it.  *)
Exclusive ==
  \A p, q \in Processes :
    p # q /\ proc[p].update = proc[q].update =>
      /\ ~(Works(p) /\ Works(q))
      /\ ~(proc[p].owns /\ proc[q].owns)
      /\ At(p, "enqueueing") => At(q, "claiming")

(* An update no fault fell upon is in the hands its row tells of.           *)
Working(u) == \E p \in Processes : On(p, u) /\ Works(p)
Carried(u) == \E p \in Processes : On(p, u) /\ proc[p].step \in {"enqueueing", "starting"}
Owned(u)   == \E w \in Runs : On(w, u) /\ proc[w].owns
Custody ==
  \A u \in Updates \ hit :
    /\ row[u] = "started" => Working(u)
    /\ row[u] = "claimed" => job[u].state \in {"waiting", "active"} \/ Carried(u)
    /\ job[u].state = "active" => Owned(u)

(* The poller leaves no update behind its offset, or behind the rest of its *)
(* batch, that nobody claimed.                                              *)
Passed(v) == v \in Malformed \cup hit \/ row[v] # "none"
Stream ==
  /\ \A u \in answered : Passed(u)
  /\ \A v \in Updates : v < offset \/ (v \notin batch /\ \E w \in batch : v < w) => Passed(v)
  /\ mode # "polling" => batch = {} /\ At(Poller, "idle")
  /\ ~At(Poller, "idle") => batch # {} /\ On(Poller, Min(batch))

IInv == TypeOK /\ ProcessesFit /\ RowsFit /\ Exclusive /\ Custody /\ Stream

-----------------------------------------------------------------------------
(* Operators.                                                               *)

(* Min (FiniteSetsExt) of updates: it is one of them, and none is smaller.  *)
LEMMA MinIsLeast ==
  ASSUME NEW S \in SUBSET Updates, S # {}
  PROVE  Min(S) \in S /\ \A v \in S : Min(S) =< v
<1>1. S \subseteq Nat
  BY IdsAreNaturals DEF Updates
<1>2. PICK m \in S : \A v \in S : <<v, m>> \notin OpToRel(<, Nat)
  BY <1>1, NatLessThanWellFounded, WFMin
<1>3. \A x, y \in Nat : x < y => <<x, y>> \in OpToRel(<, Nat)
  BY DEF OpToRel
<1>4. \A v \in S : ~(v < m)
  BY <1>1, <1>2, <1>3
<1>5. \A v \in S : m =< v
  BY <1>1, <1>4
<1> QED
  BY <1>5 DEF Min

LEMMA Ids ==
  /\ LastUpdate \in Nat /\ Updates \in SUBSET Nat /\ NoUpdate \notin Updates
  /\ \A u \in Updates : u \in 1..LastUpdate /\ u + 1 \in 1..(LastUpdate + 1)
  BY IdsAreNaturals DEF Updates, NoUpdate

LEMMA Kinds ==
  /\ Poller \in Processes /\ Requests \subseteq Processes /\ Runs \subseteq Processes
  /\ Poller \notin Requests /\ Poller \notin Runs
  /\ \A r \in Requests : r \notin Runs
  BY ProcessesAreDisjoint DEF Processes, Poller

(* An idle process, and one that has just been given an update.             *)
LEMMA IdleIsProcess ==
  /\ Idle \in Process
  /\ Idle.step = "idle" /\ Idle.update = NoUpdate /\ Idle.owns = FALSE
  BY DEF Idle, Process, Steps

LEMMA ClaimingIsProcess ==
  ASSUME NEW u \in Updates, NEW r, r = [Idle EXCEPT !.step = "claiming", !.update = u]
  PROVE  r \in Process /\ r.step = "claiming" /\ r.update = u /\ r.owns = FALSE
  BY DEF Idle, Process, Steps

LEMMA FetchedIsProcess ==
  ASSUME NEW u \in Updates
  PROVE  LET r == [step |-> "starting", update |-> u, owns |-> TRUE]
         IN  r \in Process /\ r.step = "starting" /\ r.update = u /\ r.owns = TRUE
  BY DEF Process, Steps

LEMMA NoJobIsJob == NoJob \in Job /\ NoJob.state = "none"
  BY AttemptsArePositive DEF NoJob, Job, JobStates

(* A step that puts one process elsewhere.                                  *)
Others(p) == \A q \in Processes : q # p => proc'[q] = proc[q]

LEMMA PutFacts ==
  ASSUME proc \in [Processes -> Process], NEW p \in Processes, NEW r \in Process,
         proc' = [proc EXCEPT ![p] = r]
  PROVE  proc' \in [Processes -> Process] /\ proc'[p] = r /\ Others(p)
  BY DEF Others

LEMMA GotoFacts ==
  ASSUME proc \in [Processes -> Process], NEW p \in Processes, NEW s \in Steps, Goto(p, s)
  PROVE  /\ proc' \in [Processes -> Process] /\ Others(p)
         /\ proc'[p].step = s /\ proc'[p].update = proc[p].update
         /\ proc'[p].owns = proc[p].owns
  BY DEF Goto, Others, Process

LEMMA DisownFacts ==
  ASSUME proc \in [Processes -> Process], NEW p \in Processes,
         proc' = [proc EXCEPT ![p].owns = FALSE]
  PROVE  /\ proc' \in [Processes -> Process] /\ Others(p)
         /\ proc'[p].step = proc[p].step /\ proc'[p].update = proc[p].update
         /\ proc'[p].owns = FALSE
  BY DEF Others, Process

(* A step that writes one job.                                              *)
Elsewhere(u) == \A v \in Updates : v # u => job'[v] = job[v]

LEMMA RetriedFacts ==
  ASSUME NEW j \in Job
  PROVE  Retried(j) \in Job /\ Retried(j).state \in {"waiting", "failed"}
  BY AttemptsArePositive DEF Retried, Job, JobStates

LEMMA WriteFacts ==
  ASSUME job \in [Updates -> Job], NEW u \in Updates, NEW j \in Job,
         job' = [job EXCEPT ![u] = j]
  PROVE  job' \in [Updates -> Job] /\ job'[u] = j /\ Elsewhere(u)
  BY DEF Elsewhere

LEMMA MoveFacts ==
  ASSUME job \in [Updates -> Job], NEW u \in Updates, NEW s \in JobStates,
         job' = [job EXCEPT ![u].state = s]
  PROVE  job' \in [Updates -> Job] /\ job'[u].state = s /\ Elsewhere(u)
  BY DEF Elsewhere, Job

LEMMA SentFacts ==
  ASSUME job \in [Updates -> Job], NEW u \in Updates, job' = Sent(u)
  PROVE  job' \in [Updates -> Job] /\ job'[u].state = "waiting" /\ Elsewhere(u)
<1>1. [NoJob EXCEPT !.state = "waiting"] \in Job /\ [NoJob EXCEPT !.state = "waiting"].state = "waiting"
  BY AttemptsArePositive DEF NoJob, Job, JobStates
<1> QED
  BY <1>1, WriteFacts DEF Sent

(* The end of a process, by success or by failure: it is idle, and the job  *)
(* it owned is done, or waits for another attempt, or has failed.           *)
LEMMA EndFacts ==
  ASSUME TypeOK, NEW p \in Processes, ~At(p, "idle"), End(p)
  PROVE  /\ proc' \in [Processes -> Process] /\ proc'[p] = Idle /\ Others(p)
         /\ job' \in [Updates -> Job] /\ Elsewhere(proc[p].update)
         /\ proc[p].owns => job'[proc[p].update].state = "done"
         /\ ~proc[p].owns => job' = job
<1>1. proc' \in [Processes -> Process] /\ proc'[p] = Idle /\ Others(p)
  BY PutFacts, IdleIsProcess DEF End, TypeOK
<1>2. CASE proc[p].owns
  <2>1. job' = [job EXCEPT ![proc[p].update].state = "done"]
    BY <1>2 DEF End, Completed
  <2> QED
    BY <1>1, <1>2, <2>1, MoveFacts DEF TypeOK, JobStates
<1>3. CASE ~proc[p].owns
  <2>1. job' = job
    BY <1>3 DEF End, Completed
  <2> QED
    BY <1>1, <1>3, <2>1 DEF TypeOK, Elsewhere
<1> QED
  BY <1>2, <1>3

LEMMA ThrowFacts ==
  ASSUME TypeOK, NEW p \in Processes, ~At(p, "idle"), Throw(p)
  PROVE  /\ proc' \in [Processes -> Process] /\ proc'[p] = Idle /\ Others(p)
         /\ job' \in [Updates -> Job] /\ Elsewhere(proc[p].update)
         /\ proc[p].owns => job'[proc[p].update].state \in {"waiting", "failed"}
         /\ ~proc[p].owns => job' = job
<1>1. proc' \in [Processes -> Process] /\ proc'[p] = Idle /\ Others(p)
  BY PutFacts, IdleIsProcess DEF Throw, TypeOK
<1>2. CASE proc[p].owns
  <2>1. job' = [job EXCEPT ![proc[p].update] = Retried(job[proc[p].update])]
    BY <1>2 DEF Throw, Throws
  <2>2. job \in [Updates -> Job] /\ proc[p].update \in Updates
    BY DEF TypeOK
  <2>3. QED
    <3>1. PICK j \in Job : j = Retried(job[proc[p].update]) /\ j.state \in {"waiting", "failed"}
      BY <2>2, RetriedFacts
    <3>2. job' = [job EXCEPT ![proc[p].update] = j]
      BY <2>1, <3>1
    <3>3. /\ job' \in [Updates -> Job] /\ Elsewhere(proc[p].update)
          /\ job'[proc[p].update] = j
      BY <2>2, <3>2, WriteFacts
    <3>4. job'[proc[p].update].state \in {"waiting", "failed"}
      BY <3>1, <3>3
    <3> QED
      BY <1>1, <1>2, <3>3, <3>4
<1>3. CASE ~proc[p].owns
  <2>1. job' = job
    BY <1>3 DEF Throw, Throws
  <2> QED
    BY <1>1, <1>3, <2>1 DEF TypeOK, Elsewhere
<1> QED
  BY <1>2, <1>3

-----------------------------------------------------------------------------
(* The stream of the poller.                                                *)

(* A step that leaves the poller where it was, or idles it without letting  *)
(* go of its batch, and keeps what was passed.                              *)
LEMMA StreamKept ==
  ASSUME TypeOK, Stream, mode' = mode, offset' = offset, batch' = batch, hit \subseteq hit',
         \A u \in Updates : row[u] # "none" => row'[u] # "none",
         \A v \in answered' : v \in answered \/ (v \in Updates /\ row'[v] # "none"),
         ~At(Poller, "idle")' => ~At(Poller, "idle") /\ proc'[Poller].update = proc[Poller].update
  PROVE  Stream'
<1>1. \A v \in Updates : Passed(v) => Passed(v)'
  BY DEF Passed
<1>2. \A v \in answered' : Passed(v)'
  BY <1>1 DEF Stream, Passed, TypeOK
<1>3. \A v \in Updates : v < offset' \/ (v \notin batch' /\ \E w \in batch' : v < w) => Passed(v)'
  BY <1>1 DEF Stream
<1>4. (mode # "polling" => batch = {} /\ At(Poller, "idle"))'
  BY DEF Stream
<1>5. (~At(Poller, "idle") => batch # {} /\ On(Poller, Min(batch)))'
  BY DEF Stream, On
<1> QED
  BY <1>2, <1>3, <1>4, <1>5 DEF Stream

(* The poller drops its batch: it fails, or dies with its offset.           *)
LEMMA StreamDropped ==
  ASSUME TypeOK, Stream, mode' = mode, offset' \in {1, offset}, batch' = {}, hit \subseteq hit',
         \A u \in Updates : row[u] # "none" => row'[u] # "none",
         \A v \in answered' : v \in answered \/ (v \in Updates /\ row'[v] # "none"),
         At(Poller, "idle")'
  PROVE  Stream'
<1>1. \A v \in Updates : Passed(v) => Passed(v)'
  BY DEF Passed
<1>2. \A v \in answered' : Passed(v)'
  BY <1>1 DEF Stream, Passed, TypeOK
<1>3. \A v \in Updates : v < offset' => Passed(v)'
  BY <1>1, Ids DEF Stream
<1> QED
  BY <1>2, <1>3 DEF Stream

(* The poller is through with the first update of its batch.                *)
LEMMA StreamAdvanced ==
  ASSUME TypeOK, Stream, NEW u, u = Min(batch), batch # {}, Advance(u),
         mode' = mode, hit \subseteq hit',
         \A v \in Updates : row[v] # "none" => row'[v] # "none",
         \A v \in answered' : v \in answered \/ (v \in Updates /\ row'[v] # "none"),
         At(Poller, "idle")', Passed(u)'
  PROVE  Stream' /\ offset' \in 1..(LastUpdate + 1) /\ batch' \subseteq Updates
<1>1. \A v \in Updates : Passed(v) => Passed(v)'
  BY DEF Passed
<1>2. \A v \in answered' : Passed(v)'
  BY <1>1 DEF Stream, Passed, TypeOK
<1>3. u \in batch /\ (\A v \in batch : u =< v) /\ u \in Updates
  BY MinIsLeast DEF TypeOK
<1>4. offset' = u + 1 /\ batch' = batch \ {u} /\ Passed(u)'
  BY DEF Advance
<1>5. ASSUME NEW v \in Updates, v < offset' PROVE Passed(v)'
  <2>1. v \in Nat /\ u \in Nat
    BY <1>3, Ids
  <2>2. CASE v = u
    BY <1>4, <2>2 DEF Passed
  <2>3. CASE v # u
    <3>1. v < u
      BY <1>4, <1>5, <2>1, <2>3
    <3>2. v \notin batch
      BY <1>3, <2>1, <3>1
    <3> QED
      BY <1>1, <1>3, <3>1, <3>2 DEF Stream
  <2> QED
    BY <2>2, <2>3
<1>6. ASSUME NEW v \in Updates, v \notin batch', NEW w \in batch', v < w PROVE Passed(v)'
  <2>1. CASE v = u
    BY <1>4, <2>1 DEF Passed
  <2>2. CASE v # u
    BY <1>1, <1>4, <1>6, <2>2 DEF Stream
  <2> QED
    BY <2>1, <2>2
<1>7. (mode # "polling" => batch = {} /\ At(Poller, "idle"))'
  BY <1>4 DEF Stream
<1>8. offset' \in 1..(LastUpdate + 1) /\ batch' \subseteq Updates
  BY <1>3, <1>4, Ids DEF TypeOK
<1> QED
  BY <1>2, <1>5, <1>6, <1>7, <1>8 DEF Stream

-----------------------------------------------------------------------------
(* A step of one process on one update: what is left to show of the type    *)
(* invariant and of the custody of that update.                             *)

LEMMA TypeStep ==
  ASSUME TypeOK, ProcessesFit, NEW p \in Processes, NEW u \in Updates,
         mode' = mode, row' \in [Updates -> RowStates], answered' \subseteq Updates,
         proc' \in [Processes -> Process], Others(p),
         offset' \in 1..(LastUpdate + 1), batch' \subseteq Updates,
         job' \in [Updates -> Job], Elsewhere(u),
         dispatched' \in [Updates -> Nat], faults' \in Nat, hit' \subseteq Updates,
         proc'[p].step # "idle" => proc'[p].update = u,
         proc'[p].owns => proc'[p].update = u /\ job'[u].state = "active",
         \A w \in Runs : w # p /\ proc[w].owns /\ proc[w].update = u => job'[u].state = "active"
  PROVE  TypeOK'
<1>1. \A q \in Processes : ~At(q, "idle")' => proc'[q].update \in Updates
  BY DEF TypeOK, At, Others
<1>2. ASSUME NEW w \in Runs, proc'[w].owns PROVE job'[proc'[w].update].state = "active"
  <2>1. w \in Processes
    BY Kinds
  <2>2. CASE w = p
    BY <1>2, <2>2
  <2>3. CASE w # p
    <3>1. proc'[w] = proc[w] /\ proc[w].owns
      BY <1>2, <2>1, <2>3 DEF Others
    <3>2. job[proc[w].update].state = "active"
      BY <3>1 DEF TypeOK
    <3>3. CASE proc[w].update = u
      BY <2>3, <3>1, <3>3
    <3>4. CASE proc[w].update # u
      <4>1. ~At(w, "idle")
        BY <2>1, <3>1, IdleIsProcess DEF ProcessesFit
      <4>2. proc[w].update \in Updates
        BY <2>1, <4>1 DEF TypeOK
      <4> QED
        BY <3>1, <3>2, <3>4, <4>2 DEF Elsewhere
    <3> QED
      BY <3>3, <3>4
  <2> QED
    BY <2>2, <2>3
<1> QED
  BY <1>1, <1>2 DEF TypeOK

LEMMA CustodyStep ==
  ASSUME Custody, NEW p \in Processes, NEW u \in Updates, Others(p), Elsewhere(u),
         proc[p] = Idle \/ proc[p].update = u,
         \A v \in Updates : v # u => row'[v] = row[v],
         hit \subseteq hit',
         u \notin hit' =>
           /\ row'[u] = "started" => Working(u)'
           /\ row'[u] = "claimed" => job'[u].state \in {"waiting", "active"} \/ Carried(u)'
           /\ job'[u].state = "active" => Owned(u)'
  PROVE  Custody'
<1>1. ASSUME NEW v \in Updates \ hit', v # u
      PROVE  /\ row'[v] = "started" => Working(v)'
             /\ row'[v] = "claimed" => job'[v].state \in {"waiting", "active"} \/ Carried(v)'
             /\ job'[v].state = "active" => Owned(v)'
  <2>1. /\ row'[v] = row[v] /\ job'[v] = job[v]
        /\ row[v] = "started" => Working(v)
        /\ row[v] = "claimed" => job[v].state \in {"waiting", "active"} \/ Carried(v)
        /\ job[v].state = "active" => Owned(v)
    BY <1>1 DEF Custody, Elsewhere
  <2>2. \A q \in Processes : On(q, v) => proc'[q] = proc[q]
    BY <1>1, IdleIsProcess, Ids DEF Others, On
  <2>3. Working(v) => Working(v)'
    BY <2>2 DEF Working, Works, On
  <2>4. Carried(v) => Carried(v)'
    BY <2>2 DEF Carried, On
  <2>5. Owned(v) => Owned(v)'
    BY <2>2, Kinds DEF Owned, On
  <2> QED
    BY <2>1, <2>3, <2>4, <2>5
<1> QED
  BY <1>1 DEF Custody

LEMMA EndStream ==
  ASSUME TypeOK, Stream, NEW p \in Processes, NEW u, u = proc[p].update,
         ~At(p, "idle"), End(p), proc'[p] = Idle, Others(p), mode' = mode, hit \subseteq hit',
         \A v \in Updates : row[v] # "none" => row'[v] # "none",
         \A v \in answered' : v \in answered \/ (v \in Updates /\ row'[v] # "none"),
         Passed(u)'
  PROVE  Stream' /\ offset' \in 1..(LastUpdate + 1) /\ batch' \subseteq Updates
<1>1. CASE p = Poller
  <2>1. batch # {} /\ u = Min(batch)
    BY <1>1 DEF Stream, On
  <2>2. Advance(u) /\ At(Poller, "idle")'
    BY <1>1, IdleIsProcess DEF End, At
  <2> QED
    BY <2>1, <2>2, StreamAdvanced
<1>2. CASE p # Poller
  <2>1. UNCHANGED <<offset, batch>>
    BY <1>2 DEF End
  <2>2. proc'[Poller] = proc[Poller]
    BY <1>2, Kinds DEF Others
  <2>3. Stream'
    BY <2>1, <2>2, StreamKept DEF At
  <2> QED
    BY <2>1, <2>3 DEF TypeOK
<1> QED
  BY <1>1, <1>2

LEMMA ThrowStream ==
  ASSUME TypeOK, Stream, NEW p \in Processes,
         Throw(p), proc'[p] = Idle, Others(p), mode' = mode, hit \subseteq hit',
         \A v \in Updates : row[v] # "none" => row'[v] # "none", answered' = answered
  PROVE  Stream' /\ offset' \in 1..(LastUpdate + 1) /\ batch' \subseteq Updates
<1>1. CASE p = Poller
  <2>1. batch' = {} /\ offset' = offset /\ At(Poller, "idle")'
    BY <1>1, IdleIsProcess DEF Throw, At
  <2> QED
    BY <2>1, StreamDropped DEF TypeOK
<1>2. CASE p # Poller
  <2>1. UNCHANGED <<offset, batch>>
    BY <1>2 DEF Throw
  <2>2. proc'[Poller] = proc[Poller]
    BY <1>2, Kinds DEF Others
  <2>3. Stream'
    BY <2>1, <2>2, StreamKept DEF At
  <2> QED
    BY <2>1, <2>3 DEF TypeOK
<1> QED
  BY <1>1, <1>2

-----------------------------------------------------------------------------
(* The actions.                                                             *)

(* A process that ends leaves no one else's update behind: it had nothing   *)
(* left to do on its own.                                                   *)
LEMMA EndKeepsIInv ==
  ASSUME IInv, NEW p \in Processes, NEW u \in Updates, u = proc[p].update,
         ~At(p, "idle"), End(p), mode' = mode, dispatched' = dispatched,
         faults' \in Nat, hit \subseteq hit', hit' \subseteq Updates,
         row' \in [Updates -> RowStates], \A v \in Updates : v # u => row'[v] = row[v],
         row'[u] = row[u] \/ (At(p, "finishing") /\ row'[u] = "processed"),
         row'[u] # "none", answered' \subseteq answered \cup {u},
         u \notin hit' => /\ row'[u] = "started" => ~Works(p)
                          /\ row'[u] = "claimed" => At(p, "claiming")
  PROVE  IInv'
<1>1. TypeOK /\ ProcessesFit /\ RowsFit /\ Exclusive /\ Custody /\ Stream
  BY DEF IInv
<1>2. /\ proc' \in [Processes -> Process] /\ proc'[p] = Idle /\ Others(p)
      /\ job' \in [Updates -> Job] /\ Elsewhere(u)
      /\ proc[p].owns => job'[u].state = "done"
      /\ ~proc[p].owns => job' = job
  BY <1>1, EndFacts
<1>3. \A v \in Updates : row[v] # "none" => row'[v] # "none"
  OBVIOUS
<1>4. Stream' /\ offset' \in 1..(LastUpdate + 1) /\ batch' \subseteq Updates
  <2>1. Passed(u)' /\ \A v \in answered' : v \in answered \/ (v \in Updates /\ row'[v] # "none")
    BY DEF Passed
  <2> QED
    BY <1>1, <1>2, <1>3, <2>1, EndStream
<1>5. \A q \in Processes : q # p /\ proc[q].update = u => ~(proc[q].owns /\ proc[p].owns)
  BY <1>1 DEF Exclusive
<1>6. TypeOK'
  <2>1. \A w \in Runs : w # p /\ proc[w].owns /\ proc[w].update = u => job'[u].state = "active"
    BY <1>1, <1>2, <1>5, Kinds DEF TypeOK
  <2>2. /\ mode' = mode /\ answered' \subseteq Updates /\ dispatched' \in [Updates -> Nat]
    BY <1>1 DEF TypeOK
  <2> QED
    BY <1>1, <1>2, <1>4, <2>1, <2>2, TypeStep, IdleIsProcess
<1>7. ProcessesFit'
  BY <1>1, <1>2, IdleIsProcess DEF ProcessesFit, At, Others
<1>8. Exclusive'
  <2>1. \A q \in Processes : At(q, "enqueueing") => proc[q].update # NoUpdate
    BY <1>1, Ids DEF TypeOK, At
  <2> QED
    BY <1>1, <1>2, <2>1, IdleIsProcess DEF Exclusive, At, Works, Others
<1>9. RowsFit'
  <2>1. ASSUME NEW v \in Updates
        PROVE  /\ row'[v] \in {"none", "claimed"} => dispatched'[v] = 0
               /\ job'[v].state # "none" => row'[v] # "none"
    BY <1>1, <1>2 DEF RowsFit, Elsewhere
  <2>2. ASSUME NEW q \in Processes, q # p, proc[q].update = u
        PROVE  /\ At(q, "enqueueing") => row'[u] = row[u] /\ ~proc[p].owns
               /\ At(q, "dispatching") \/ At(q, "finishing") => row'[u] = row[u]
    BY <1>1, <2>2 DEF Exclusive, At, Works, ProcessesFit
  <2>3. ASSUME NEW q \in Processes, q # p, proc[q].update \in Updates
        PROVE  /\ At(q, "enqueueing") => row'[proc[q].update] = "claimed"
                                          /\ job'[proc[q].update].state = "none"
               /\ At(q, "starting") => row'[proc[q].update] # "none"
               /\ At(q, "dispatching") => row'[proc[q].update] = "started"
                                           /\ dispatched'[proc[q].update] = 0
               /\ At(q, "finishing") => row'[proc[q].update] = "started"
                                         /\ dispatched'[proc[q].update] = 1
    BY <1>1, <1>2, <2>2, <2>3 DEF RowsFit, Elsewhere
  <2>4. \A q \in Processes : ~At(q, "idle") => proc[q].update \in Updates
    BY <1>1 DEF TypeOK
  <2> QED
    BY <1>2, <2>1, <2>3, <2>4, IdleIsProcess DEF RowsFit, At, Others
<1>10. Custody'
  <2>1. ASSUME u \notin hit', row'[u] = "started" PROVE Working(u)'
    <3>1. row[u] = "started" /\ ~Works(p)
      BY <2>1
    <3>2. PICK q \in Processes : On(q, u) /\ Works(q)
      BY <1>1, <2>1, <3>1 DEF Custody, Working
    <3> QED
      BY <1>2, <3>1, <3>2 DEF Working, Works, On, Others
  <2>2. ASSUME u \notin hit', row'[u] = "claimed"
        PROVE  job'[u].state \in {"waiting", "active"} \/ Carried(u)'
    <3>1. row[u] = "claimed" /\ At(p, "claiming")
      BY <2>2
    <3>2. job' = job
      BY <1>1, <1>2, <3>1 DEF ProcessesFit
    <3>3. Carried(u) => Carried(u)'
      BY <1>2, <3>1 DEF Carried, On, At, Others
    <3> QED
      BY <1>1, <2>2, <3>1, <3>2, <3>3 DEF Custody
  <2>3. ASSUME u \notin hit', job'[u].state = "active" PROVE Owned(u)'
    <3>1. ~proc[p].owns /\ job[u].state = "active"
      BY <1>2, <2>3
    <3>2. PICK w \in Runs : On(w, u) /\ proc[w].owns
      BY <1>1, <2>3, <3>1 DEF Custody, Owned
    <3> QED
      BY <1>2, <3>1, <3>2, Kinds DEF Owned, On, Others
  <2> QED
    BY <1>1, <1>2, <2>1, <2>2, <2>3, CustodyStep
<1> QED
  BY <1>4, <1>6, <1>7, <1>8, <1>9, <1>10 DEF IInv

LEMMA DeliverKeepsIInv ==
  ASSUME IInv, NEW r \in Requests, NEW u \in Updates, Deliver(r, u)
  PROVE  IInv'
<1>1. TypeOK /\ ProcessesFit /\ RowsFit /\ Exclusive /\ Custody /\ Stream
  BY DEF IInv
<1>2. /\ proc' \in [Processes -> Process] /\ Others(r) /\ r \in Processes
      /\ proc'[r].step = "claiming" /\ proc'[r].update = u /\ proc'[r].owns = FALSE
  BY <1>1, PutFacts, ClaimingIsProcess, Kinds, ZenonT(40) DEF Deliver, TypeOK
<1>3. /\ r \notin Runs /\ r # Poller /\ proc[r] = Idle
  BY <1>1, <1>2, Kinds DEF Deliver, ProcessesFit
<1>4. UNCHANGED <<mode, row, answered, offset, batch, job, dispatched, faults, hit>>
  BY DEF Deliver, NoFault
<1>5. TypeOK'
  <2>1. Elsewhere(u) /\ \A w \in Runs : proc[w].owns => job'[proc[w].update].state = "active"
    BY <1>1, <1>4 DEF Elsewhere, TypeOK
  <2>2. \A w \in Runs : w # r /\ proc[w].owns /\ proc[w].update = u => job'[u].state = "active"
    BY <2>1
  <2> QED
    BY <1>1, <1>2, <1>4, <2>1, <2>2, TypeStep DEF TypeOK
<1>6. ProcessesFit'
  BY <1>1, <1>2, <1>3, <1>4 DEF ProcessesFit, At, Others
<1>7. RowsFit'
  BY <1>1, <1>2, <1>3, <1>4 DEF RowsFit, At, Others
<1>8. Exclusive'
  BY <1>1, <1>2, <1>3, <1>4 DEF Exclusive, At, Works, Others
<1>9. Custody'
  <2>1. \A q \in Processes : On(q, u) => proc'[q] = proc[q]
    BY <1>2, <1>3, IdleIsProcess, Ids DEF Others, On
  <2>2. (Working(u) => Working(u)') /\ (Carried(u) => Carried(u)') /\ (Owned(u) => Owned(u)')
    BY <2>1, Kinds DEF Working, Works, Carried, Owned, On
  <2>3. Elsewhere(u)
    BY <1>4 DEF Elsewhere
  <2> QED
    BY <1>1, <1>2, <1>3, <1>4, <2>2, <2>3, CustodyStep DEF Custody
<1>10. Stream'
  BY <1>1, <1>2, <1>3, <1>4, StreamKept, Kinds DEF Others, At
<1> QED
  BY <1>5, <1>6, <1>7, <1>8, <1>9, <1>10 DEF IInv

(* A process that fails at a claim or a start does so with a fault upon its *)
(* update, or before its statement took effect and with no claim of its own. *)
LEMMA ThrowKeepsIInv ==
  ASSUME IInv, NEW p \in Processes, NEW u \in Updates, u = proc[p].update,
         At(p, "claiming") \/ At(p, "starting"), Throw(p), mode' = mode,
         dispatched' = dispatched, answered' = answered,
         faults' \in Nat, hit \subseteq hit', hit' \subseteq Updates,
         row' \in [Updates -> RowStates], \A v \in Updates : v # u => row'[v] = row[v],
         \/ row'[u] = row[u]
         \/ row[u] = "none" /\ row'[u] = "claimed"
         \/ row[u] = "claimed" /\ row'[u] = "started" /\ At(p, "starting"),
         u \in hit' \/ (row'[u] = row[u] /\ At(p, "claiming"))
  PROVE  IInv'
<1>1. TypeOK /\ ProcessesFit /\ RowsFit /\ Exclusive /\ Custody /\ Stream
  BY DEF IInv
<1>2. /\ proc' \in [Processes -> Process] /\ proc'[p] = Idle /\ Others(p)
      /\ job' \in [Updates -> Job] /\ Elsewhere(u)
      /\ proc[p].owns => job'[u].state \in {"waiting", "failed"}
      /\ ~proc[p].owns => job' = job
  BY <1>1, ThrowFacts DEF At
<1>3. Stream' /\ offset' \in 1..(LastUpdate + 1) /\ batch' \subseteq Updates
  <2>1. \A v \in Updates : row[v] # "none" => row'[v] # "none"
    OBVIOUS
  <2> QED
    BY <1>1, <1>2, <2>1, ThrowStream
<1>4. TypeOK'
  <2>1. \A q \in Processes : q # p /\ proc[q].update = u => ~(proc[q].owns /\ proc[p].owns)
    BY <1>1 DEF Exclusive
  <2>2. \A w \in Runs : w # p /\ proc[w].owns /\ proc[w].update = u => job'[u].state = "active"
    BY <1>1, <1>2, <2>1, Kinds DEF TypeOK
  <2>3. answered' \subseteq Updates /\ dispatched' \in [Updates -> Nat]
    BY <1>1 DEF TypeOK
  <2> QED
    BY <1>1, <1>2, <1>3, <2>2, <2>3, TypeStep, IdleIsProcess
<1>5. ProcessesFit'
  BY <1>1, <1>2, IdleIsProcess DEF ProcessesFit, At, Others
<1>6. Exclusive'
  <2>1. \A q \in Processes : At(q, "enqueueing") => proc[q].update # NoUpdate
    BY <1>1, Ids DEF TypeOK, At
  <2> QED
    BY <1>1, <1>2, <2>1, IdleIsProcess DEF Exclusive, At, Works, Others
<1>7. RowsFit'
  <2>1. ~proc[p].owns \/ row[u] # "none"
    BY <1>1, Kinds DEF ProcessesFit, RowsFit
  <2>2. ASSUME NEW v \in Updates
        PROVE  /\ row'[v] \in {"none", "claimed"} => dispatched'[v] = 0
               /\ job'[v].state # "none" => row'[v] # "none"
    BY <1>1, <1>2, <2>1 DEF RowsFit, Elsewhere
  <2>3. ASSUME NEW q \in Processes, q # p, proc[q].update = u
        PROVE  At(q, "enqueueing") => row'[u] = row[u] /\ ~proc[p].owns
    <3>1. At(q, "enqueueing") => At(p, "claiming") /\ row[u] = "claimed"
      BY <1>1, <2>3 DEF Exclusive, RowsFit
    <3> QED
      BY <1>1, <3>1 DEF ProcessesFit, At
  <2>4. ASSUME NEW q \in Processes, q # p, proc[q].update \in Updates
        PROVE  /\ At(q, "enqueueing") => row'[proc[q].update] = "claimed"
                                          /\ job'[proc[q].update].state = "none"
               /\ At(q, "starting") => row'[proc[q].update] # "none"
               /\ At(q, "dispatching") => row'[proc[q].update] = "started"
                                           /\ dispatched'[proc[q].update] = 0
               /\ At(q, "finishing") => row'[proc[q].update] = "started"
                                         /\ dispatched'[proc[q].update] = 1
    BY <1>1, <1>2, <2>3, <2>4 DEF RowsFit, Elsewhere
  <2>5. \A q \in Processes : ~At(q, "idle") => proc[q].update \in Updates
    BY <1>1 DEF TypeOK
  <2> QED
    BY <1>2, <2>2, <2>4, <2>5, IdleIsProcess DEF RowsFit, At, Others
<1>8. Custody'
  <2>1. ASSUME u \notin hit'
        PROVE  row'[u] = row[u] /\ job' = job /\ At(p, "claiming")
    BY <1>1, <1>2, <2>1 DEF ProcessesFit, At
  <2>2. ASSUME At(p, "claiming")
        PROVE  /\ Working(u) => Working(u)'
               /\ Carried(u) => Carried(u)'
               /\ Owned(u) => Owned(u)'
    BY <1>1, <1>2, <2>2, Kinds DEF Working, Works, Carried, Owned, On, Others, At, ProcessesFit
  <2> QED
    BY <1>1, <1>2, <2>1, <2>2, CustodyStep DEF Custody
<1> QED
  BY <1>3, <1>4, <1>5, <1>6, <1>7, <1>8 DEF IInv

LEMMA ClaimKeepsIInv ==
  ASSUME IInv, NEW p \in Processes, Claim(p)
  PROVE  IInv'
<1>1. TypeOK /\ ProcessesFit /\ RowsFit /\ Exclusive /\ Custody /\ Stream
  BY DEF IInv
<1>2. PICK u \in Updates : u = proc[p].update
  BY <1>1 DEF Claim, TypeOK, At
<1>3. /\ At(p, "claiming") /\ ~At(p, "idle") /\ p \notin Runs /\ ~proc[p].owns
      /\ row' = Claimed(u) /\ UNCHANGED <<mode, dispatched, faults, hit>>
      /\ answered' \subseteq answered \cup {u}
  BY <1>1, <1>2 DEF Claim, NoFault, ProcessesFit, At
<1>4. /\ row' \in [Updates -> RowStates] /\ row'[u] # "none"
      /\ row'[u] = IF row[u] = "none" THEN "claimed" ELSE row[u]
      /\ \A v \in Updates : v # u => row'[v] = row[v]
  BY <1>1, <1>3 DEF Claimed, TypeOK, RowStates
<1>5. CASE row[u] # "none"
  <2>1. End(p)
    BY <1>2, <1>5 DEF Claim
  <2>2. row'[u] = row[u] /\ ~Works(p)
    BY <1>3, <1>4, <1>5 DEF Works, At
  <2>3. faults' \in Nat /\ hit \subseteq hit' /\ hit' \subseteq Updates
    BY <1>1, <1>3 DEF TypeOK
  <2> QED
    BY <1>2, <1>3, <1>4, <2>1, <2>2, <2>3, EndKeepsIInv
<1>6. CASE row[u] = "none"
  <2>1. Goto(p, AfterClaim) /\ UNCHANGED <<offset, batch, job>>
    BY <1>2, <1>6 DEF Claim
  <2>2. AfterClaim \in Steps /\ AfterClaim \in {"enqueueing", "starting"}
    BY DEF AfterClaim, Steps
  <2>3. /\ proc' \in [Processes -> Process] /\ Others(p)
        /\ proc'[p].step = AfterClaim /\ proc'[p].update = u /\ proc'[p].owns = proc[p].owns
    BY <1>1, <1>2, <2>1, <2>2, GotoFacts DEF TypeOK
  <2>4. AfterClaim = "enqueueing" => p \in Requests
    BY <1>1, <1>3, Kinds DEF AfterClaim, Stream, At, Processes, Poller
  <2>5. job[u].state = "none" /\ dispatched[u] = 0
    BY <1>1, <1>6 DEF RowsFit
  <2>6. \A q \in Processes : q # p /\ proc[q].update = u => At(q, "claiming")
    BY <1>1, <1>2, <1>6, Ids, IdleIsProcess
       DEF RowsFit, TypeOK, ProcessesFit, Process, Steps, At
  <2>7. TypeOK'
    <3>1. Elsewhere(u) /\ \A w \in Runs : ~(proc[w].owns /\ proc[w].update = u)
      BY <1>1, <2>1, <2>5 DEF Elsewhere, TypeOK
    <3> QED
      BY <1>1, <1>3, <1>4, <2>1, <2>3, <3>1, TypeStep DEF TypeOK
  <2>8. ProcessesFit'
    BY <1>1, <1>3, <2>2, <2>3, <2>4 DEF ProcessesFit, At, Others
  <2>9. Exclusive'
    BY <1>1, <1>3, <2>2, <2>3, <2>6 DEF Exclusive, At, Works, Others
  <2>10. RowsFit'
    <3>1. ASSUME NEW q \in Processes, q # p, proc[q].update # u
          PROVE  row'[proc[q].update] = row[proc[q].update] \/ At(q, "idle")
      BY <1>1, <1>4, <3>1 DEF TypeOK
    <3> QED
      BY <1>1, <1>3, <1>4, <1>6, <2>1, <2>2, <2>3, <2>5, <2>6, <3>1 DEF RowsFit, At, Others
  <2>11. Custody'
    <3>1. Carried(u)'
      BY <2>2, <2>3 DEF Carried, On
    <3>2. Elsewhere(u)
      BY <2>1 DEF Elsewhere
    <3> QED
      BY <1>1, <1>2, <1>3, <1>4, <1>6, <2>1, <2>3, <2>5, <3>1, <3>2, CustodyStep
  <2>12. Stream'
    <3>1. \A v \in answered' : v \in answered \/ (v \in Updates /\ row'[v] # "none")
      BY <1>3, <1>4
    <3>2. ~At(Poller, "idle")' => ~At(Poller, "idle") /\ proc'[Poller].update = proc[Poller].update
      BY <1>2, <1>3, <2>3, Kinds DEF At, Others
    <3> QED
      BY <1>1, <1>3, <1>4, <1>6, <2>1, <3>1, <3>2, StreamKept
  <2> QED
    BY <2>7, <2>8, <2>9, <2>10, <2>11, <2>12 DEF IInv
<1> QED
  BY <1>5, <1>6

LEMMA ClaimFailsKeepsIInv ==
  ASSUME IInv, NEW p \in Processes, ClaimFails(p)
  PROVE  IInv'
<1>1. TypeOK
  BY DEF IInv
<1>2. PICK u \in Updates : u = proc[p].update
  BY <1>1 DEF ClaimFails, TypeOK, At
<1>3. /\ At(p, "claiming") /\ Throw(p) /\ row' \in {row, Claimed(u)}
      /\ UNCHANGED <<mode, answered, dispatched>>
      /\ faults' = faults + 1 /\ hit' = hit \cup (IF row' = row THEN {} ELSE {u})
  BY <1>2 DEF ClaimFails, Fault
<1>4. faults' \in Nat /\ hit \subseteq hit' /\ hit' \subseteq Updates
  BY <1>1, <1>3 DEF TypeOK
<1>5. /\ row' \in [Updates -> RowStates] /\ \A v \in Updates : v # u => row'[v] = row[v]
      /\ row'[u] = row[u] \/ (row[u] = "none" /\ row'[u] = "claimed")
  BY <1>1, <1>3 DEF Claimed, TypeOK, RowStates
<1>6. u \in hit' \/ row'[u] = row[u]
  BY <1>3
<1> QED
  BY <1>2, <1>3, <1>4, <1>5, <1>6, ThrowKeepsIInv

(* Whatever became of the call to the queue, the job is stored or the       *)
(* process that claimed the update starts on it.                            *)
LEMMA HandoverKeepsIInv ==
  ASSUME IInv, NEW r \in Processes, NEW u \in Updates, u = proc[r].update, At(r, "enqueueing"),
         UNCHANGED <<mode, row, offset, batch, dispatched, hit>>, faults' \in Nat,
         answered' = answered \cup {u},
         proc' \in [Processes -> Process], Others(r),
         proc'[r] = Idle \/ (/\ proc'[r].step = "starting" /\ proc'[r].update = u
                             /\ proc'[r].owns = proc[r].owns),
         job' = Sent(u) \/ (job' = job /\ proc'[r].step = "starting")
  PROVE  IInv'
<1>1. TypeOK /\ ProcessesFit /\ RowsFit /\ Exclusive /\ Custody /\ Stream
  BY DEF IInv
<1>2. /\ r \in Requests /\ r \notin Runs /\ r # Poller /\ ~proc[r].owns
      /\ row[u] = "claimed" /\ job[u].state = "none"
  BY <1>1, Kinds DEF ProcessesFit, RowsFit
<1>3. job' \in [Updates -> Job] /\ Elsewhere(u) /\ job'[u].state \in {"none", "waiting"}
  BY <1>1, <1>2, SentFacts DEF TypeOK, Elsewhere
<1>4. job'[u].state = "waiting" \/ proc'[r].step = "starting"
  BY <1>1, SentFacts DEF TypeOK
<1>5. \A q \in Processes : q # r /\ proc[q].update = u => At(q, "claiming")
  BY <1>1 DEF Exclusive
<1>6. ~proc'[r].owns /\ proc'[r].step \in {"idle", "starting"} /\ (proc'[r] = Idle \/ proc'[r].update = u)
  BY <1>2, IdleIsProcess
<1>7. TypeOK'
  <2>1. \A w \in Runs : ~(proc[w].owns /\ proc[w].update = u)
    BY <1>1, <1>2 DEF TypeOK
  <2> QED
    BY <1>1, <1>3, <1>6, <2>1, TypeStep, IdleIsProcess DEF TypeOK
<1>8. ProcessesFit'
  BY <1>1, <1>2, <1>6, IdleIsProcess DEF ProcessesFit, At, Others
<1>9. Exclusive'
  BY <1>1, <1>5, <1>6, IdleIsProcess, Ids DEF Exclusive, At, Works, Others, TypeOK
<1>10. RowsFit'
  <2>1. \A v \in Updates : job'[v].state # "none" => row'[v] # "none"
    BY <1>1, <1>2, <1>3 DEF RowsFit, Elsewhere
  <2>2. ASSUME NEW q \in Processes, q # r, At(q, "enqueueing")
        PROVE  job'[proc[q].update] = job[proc[q].update]
    BY <1>1, <1>3, <1>5, <2>2 DEF TypeOK, Elsewhere, At
  <2> QED
    BY <1>1, <1>2, <1>6, <2>1, <2>2, IdleIsProcess DEF RowsFit, At, Others
<1>11. Custody'
  <2>1. job'[u].state \in {"waiting", "active"} \/ Carried(u)'
    BY <1>3, <1>4, <1>6, IdleIsProcess DEF Carried, On
  <2> QED
    BY <1>1, <1>2, <1>3, <2>1, CustodyStep
<1>12. Stream'
  <2>1. proc'[Poller] = proc[Poller]
    BY <1>2, Kinds DEF Others
  <2>2. \A v \in answered' : v \in answered \/ (v \in Updates /\ row'[v] # "none")
    BY <1>2
  <2> QED
    BY <1>1, <2>1, <2>2, StreamKept DEF At
<1> QED
  BY <1>7, <1>8, <1>9, <1>10, <1>11, <1>12 DEF IInv

LEMMA EnqueueKeepsIInv ==
  ASSUME IInv, NEW p \in Processes, Enqueue(p) \/ EnqueueFails(p)
  PROVE  IInv'
<1>1. TypeOK
  BY DEF IInv
<1>2. At(p, "enqueueing")
  BY DEF Enqueue, EnqueueFails
<1>3. PICK u \in Updates : u = proc[p].update
  BY <1>1, <1>2 DEF TypeOK, At
<1>4. CASE Enqueue(p)
  <2>1. /\ UNCHANGED <<mode, row, offset, batch, dispatched, faults, hit>>
        /\ answered' = answered \cup {u} /\ job' = Sent(u)
        /\ proc' = [proc EXCEPT ![p] = Idle]
    BY <1>3, <1>4 DEF Enqueue, NoFault
  <2>2. proc' \in [Processes -> Process] /\ Others(p) /\ proc'[p] = Idle
    BY <1>1, <2>1, PutFacts, IdleIsProcess DEF TypeOK
  <2>3. faults' \in Nat
    BY <1>1, <2>1 DEF TypeOK
  <2> QED
    BY <1>2, <1>3, <2>1, <2>2, <2>3, HandoverKeepsIInv
<1>5. CASE EnqueueFails(p)
  <2>1. /\ UNCHANGED <<mode, row, offset, batch, dispatched, hit>>
        /\ answered' = answered \cup {u} /\ (job' = Sent(u) \/ job' = job)
        /\ faults' = faults + 1 /\ Goto(p, "starting")
    BY <1>3, <1>5 DEF EnqueueFails, Fault, FallBack
  <2>2. /\ proc' \in [Processes -> Process] /\ Others(p)
        /\ proc'[p].step = "starting" /\ proc'[p].update = u /\ proc'[p].owns = proc[p].owns
    BY <1>1, <1>3, <2>1, GotoFacts DEF TypeOK, Steps
  <2>3. faults' \in Nat
    BY <1>1, <2>1 DEF TypeOK
  <2> QED
    BY <1>2, <1>3, <2>1, <2>2, <2>3, HandoverKeepsIInv
<1> QED
  BY <1>4, <1>5

LEMMA BeginKeepsIInv ==
  ASSUME IInv, NEW p \in Processes, BeginUpdateProcessing(p)
  PROVE  IInv'
<1>1. TypeOK /\ ProcessesFit /\ RowsFit /\ Exclusive /\ Custody /\ Stream
  BY DEF IInv
<1>2. PICK u \in Updates : u = proc[p].update
  BY <1>1 DEF BeginUpdateProcessing, TypeOK, At
<1>3. /\ At(p, "starting") /\ ~At(p, "idle") /\ row[u] # "none"
      /\ row' = Started(u) /\ UNCHANGED <<mode, answered, dispatched, faults, hit>>
  BY <1>1, <1>2 DEF BeginUpdateProcessing, NoFault, RowsFit, At
<1>4. CASE row[u] # "claimed"
  <2>1. row' = row /\ End(p)
    BY <1>2, <1>3, <1>4 DEF BeginUpdateProcessing, Started, Startable
  <2>2. ~Works(p)
    BY <1>3 DEF At, Works
  <2>3. faults' \in Nat /\ hit' \subseteq Updates /\ row' \in [Updates -> RowStates]
    BY <1>1, <1>3, <2>1 DEF TypeOK
  <2> QED
    BY <1>2, <1>3, <1>4, <2>1, <2>2, <2>3, EndKeepsIInv
<1>5. CASE row[u] = "claimed"
  <2>1. /\ row' = [row EXCEPT ![u] = "started"] /\ Goto(p, "dispatching")
        /\ UNCHANGED <<offset, batch, job>>
    BY <1>2, <1>3, <1>5 DEF BeginUpdateProcessing, Started, Startable
  <2>2. /\ row' \in [Updates -> RowStates] /\ row'[u] = "started"
        /\ \A v \in Updates : v # u => row'[v] = row[v]
    BY <1>1, <2>1 DEF TypeOK, RowStates
  <2>3. /\ proc' \in [Processes -> Process] /\ Others(p)
        /\ proc'[p].step = "dispatching" /\ proc'[p].update = u /\ proc'[p].owns = proc[p].owns
    BY <1>1, <1>2, <2>1, GotoFacts DEF TypeOK, Steps
  <2>4. \A q \in Processes : q # p /\ proc[q].update = u => ~Works(q) /\ ~At(q, "enqueueing")
    BY <1>1, <1>2, <1>3, <1>5 DEF RowsFit, Exclusive, At, Works
  <2>5. TypeOK'
    <3>1. Elsewhere(u) /\ \A w \in Runs : proc[w].owns => job'[proc[w].update].state = "active"
      BY <1>1, <2>1 DEF Elsewhere, TypeOK
    <3>2. proc'[p].owns => job'[u].state = "active"
      BY <1>1, <1>2, <2>3, <3>1 DEF ProcessesFit
    <3> QED
      BY <1>1, <1>3, <2>1, <2>2, <2>3, <3>1, <3>2, TypeStep DEF TypeOK
  <2>6. ProcessesFit'
    BY <1>1, <2>3 DEF ProcessesFit, At, Others
  <2>7. Exclusive'
    BY <1>1, <1>2, <2>3, <2>4 DEF Exclusive, At, Works, Others
  <2>8. RowsFit'
    <3>1. ASSUME NEW q \in Processes, q # p, proc[q].update # u
          PROVE  row'[proc[q].update] = row[proc[q].update] \/ At(q, "idle")
      BY <1>1, <2>2, <3>1 DEF TypeOK
    <3>2. dispatched[u] = 0
      BY <1>1, <1>5 DEF RowsFit
    <3> QED
      BY <1>1, <1>3, <2>1, <2>2, <2>3, <2>4, <3>1, <3>2 DEF RowsFit, At, Works, Others
  <2>9. Custody'
    <3>1. Working(u)'
      BY <2>3 DEF Working, Works, On
    <3>2. Elsewhere(u) /\ (Owned(u) => Owned(u)')
      BY <1>2, <2>1, <2>3, Kinds DEF Elsewhere, Owned, On, Others
    <3> QED
      BY <1>1, <1>2, <1>3, <2>1, <2>2, <2>3, <3>1, <3>2, CustodyStep DEF Custody
  <2>10. Stream'
    <3>1. ~At(Poller, "idle")' => ~At(Poller, "idle") /\ proc'[Poller].update = proc[Poller].update
      BY <1>2, <1>3, <2>3, Kinds DEF At, Others
    <3> QED
      BY <1>1, <1>3, <2>1, <2>2, <3>1, StreamKept DEF Stream, TypeOK
  <2> QED
    BY <2>5, <2>6, <2>7, <2>8, <2>9, <2>10 DEF IInv
<1> QED
  BY <1>4, <1>5

LEMMA BeginFailsKeepsIInv ==
  ASSUME IInv, NEW p \in Processes, BeginFails(p)
  PROVE  IInv'
<1>1. TypeOK
  BY DEF IInv
<1>2. PICK u \in Updates : u = proc[p].update
  BY <1>1 DEF BeginFails, TypeOK, At
<1>3. /\ At(p, "starting") /\ Throw(p) /\ row' \in {row, Started(u)}
      /\ UNCHANGED <<mode, answered, dispatched>>
      /\ faults' = faults + 1 /\ hit' = hit \cup {u}
  BY <1>2 DEF BeginFails, Fault
<1>4. faults' \in Nat /\ hit \subseteq hit' /\ hit' \subseteq Updates /\ u \in hit'
  BY <1>1, <1>3 DEF TypeOK
<1>5. /\ row' \in [Updates -> RowStates] /\ \A v \in Updates : v # u => row'[v] = row[v]
      /\ row'[u] = row[u] \/ (row[u] = "claimed" /\ row'[u] = "started")
  BY <1>1, <1>3 DEF Started, Startable, TypeOK, RowStates
<1> QED
  BY <1>2, <1>3, <1>4, <1>5, ThrowKeepsIInv

LEMMA DispatchKeepsIInv ==
  ASSUME IInv, NEW p \in Processes, Dispatch(p)
  PROVE  IInv'
<1>1. TypeOK /\ ProcessesFit /\ RowsFit /\ Exclusive /\ Custody /\ Stream
  BY DEF IInv
<1>2. PICK u \in Updates : u = proc[p].update
  BY <1>1 DEF Dispatch, TypeOK, At
<1>3. /\ At(p, "dispatching") /\ Goto(p, "finishing") /\ row[u] = "started" /\ dispatched[u] = 0
      /\ dispatched' = [dispatched EXCEPT ![u] = @ + 1]
      /\ UNCHANGED <<mode, row, answered, offset, batch, job, faults, hit>>
  BY <1>1, <1>2 DEF Dispatch, NoFault, RowsFit
<1>4. /\ dispatched' \in [Updates -> Nat] /\ dispatched'[u] = 1
      /\ \A v \in Updates : v # u => dispatched'[v] = dispatched[v]
  BY <1>1, <1>3 DEF TypeOK
<1>5. /\ proc' \in [Processes -> Process] /\ Others(p)
      /\ proc'[p].step = "finishing" /\ proc'[p].update = u /\ proc'[p].owns = proc[p].owns
  BY <1>1, <1>2, <1>3, GotoFacts DEF TypeOK, Steps
<1>6. \A q \in Processes : q # p /\ proc[q].update = u => ~Works(q) /\ ~At(q, "enqueueing")
  BY <1>1, <1>2, <1>3 DEF RowsFit, Exclusive, At, Works
<1>7. TypeOK'
  <2>1. Elsewhere(u) /\ \A w \in Runs : proc[w].owns => job'[proc[w].update].state = "active"
    BY <1>1, <1>3 DEF Elsewhere, TypeOK
  <2>2. proc'[p].owns => job'[u].state = "active"
    BY <1>1, <1>2, <1>5, <2>1 DEF ProcessesFit
  <2> QED
    BY <1>1, <1>3, <1>4, <1>5, <2>1, <2>2, TypeStep DEF TypeOK
<1>8. ProcessesFit'
  BY <1>1, <1>5 DEF ProcessesFit, At, Others
<1>9. Exclusive'
  BY <1>1, <1>2, <1>5, <1>6 DEF Exclusive, At, Works, Others
<1>10. RowsFit'
  <2>1. ASSUME NEW q \in Processes, q # p, proc[q].update # u
        PROVE  dispatched'[proc[q].update] = dispatched[proc[q].update] \/ At(q, "idle")
    BY <1>1, <1>4, <2>1 DEF TypeOK
  <2> QED
    BY <1>1, <1>3, <1>4, <1>5, <1>6, <2>1 DEF RowsFit, At, Works, Others
<1>11. Custody'
  <2>1. Working(u)'
    BY <1>5 DEF Working, Works, On
  <2>2. Elsewhere(u) /\ (Owned(u) => Owned(u)')
    BY <1>2, <1>3, <1>5, Kinds DEF Elsewhere, Owned, On, Others
  <2> QED
    BY <1>1, <1>2, <1>3, <1>5, <2>1, <2>2, CustodyStep DEF Custody
<1>12. Stream'
  <2>1. ~At(Poller, "idle")' => ~At(Poller, "idle") /\ proc'[Poller].update = proc[Poller].update
    BY <1>2, <1>3, <1>5, Kinds DEF At, Others
  <2> QED
    BY <1>1, <1>3, <2>1, StreamKept DEF Stream, TypeOK
<1> QED
  BY <1>7, <1>8, <1>9, <1>10, <1>11, <1>12 DEF IInv

LEMMA FinishKeepsIInv ==
  ASSUME IInv, NEW p \in Processes, FinishUpdate(p) \/ FinishFails(p)
  PROVE  IInv'
<1>1. TypeOK /\ RowsFit
  BY DEF IInv
<1>2. At(p, "finishing") /\ ~At(p, "idle") /\ End(p) /\ UNCHANGED <<mode, answered, dispatched>>
  BY DEF FinishUpdate, FinishFails, At
<1>3. PICK u \in Updates : u = proc[p].update
  BY <1>1, <1>2 DEF TypeOK
<1>4. row[u] = "started"
  BY <1>1, <1>2, <1>3 DEF RowsFit
<1>5. CASE FinishUpdate(p)
  <2>1. row' = [row EXCEPT ![u] = "processed"] /\ UNCHANGED <<faults, hit>>
    BY <1>3, <1>4, <1>5 DEF FinishUpdate, NoFault
  <2>2. /\ row' \in [Updates -> RowStates] /\ row'[u] = "processed"
        /\ \A v \in Updates : v # u => row'[v] = row[v]
    BY <1>1, <2>1 DEF TypeOK, RowStates
  <2>3. faults' \in Nat /\ hit' \subseteq Updates
    BY <1>1, <2>1 DEF TypeOK
  <2> QED
    BY <1>2, <1>3, <2>1, <2>2, <2>3, EndKeepsIInv
<1>6. CASE FinishFails(p)
  <2>1. row' = row /\ faults' = faults + 1 /\ hit' = hit \cup {u}
    BY <1>3, <1>6 DEF FinishFails, Fault
  <2>2. faults' \in Nat /\ hit' \subseteq Updates /\ row' \in [Updates -> RowStates]
    BY <1>1, <2>1 DEF TypeOK
  <2> QED
    BY <1>2, <1>3, <1>4, <2>1, <2>2, EndKeepsIInv
<1> QED
  BY <1>5, <1>6

LEMMA GetUpdatesKeepsIInv ==
  ASSUME IInv, GetUpdates
  PROVE  IInv'
<1>1. TypeOK /\ ProcessesFit /\ RowsFit /\ Exclusive /\ Custody /\ Stream
  BY DEF IInv
<1>2. /\ mode = "polling" /\ At(Poller, "idle") /\ batch = {}
      /\ answered' = answered \cup {u \in Updates : u < offset}
      /\ UNCHANGED <<mode, row, proc, offset, job, dispatched, faults, hit>>
  BY DEF GetUpdates, NoFault
<1>3. PICK last \in From : batch' = {u \in From : u <= last}
  BY DEF GetUpdates
<1>4. From \subseteq Updates
  BY DEF From
<1>5. TypeOK'
  <2>1. batch' \subseteq Updates /\ answered' \subseteq Updates
    BY <1>1, <1>2, <1>3, <1>4 DEF TypeOK
  <2> QED
    BY <1>1, <1>2, <2>1 DEF TypeOK, At
<1>6. ProcessesFit' /\ RowsFit' /\ Exclusive' /\ Custody'
  BY <1>1, <1>2 DEF ProcessesFit, RowsFit, Exclusive, Custody, At, Works, Working, Carried,
                    Owned, On
<1>7. Stream'
  <2>1. \A v \in Updates : Passed(v) => Passed(v)'
    BY <1>2 DEF Passed
  <2>2. \A v \in answered' : Passed(v)'
    BY <1>1, <1>2, <2>1 DEF Stream, TypeOK
  <2>3. ASSUME NEW v \in Updates, v < offset' PROVE Passed(v)'
    BY <1>1, <1>2, <2>1, <2>3 DEF Stream
  <2>4. ASSUME NEW v \in Updates, v \notin batch', NEW w \in batch', v < w PROVE Passed(v)'
    <3>1. v \notin From
      <4>1. v \in Nat /\ w \in Nat /\ last \in Nat /\ w =< last
        BY <1>3, <1>4, <2>4, Ids
      <4>2. v =< last
        BY <2>4, <4>1
      <4> QED
        BY <1>3, <2>4, <4>2
    <3>2. CASE offset = 1
      <4>1. v \in answered
        BY <3>1, <3>2 DEF From
      <4> QED
        BY <1>1, <2>1, <4>1 DEF Stream
    <3>3. CASE offset # 1
      <4>1. v < offset
        BY <1>1, <3>1, <3>3, Ids DEF From, TypeOK
      <4> QED
        BY <1>1, <2>1, <4>1 DEF Stream
    <3> QED
      BY <3>2, <3>3
  <2> QED
    BY <1>2, <2>2, <2>3, <2>4 DEF Stream, At
<1> QED
  BY <1>5, <1>6, <1>7 DEF IInv

LEMMA HandleNextKeepsIInv ==
  ASSUME IInv, HandleNext
  PROVE  IInv'
<1>1. TypeOK /\ ProcessesFit /\ RowsFit /\ Exclusive /\ Custody /\ Stream
  BY DEF IInv
<1>2. /\ At(Poller, "idle") /\ batch # {}
      /\ UNCHANGED <<mode, row, answered, job, dispatched, faults, hit>>
  BY DEF HandleNext, NoFault
<1>3. PICK u \in Updates : u = Min(batch)
  BY <1>1, <1>2, MinIsLeast DEF TypeOK
<1>4. CASE u \in Malformed
  <2>1. Advance(u) /\ proc' = proc
    BY <1>3, <1>4 DEF HandleNext, Skip
  <2>2. Passed(u)'
    BY <1>4 DEF Passed
  <2>3. Stream' /\ offset' \in 1..(LastUpdate + 1) /\ batch' \subseteq Updates
    BY <1>1, <1>2, <1>3, <2>1, <2>2, StreamAdvanced DEF At
  <2>4. TypeOK'
    BY <1>1, <1>2, <2>1, <2>3 DEF TypeOK, At
  <2>5. ProcessesFit' /\ RowsFit' /\ Exclusive' /\ Custody'
    BY <1>1, <1>2, <2>1 DEF ProcessesFit, RowsFit, Exclusive, Custody, At, Works, Working,
                            Carried, Owned, On
  <2> QED
    BY <2>3, <2>4, <2>5 DEF IInv
<1>5. CASE u \notin Malformed
  <2>1. /\ proc' = [proc EXCEPT ![Poller] = [Idle EXCEPT !.step = "claiming", !.update = u]]
        /\ UNCHANGED <<offset, batch>>
    BY <1>3, <1>5 DEF HandleNext
  <2>2. /\ proc' \in [Processes -> Process] /\ Others(Poller) /\ Poller \in Processes
        /\ proc'[Poller].step = "claiming" /\ proc'[Poller].update = u
        /\ proc'[Poller].owns = FALSE
    <3>1. PICK r \in Process : /\ r = [Idle EXCEPT !.step = "claiming", !.update = u]
                              /\ r.step = "claiming" /\ r.update = u /\ r.owns = FALSE
      BY ClaimingIsProcess
    <3>2. proc' = [proc EXCEPT ![Poller] = r]
      BY <2>1, <3>1
    <3>3. QED
      BY <1>1, <3>1, <3>2, PutFacts, Kinds DEF TypeOK
  <2>3. Poller \notin Runs /\ proc[Poller] = Idle /\ Elsewhere(u)
    BY <1>1, <1>2, Kinds DEF ProcessesFit, Elsewhere
  <2>4. TypeOK'
    <3>1. \A w \in Runs : w # Poller /\ proc[w].owns /\ proc[w].update = u => job'[u].state = "active"
      BY <1>1, <1>2 DEF TypeOK
    <3> QED
      BY <1>1, <1>2, <2>1, <2>2, <2>3, <3>1, TypeStep DEF TypeOK
  <2>5. ProcessesFit'
    BY <1>1, <2>2, <2>3 DEF ProcessesFit, At, Others
  <2>6. RowsFit'
    BY <1>1, <1>2, <2>2 DEF RowsFit, At, Others
  <2>7. Exclusive'
    BY <1>1, <2>2, <2>3 DEF Exclusive, At, Works, Others
  <2>8. Custody'
    <3>1. \A q \in Processes : On(q, u) => proc'[q] = proc[q]
      BY <2>2, <2>3, IdleIsProcess, Ids DEF Others, On
    <3>2. (Working(u) => Working(u)') /\ (Carried(u) => Carried(u)') /\ (Owned(u) => Owned(u)')
      BY <3>1, Kinds DEF Working, Works, Carried, Owned, On
    <3> QED
      BY <1>1, <1>2, <2>2, <2>3, <3>2, CustodyStep DEF Custody
  <2>9. Stream'
    <3>1. \A v \in Updates : Passed(v) => Passed(v)'
      BY <1>2 DEF Passed
    <3>2. mode' = "polling"
      BY <1>1, <1>2 DEF Stream
    <3>3. On(Poller, Min(batch))'
      BY <1>3, <2>1, <2>2 DEF On
    <3>4. \A v \in answered' : Passed(v)'
      BY <1>1, <1>2, <3>1 DEF Stream, TypeOK
    <3>5. \A v \in Updates : v < offset' \/ (v \notin batch' /\ \E w \in batch' : v < w) => Passed(v)'
      BY <1>1, <2>1, <3>1 DEF Stream
    <3> QED
      BY <1>2, <2>1, <3>2, <3>3, <3>4, <3>5 DEF Stream
  <2> QED
    BY <2>4, <2>5, <2>6, <2>7, <2>8, <2>9 DEF IInv
<1> QED
  BY <1>4, <1>5

LEMMA FetchKeepsIInv ==
  ASSUME IInv, NEW w \in Runs, NEW u \in Updates, Fetch(w, u)
  PROVE  IInv'
<1>1. TypeOK /\ ProcessesFit /\ RowsFit /\ Exclusive /\ Custody /\ Stream
  BY DEF IInv
<1>2. /\ At(w, "idle") /\ job[u].state = "waiting" /\ job' = [job EXCEPT ![u].state = "active"]
      /\ UNCHANGED <<mode, row, answered, offset, batch, dispatched, faults, hit>>
  BY DEF Fetch, NoFault
<1>3. /\ proc' \in [Processes -> Process] /\ Others(w) /\ w \in Processes
      /\ proc'[w].step = "starting" /\ proc'[w].update = u /\ proc'[w].owns = TRUE
  BY <1>1, PutFacts, FetchedIsProcess, Kinds DEF Fetch, TypeOK
<1>4. job' \in [Updates -> Job] /\ job'[u].state = "active" /\ Elsewhere(u)
  BY <1>1, <1>2, MoveFacts DEF TypeOK, JobStates
<1>5. w # Poller /\ proc[w] = Idle /\ row[u] # "none"
  BY <1>1, <1>2, <1>3, Kinds DEF ProcessesFit, RowsFit
<1>6. \A q \in Processes : proc[q].update = u => ~proc[q].owns /\ ~At(q, "enqueueing")
  BY <1>1, <1>2 DEF TypeOK, ProcessesFit, RowsFit
<1>7. TypeOK'
  BY <1>1, <1>2, <1>3, <1>4, TypeStep DEF TypeOK
<1>8. ProcessesFit'
  BY <1>1, <1>3 DEF ProcessesFit, At, Others
<1>9. RowsFit'
  <2>1. \A v \in Updates : job'[v].state # "none" => row'[v] # "none"
    BY <1>1, <1>2, <1>4, <1>5 DEF RowsFit, Elsewhere
  <2>2. ASSUME NEW q \in Processes, At(q, "enqueueing")
        PROVE  job'[proc[q].update] = job[proc[q].update]
    BY <1>1, <1>4, <1>6, <2>2 DEF TypeOK, Elsewhere, At
  <2> QED
    BY <1>1, <1>2, <1>3, <1>5, <2>1, <2>2 DEF RowsFit, At, Others
<1>10. Exclusive'
  BY <1>1, <1>3, <1>6 DEF Exclusive, At, Works, Others
<1>11. Custody'
  <2>1. Owned(u)'
    BY <1>3 DEF Owned, On
  <2>2. \A q \in Processes : On(q, u) => proc'[q] = proc[q]
    BY <1>3, <1>5, IdleIsProcess, Ids DEF Others, On
  <2>3. Working(u) => Working(u)'
    BY <2>2 DEF Working, Works, On
  <2> QED
    BY <1>1, <1>2, <1>3, <1>4, <1>5, <2>1, <2>3, CustodyStep DEF Custody
<1>12. Stream'
  <2>1. proc'[Poller] = proc[Poller]
    BY <1>3, <1>5, Kinds DEF Others
  <2> QED
    BY <1>1, <1>2, <2>1, StreamKept DEF At, Stream, TypeOK
<1> QED
  BY <1>7, <1>8, <1>9, <1>10, <1>11, <1>12 DEF IInv

LEMMA TimeOutKeepsIInv ==
  ASSUME IInv, NEW w \in Runs, TimeOut(w)
  PROVE  IInv'
<1>1. TypeOK /\ ProcessesFit /\ RowsFit /\ Exclusive /\ Custody /\ Stream
  BY DEF IInv
<1>2. w \in Processes /\ w # Poller /\ ~At(w, "idle") /\ proc[w].owns
  BY <1>1, Kinds, IdleIsProcess DEF TimeOut, ProcessesFit
<1>3. PICK u \in Updates : u = proc[w].update
  BY <1>1, <1>2 DEF TypeOK
<1>4. /\ job' = [job EXCEPT ![u] = Retried(job[u])] /\ proc' = [proc EXCEPT ![w].owns = FALSE]
      /\ UNCHANGED <<mode, row, answered, offset, batch, dispatched>>
      /\ faults' = faults + 1 /\ hit' = hit
  BY <1>3 DEF TimeOut, Fault
<1>5. /\ proc' \in [Processes -> Process] /\ Others(w)
      /\ proc'[w].step = proc[w].step /\ proc'[w].update = u /\ proc'[w].owns = FALSE
  BY <1>1, <1>2, <1>3, <1>4, DisownFacts DEF TypeOK
<1>6. Retried(job[u]) \in Job /\ Retried(job[u]).state \in {"waiting", "failed"}
  BY <1>1, RetriedFacts DEF TypeOK
<1>7. job \in [Updates -> Job]
  BY <1>1 DEF TypeOK
<1>8. job' \in [Updates -> Job] /\ job'[u] = Retried(job[u]) /\ Elsewhere(u)
  BY <1>4, <1>6, <1>7, WriteFacts
<1>9. job'[u].state \in {"waiting", "failed"} /\ job[u].state = "active"
  BY <1>1, <1>2, <1>3, <1>6, <1>8 DEF TypeOK
<1>10. \A q \in Processes : proc[q].update = u => ~At(q, "enqueueing") /\ (q # w => ~proc[q].owns)
  BY <1>1, <1>2, <1>3, <1>9 DEF RowsFit, Exclusive
<1>11. TypeOK'
  <2>1. \A q \in Runs : q # w /\ proc[q].owns /\ proc[q].update = u => job'[u].state = "active"
    BY <1>10, Kinds
  <2>2. /\ mode' = mode /\ row' \in [Updates -> RowStates] /\ answered' \subseteq Updates
        /\ offset' \in 1..(LastUpdate + 1) /\ batch' \subseteq Updates
        /\ dispatched' \in [Updates -> Nat] /\ faults' \in Nat /\ hit' \subseteq Updates
    BY <1>1, <1>4 DEF TypeOK
  <2> QED
    BY <1>1, <1>2, <1>5, <1>8, <2>1, <2>2, TypeStep
<1>12. ProcessesFit'
  BY <1>1, <1>2, <1>5 DEF ProcessesFit, At, Others
<1>13. RowsFit'
  <2>1. \A v \in Updates : job'[v].state # "none" => row'[v] # "none"
    BY <1>1, <1>4, <1>8, <1>9 DEF RowsFit, Elsewhere
  <2>2. ASSUME NEW q \in Processes, At(q, "enqueueing")
        PROVE  job'[proc[q].update] = job[proc[q].update]
    BY <1>1, <1>8, <1>10, <2>2 DEF TypeOK, Elsewhere, At
  <2>3. \A q \in Processes : proc'[q].step = proc[q].step /\ proc'[q].update = proc[q].update
    BY <1>3, <1>5 DEF Others
  <2> QED
    BY <1>1, <1>4, <2>1, <2>2, <2>3 DEF RowsFit, At
<1>14. Exclusive'
  BY <1>1, <1>2, <1>3, <1>5 DEF Exclusive, At, Works, Others
<1>15. Custody'
  <2>1. \A q \in Processes : proc'[q].step = proc[q].step /\ proc'[q].update = proc[q].update
    BY <1>3, <1>5 DEF Others
  <2>2. (Working(u) => Working(u)') /\ (Carried(u) => Carried(u)')
    BY <2>1 DEF Working, Works, Carried, On
  <2>3. ASSUME u \notin hit', row[u] = "claimed"
        PROVE  job'[u].state \in {"waiting", "active"} \/ Carried(u)'
    <3>1. At(w, "starting")
      BY <1>1, <1>2, <1>3, <1>10, <2>3 DEF RowsFit, ProcessesFit, TypeOK, Process, Steps, At
    <3> QED
      BY <1>2, <1>5, <3>1 DEF Carried, On, At
  <2> QED
    BY <1>1, <1>2, <1>3, <1>4, <1>5, <1>8, <1>9, <2>2, <2>3, CustodyStep DEF Custody
<1>16. Stream'
  <2>1. proc'[Poller] = proc[Poller]
    BY <1>2, <1>5, Kinds DEF Others
  <2> QED
    BY <1>1, <1>4, <2>1, StreamKept DEF At, Stream, TypeOK
<1> QED
  BY <1>11, <1>12, <1>13, <1>14, <1>15, <1>16 DEF IInv

LEMMA ExpireKeepsIInv ==
  ASSUME IInv, NEW u \in Updates, Expire(u)
  PROVE  IInv'
<1>1. TypeOK /\ ProcessesFit /\ RowsFit /\ Exclusive /\ Custody /\ Stream
  BY DEF IInv
<1>2. /\ job[u].state = "active" /\ \A w \in Runs : ~(proc[w].owns /\ proc[w].update = u)
      /\ job' = [job EXCEPT ![u] = Retried(job[u])]
      /\ UNCHANGED <<mode, row, answered, proc, offset, batch, dispatched, faults, hit>>
  BY DEF Expire, NoFault
<1>3. Retried(job[u]) \in Job /\ Retried(job[u]).state \in {"waiting", "failed"}
  BY <1>1, RetriedFacts DEF TypeOK
<1>4. job \in [Updates -> Job]
  BY <1>1 DEF TypeOK
<1>5. job' \in [Updates -> Job] /\ job'[u] = Retried(job[u]) /\ Elsewhere(u)
  BY <1>2, <1>3, <1>4, WriteFacts
<1>6. Others(Poller) /\ Poller \in Processes /\ u \in hit'
  BY <1>1, <1>2, Kinds DEF Others, Custody, Owned, On
<1>7. \A q \in Processes : proc[q].update = u => ~At(q, "enqueueing")
  BY <1>1, <1>2 DEF RowsFit
<1>8. TypeOK'
  <2>1. \A w \in Runs : proc[w].owns => job'[proc[w].update].state = "active"
    <3>1. \A w \in Runs : proc[w].owns => proc[w].update \in Updates
      BY <1>1, Kinds, IdleIsProcess DEF TypeOK, ProcessesFit
    <3> QED
      BY <1>1, <1>2, <1>5, <3>1 DEF TypeOK, Elsewhere
  <2> QED
    BY <1>1, <1>2, <1>5, <2>1 DEF TypeOK, At
<1>9. ProcessesFit' /\ Exclusive'
  BY <1>1, <1>2 DEF ProcessesFit, Exclusive, At, Works
<1>10. RowsFit'
  <2>1. \A v \in Updates : job'[v].state # "none" => row'[v] # "none"
    BY <1>1, <1>2, <1>5 DEF RowsFit, Elsewhere
  <2>2. ASSUME NEW q \in Processes, At(q, "enqueueing")
        PROVE  job'[proc[q].update] = job[proc[q].update]
    BY <1>1, <1>5, <1>7, <2>2 DEF TypeOK, Elsewhere, At
  <2> QED
    BY <1>1, <1>2, <2>1, <2>2 DEF RowsFit, At
<1>11. Custody'
  <2>1. ASSUME NEW v \in Updates \ hit' PROVE v # u /\ job'[v] = job[v]
    BY <1>5, <1>6 DEF Elsewhere
  <2> QED
    BY <1>1, <1>2, <2>1 DEF Custody, Working, Carried, Owned, On, Works
<1>12. Stream'
  BY <1>1, <1>2, StreamKept DEF At, Stream, TypeOK
<1> QED
  BY <1>8, <1>9, <1>10, <1>11, <1>12 DEF IInv

(* The processes of the API, or those of the worker, die together: their    *)
(* updates are hit, and the others go on.                                   *)
LEMMA CrashKeepsIInv ==
  ASSUME IInv, ApiCrash \/ WorkerCrash
  PROVE  IInv'
<1>1. TypeOK /\ ProcessesFit /\ RowsFit /\ Exclusive /\ Custody /\ Stream
  BY DEF IInv
<1>2. PICK ps \in SUBSET Processes :
        /\ Die(ps)
        /\ \/ offset' = 1 /\ batch' = {} /\ Poller \in ps
           \/ UNCHANGED <<offset, batch>> /\ Poller \notin ps
  BY Kinds DEF ApiCrash, WorkerCrash
<1>3. /\ proc' = [p \in Processes |-> IF p \in ps THEN Idle ELSE proc[p]]
      /\ faults' = faults + 1 /\ hit' = hit \cup ({proc[p].update : p \in ps} \ {NoUpdate})
      /\ UNCHANGED <<mode, row, answered, job, dispatched>>
  BY <1>2 DEF Die, Fault
<1>4. /\ proc' \in [Processes -> Process]
      /\ \A q \in Processes : proc'[q] = Idle \/ (proc'[q] = proc[q] /\ q \notin ps)
      /\ \A q \in ps : proc'[q] = Idle
  BY <1>1, <1>3, IdleIsProcess DEF TypeOK
<1>5. \A p \in Processes : proc[p].update # NoUpdate => proc[p].update \in Updates
  BY <1>1, IdleIsProcess DEF TypeOK, ProcessesFit
<1>6. hit \subseteq hit' /\ hit' \subseteq Updates
  BY <1>1, <1>3, <1>5 DEF TypeOK
<1>7. TypeOK'
  <2>1. \A p \in Processes : ~At(p, "idle")' => proc'[p].update \in Updates
    BY <1>1, <1>4, IdleIsProcess DEF TypeOK, At
  <2>2. \A w \in Runs : proc'[w].owns => job'[proc'[w].update].state = "active"
    BY <1>1, <1>3, <1>4, IdleIsProcess, Kinds DEF TypeOK
  <2>3. offset' \in 1..(LastUpdate + 1) /\ batch' \subseteq Updates
    <3>1. offset \in 1..(LastUpdate + 1) /\ batch \subseteq Updates /\ 1 \in 1..(LastUpdate + 1)
      BY <1>1, Ids DEF TypeOK
    <3>2. (offset' = 1 /\ batch' = {}) \/ UNCHANGED <<offset, batch>>
      BY <1>2
    <3> QED
      BY <3>1, <3>2
  <2>4. faults' \in Nat
    BY <1>1, <1>3 DEF TypeOK
  <2> QED
    BY <1>1, <1>3, <1>4, <1>6, <2>1, <2>2, <2>3, <2>4 DEF TypeOK
<1>8. ProcessesFit'
  BY <1>1, <1>4, IdleIsProcess DEF ProcessesFit, At
<1>9. RowsFit'
  BY <1>1, <1>3, <1>4, IdleIsProcess DEF RowsFit, At
<1>10. Exclusive'
  <2>1. \A q \in Processes : At(q, "enqueueing") => proc[q].update # NoUpdate
    BY <1>1, Ids DEF TypeOK, At
  <2> QED
    BY <1>1, <1>4, <2>1, IdleIsProcess DEF Exclusive, At, Works
<1>11. Custody'
  <2>1. ASSUME NEW u \in Updates \ hit', NEW q \in Processes, On(q, u)
        PROVE  proc'[q] = proc[q]
    BY <1>3, <1>4, <2>1, Ids DEF On
  <2>2. ASSUME NEW u \in Updates \ hit'
        PROVE  /\ Working(u) => Working(u)'
               /\ Carried(u) => Carried(u)'
               /\ Owned(u) => Owned(u)'
    BY <2>1, Kinds DEF Working, Works, Carried, Owned, On
  <2> QED
    BY <1>1, <1>3, <1>6, <2>2 DEF Custody
<1>12. Stream'
  <2>1. CASE offset' = 1 /\ batch' = {} /\ Poller \in ps
    <3>1. At(Poller, "idle")'
      BY <1>4, <2>1, IdleIsProcess DEF At
    <3> QED
      BY <1>1, <1>3, <1>6, <2>1, <3>1, StreamDropped DEF Stream, TypeOK
  <2>2. CASE UNCHANGED <<offset, batch>> /\ Poller \notin ps
    <3>1. proc'[Poller] = proc[Poller]
      BY <1>3, <2>2, Kinds
    <3> QED
      BY <1>1, <1>3, <1>6, <2>2, <3>1, StreamKept DEF At, Stream, TypeOK
  <2> QED
    BY <1>2, <2>1, <2>2
<1> QED
  BY <1>7, <1>8, <1>9, <1>10, <1>11, <1>12 DEF IInv

-----------------------------------------------------------------------------
(* The theorems.                                                            *)

LEMMA InitIsFit == Init => IInv
<1> SUFFICES ASSUME Init PROVE IInv
  OBVIOUS
<1>1. \A p \in Processes : proc[p] = Idle
  BY DEF Init
<1>2. \A u \in Updates : job[u] = NoJob /\ row[u] = "none" /\ dispatched[u] = 0
  BY DEF Init
<1>3. TypeOK
  <2>1. proc \in [Processes -> Process] /\ job \in [Updates -> Job]
    BY IdleIsProcess, NoJobIsJob DEF Init
  <2>2. \A p \in Processes : At(p, "idle") /\ ~proc[p].owns
    BY <1>1, IdleIsProcess DEF At
  <2>3. offset \in 1..(LastUpdate + 1) /\ faults \in Nat
    BY Ids DEF Init
  <2>4. /\ mode \in Modes /\ row \in [Updates -> RowStates] /\ answered \subseteq Updates
        /\ batch \subseteq Updates /\ dispatched \in [Updates -> Nat] /\ hit \subseteq Updates
    BY DEF Init, RowStates
  <2> QED
    BY <2>1, <2>2, <2>3, <2>4, Kinds DEF TypeOK
<1>4. ProcessesFit /\ RowsFit /\ Exclusive
  BY <1>1, <1>2, IdleIsProcess, NoJobIsJob DEF ProcessesFit, RowsFit, Exclusive, At, Works
<1>5. Custody
  BY <1>1, <1>2, NoJobIsJob DEF Custody
<1>6. Stream
  <2>1. \A v \in Updates : ~(v < 1)
    BY Ids DEF Updates
  <2> QED
    BY <1>1, <2>1, IdleIsProcess, Kinds DEF Init, Stream, At
<1> QED
  BY <1>3, <1>4, <1>5, <1>6 DEF IInv

LEMMA StepKeepsIInv == IInv /\ [Next]_vars => IInv'
<1> SUFFICES ASSUME IInv, [Next]_vars PROVE IInv'
  OBVIOUS
<1>1. ASSUME NEW r \in Requests, NEW u \in Updates, Deliver(r, u) PROVE IInv'
  BY <1>1, DeliverKeepsIInv
<1>2. ASSUME NEW p \in Processes, Continue(p) PROVE IInv'
  BY <1>2, ClaimKeepsIInv, EnqueueKeepsIInv, BeginKeepsIInv, DispatchKeepsIInv, FinishKeepsIInv
     DEF Continue
<1>3. ASSUME NEW p \in Processes, Fails(p) PROVE IInv'
  BY <1>3, ClaimFailsKeepsIInv, EnqueueKeepsIInv, BeginFailsKeepsIInv, FinishKeepsIInv DEF Fails
<1>4. ASSUME Poll PROVE IInv'
  BY <1>4, GetUpdatesKeepsIInv, HandleNextKeepsIInv DEF Poll
<1>5. ASSUME NEW w \in Runs, Serve(w) \/ TimeOut(w) PROVE IInv'
  BY <1>5, FetchKeepsIInv, TimeOutKeepsIInv DEF Serve
<1>6. ASSUME NEW u \in Updates, Expire(u) PROVE IInv'
  BY <1>6, ExpireKeepsIInv
<1>7. ASSUME ApiCrash \/ WorkerCrash PROVE IInv'
  BY <1>7, CrashKeepsIInv
<1>8. CASE UNCHANGED vars
  BY <1>8 DEF vars, IInv, TypeOK, ProcessesFit, RowsFit, Exclusive, Custody, Stream, At, On, Works,
              Working, Carried, Owned, Passed
<1> QED
  BY <1>1, <1>2, <1>3, <1>4, <1>5, <1>6, <1>7, <1>8 DEF Next

LEMMA Custodial == Spec => []IInv
  BY InitIsFit, StepKeepsIInv, PTL DEF Spec

(* Every variable keeps its type, and a run that owns a job works on an     *)
(* active one (telegram_updates, queue telegram.update).                    *)
THEOREM TypeCorrect == Spec => []TypeOK
<1>1. IInv => TypeOK
  BY DEF IInv
<1> QED
  BY <1>1, Custodial, PTL

(* An update Telegram will not send again is past its start or in           *)
(* somebody's hands, unless a fault fell upon it or nobody can read it      *)
(* (acceptDeferred, handleBatch).                                           *)
THEOREM NothingIsDroppedHolds == Spec => []NothingIsDropped
<1>1. ASSUME IInv, NEW u \in answered \ (Malformed \cup hit)
      PROVE  row[u] = "processed" \/ (row[u] # "none" /\ InHand(u))
  <2>1. u \in Updates \ hit /\ row[u] \in RowStates
    BY <1>1 DEF IInv, TypeOK
  <2>2. row[u] # "none"
    BY <1>1 DEF IInv, Stream, Passed
  <2>3. CASE row[u] = "claimed"
    <3>1. job[u].state \in {"waiting", "active"} \/ Carried(u)
      BY <1>1, <2>1, <2>3 DEF IInv, Custody
    <3> QED
      BY <2>2, <3>1 DEF InHand, Carried, On, At
  <2>4. CASE row[u] = "started"
    <3>1. Working(u)
      BY <1>1, <2>1, <2>4 DEF IInv, Custody
    <3> QED
      BY <2>2, <3>1 DEF InHand, Working, Works, On, At
  <2> QED
    BY <2>1, <2>2, <2>3, <2>4 DEF RowStates
<1>2. IInv => NothingIsDropped
  BY <1>1 DEF NothingIsDropped
<1> QED
  BY <1>2, Custodial, PTL

-----------------------------------------------------------------------------
(* The promise.                                                             *)

(* A step moves the marker of one update or the count of its acts, or it    *)
(* touches neither.                                                         *)
Marks(u, from, to) ==
  row[u] = from /\ row' = [row EXCEPT ![u] = to] /\ dispatched' = dispatched
Acts(u) ==
  /\ row[u] = "started" /\ dispatched[u] = 0
  /\ row' = row /\ dispatched' = [dispatched EXCEPT ![u] = @ + 1]
Moves ==
  \/ UNCHANGED <<row, dispatched>>
  \/ \E u \in Updates : \/ Marks(u, "none", "claimed")
                        \/ Marks(u, "claimed", "started")
                        \/ Acts(u)
                        \/ Marks(u, "started", "processed") /\ dispatched[u] = 1

LEMMA StepsAreMoves ==
  ASSUME IInv, [Next]_vars
  PROVE  Moves
<1>1. /\ row \in [Updates -> RowStates]
      /\ \A p \in Processes : ~At(p, "idle") => proc[p].update \in Updates
  BY DEF IInv, TypeOK
<1>2. ASSUME NEW u \in Updates, row' \in {row, Claimed(u)}, dispatched' = dispatched
      PROVE  Moves
  <2>1. row' = row \/ (row[u] = "none" /\ row' = [row EXCEPT ![u] = "claimed"])
    BY <1>1, <1>2 DEF Claimed
  <2> QED
    BY <1>2, <2>1 DEF Moves, Marks
<1>3. ASSUME NEW u \in Updates, row' \in {row, Started(u)}, dispatched' = dispatched
      PROVE  Moves
  <2>1. row' = row \/ (row[u] = "claimed" /\ row' = [row EXCEPT ![u] = "started"])
    BY <1>3 DEF Started, Startable
  <2> QED
    BY <1>3, <2>1 DEF Moves, Marks
<1>4. ASSUME NEW p \in Processes, Continue(p) \/ Fails(p)
      PROVE  Moves
  <2>1. ~At(p, "idle")
    BY <1>4 DEF Continue, Fails, Claim, Enqueue, BeginUpdateProcessing, Dispatch, FinishUpdate,
                ClaimFails, EnqueueFails, BeginFails, FinishFails, At
  <2>2. PICK u \in Updates : u = proc[p].update
    BY <1>1, <2>1
  <2>3. CASE Claim(p) \/ ClaimFails(p)
    BY <1>2, <2>2, <2>3 DEF Claim, ClaimFails
  <2>4. CASE BeginUpdateProcessing(p) \/ BeginFails(p)
    BY <1>3, <2>2, <2>4 DEF BeginUpdateProcessing, BeginFails
  <2>5. CASE Dispatch(p)
    <3>1. row[u] = "started" /\ dispatched[u] = 0
      BY <2>2, <2>5 DEF IInv, RowsFit, Dispatch
    <3> QED
      BY <2>2, <2>5, <3>1 DEF Dispatch, Moves, Acts
  <2>6. CASE FinishUpdate(p)
    <3>1. row[u] = "started" /\ dispatched[u] = 1
      BY <2>2, <2>6 DEF IInv, RowsFit, FinishUpdate
    <3>2. row' = [row EXCEPT ![u] = "processed"] /\ dispatched' = dispatched
      BY <2>2, <2>6, <3>1 DEF FinishUpdate
    <3> QED
      BY <3>1, <3>2 DEF Moves, Marks
  <2>7. CASE Enqueue(p) \/ EnqueueFails(p) \/ FinishFails(p)
    BY <2>7 DEF Enqueue, EnqueueFails, FinishFails, Moves
  <2> QED
    BY <1>4, <2>3, <2>4, <2>5, <2>6, <2>7 DEF Continue, Fails
<1>5. CASE \/ \E r \in Requests, u \in Updates : Deliver(r, u)
           \/ Poll
           \/ \E w \in Runs : Serve(w) \/ TimeOut(w)
           \/ \E u \in Updates : Expire(u)
           \/ ApiCrash \/ WorkerCrash
           \/ UNCHANGED vars
  BY <1>5 DEF Deliver, Poll, GetUpdates, HandleNext, Serve, Fetch, TimeOut, Expire, ApiCrash,
              WorkerCrash, Die, vars, Moves
<1> QED
  BY <1>4, <1>5 DEF Next

LEMMA MovesAreSteps ==
  ASSUME IInv, IInv', Moves
  PROVE  [Promise!Next]_(Promise!vars)
<1> DEFINE stage == [u \in Updates |-> Stage(u)]
<1>1. /\ row \in [Updates -> RowStates] /\ dispatched \in [Updates -> Nat]
      /\ row' \in [Updates -> RowStates] /\ dispatched' \in [Updates -> Nat]
  BY DEF IInv, TypeOK
<1>2. ASSUME NEW v \in Updates, row'[v] = row[v], dispatched'[v] = dispatched[v]
      PROVE  Stage(v)' = Stage(v)
  BY <1>2 DEF Stage
<1>3. ASSUME NEW u \in Updates, \A v \in Updates : v # u => row'[v] = row[v] /\ dispatched'[v] = dispatched[v]
      PROVE  stage' = [stage EXCEPT ![u] = Stage(u)']
  BY <1>2, <1>3
<1>4. CASE UNCHANGED <<row, dispatched>>
  <2>1. stage' = stage
    BY <1>2, <1>4
  <2> QED
    BY <1>4, <2>1 DEF Promise!vars
<1>5. ASSUME NEW u \in Updates, Marks(u, "none", "claimed")
      PROVE  Promise!Next
  <2>1. row[u] = "none" /\ row'[u] = "claimed" /\ dispatched' = dispatched
    BY <1>1, <1>5 DEF Marks
  <2>2. Stage(u) = "new" /\ Stage(u)' = "claimed"
    BY <2>1 DEF Stage
  <2>3. stage' = [stage EXCEPT ![u] = "claimed"]
    BY <1>1, <1>3, <1>5, <2>2 DEF Marks
  <2> QED
    BY <2>1, <2>2, <2>3 DEF Promise!Next, Promise!Claim, Promise!Move
<1>6. ASSUME NEW u \in Updates, Marks(u, "claimed", "started")
      PROVE  Promise!Next
  <2>1. row[u] = "claimed" /\ row'[u] = "started" /\ dispatched' = dispatched /\ dispatched[u] = 0
    BY <1>1, <1>6 DEF Marks, IInv, RowsFit
  <2>2. Stage(u) = "claimed" /\ Stage(u)' = "started"
    BY <2>1 DEF Stage
  <2>3. stage' = [stage EXCEPT ![u] = "started"]
    BY <1>1, <1>3, <1>6, <2>2 DEF Marks
  <2> QED
    BY <2>1, <2>2, <2>3 DEF Promise!Next, Promise!Start, Promise!Move
<1>7. ASSUME NEW u \in Updates, Acts(u)
      PROVE  Promise!Next
  <2>1. /\ row[u] = "started" /\ row' = row /\ dispatched[u] = 0
        /\ dispatched' = [dispatched EXCEPT ![u] = @ + 1] /\ dispatched'[u] = 1
    BY <1>1, <1>7 DEF Acts
  <2>2. Stage(u) = "started" /\ Stage(u)' = "acted"
    BY <2>1 DEF Stage
  <2>3. stage' = [stage EXCEPT ![u] = "acted"]
    BY <1>1, <1>3, <2>1, <2>2
  <2> QED
    BY <2>1, <2>2, <2>3 DEF Promise!Next, Promise!Act, Promise!Move
<1>8. ASSUME NEW u \in Updates, Marks(u, "started", "processed"), dispatched[u] = 1
      PROVE  Promise!Next
  <2>1. row[u] = "started" /\ row'[u] = "processed" /\ dispatched' = dispatched
    BY <1>1, <1>8 DEF Marks
  <2>2. Stage(u) = "acted" /\ Stage(u)' = "settled"
    BY <1>8, <2>1 DEF Stage
  <2>3. stage' = [stage EXCEPT ![u] = "settled"]
    BY <1>1, <1>3, <1>8, <2>2 DEF Marks
  <2> QED
    BY <2>1, <2>2, <2>3 DEF Promise!Next, Promise!Settle, Promise!Move
<1> QED
  BY <1>4, <1>5, <1>6, <1>7, <1>8 DEF Moves

(* Redelivered, queued twice, retried, timed out, overtaken or interrupted, *)
(* every update goes through its stages once and in order, and the bot acts *)
(* on it at most once (claimUpdate, beginUpdateProcessing, finishUpdate).   *)
THEOREM UpdatesAreOneShot == Spec => RefinesOneShot
<1>1. Init => Promise!Init
  <2> SUFFICES ASSUME Init PROVE Promise!Init
    OBVIOUS
  <2>1. \A u \in Updates : Stage(u) = "new"
    BY DEF Init, Stage
  <2> QED
    BY <2>1 DEF Init, Promise!Init
<1>2. IInv /\ IInv' /\ [Next]_vars => [Promise!Next]_(Promise!vars)
  BY StepsAreMoves, MovesAreSteps
<1> QED
  BY <1>1, <1>2, Custodial, PTL DEF Spec, RefinesOneShot, Promise!Spec

=============================================================================
