-------------------------- MODULE TelegramPosts_proofs --------------------------
(***************************************************************************)
(* Proofs about TelegramPosts, for every set of texts and handlers and any *)
(* number of attempts and faults.                                          *)
(***************************************************************************)
EXTENDS TelegramPosts, SequenceTheorems, TLAPS

(* h has claimed the post and not yet recorded the outcome.                 *)
Working(h) == run[h].step \in {"sending", "finishing"}

(* h holds the text it is going to send or has sent.                        *)
Carrying(h) == run[h].step \in {"checking", "claiming", "sending", "finishing"}

(* A row that exists has a text, and its approval is the one in force.      *)
RowOK ==
  /\ post.status # "none" => post.body \in Bodies
  /\ post.approved = consent
  /\ post.status = "none" => consent = NoBody
  /\ shown => post.status # "none"

(* What a handler publishes is the text of the row, unless it was overtaken, *)
(* and the claim is still its own.                                          *)
RunOK(h) ==
  /\ run[h].step # "idle" => post.status # "none"
  /\ run[h].step = "revising" => run[h].body \in Bodies
  /\ Carrying(h) => run[h].body \in Bodies /\ (run[h].body = post.body \/ overtaken)
  /\ Working(h) => post.status = "PUBLISHING"

OneWorker == \A h, g \in Handlers : Working(h) /\ Working(g) => h = g

(* Once a message is out, nobody is about to send another one.              *)
ChannelOK ==
  ~unsure =>
    /\ Len(channel) <= 1
    /\ Len(channel) = 1 =>
         /\ post.status \in {"PUBLISHING", "PUBLISHED"}
         /\ \A h \in Handlers :
              run[h].step # "sending" /\ (run[h].step = "finishing" => run[h].ok)

(* The inductive invariant.                                                 *)
IInv ==
  /\ TypeOK
  /\ RowOK
  /\ \A h \in Handlers : RunOK(h)
  /\ OneWorker
  /\ ChannelOK

-----------------------------------------------------------------------------
(* The rows the conditional writes leave.                                   *)

LEMMA EmptyRow == NoPost \in Post /\ NoPost.status = "none" /\ NoPost.approved = NoBody
BY BoundsAreNaturals DEF NoPost, Post, Statuses

LEMMA NewPostRow ==
  ASSUME NEW body \in Bodies
  PROVE  /\ NewPost(body) \in Post /\ NewPost(body).status = "DRAFT"
         /\ NewPost(body).body = body /\ NewPost(body).approved = NoBody
BY EmptyRow DEF NewPost, Post, Statuses

LEMMA RevisedRow ==
  ASSUME NEW row \in Post, NEW body \in Bodies
  PROVE  /\ Revised(row, body) \in Post /\ Revised(row, body).status = "DRAFT"
         /\ Revised(row, body).body = body /\ Revised(row, body).approved = NoBody
BY DEF Revised, Post, Statuses

LEMMA ApprovedRow ==
  ASSUME NEW row \in Post
  PROVE  /\ Approved(row) \in Post /\ Approved(row).status = "APPROVED"
         /\ Approved(row).body = row.body /\ Approved(row).approved = row.body
BY DEF Approved, Post, Statuses

LEMMA ClaimedRow ==
  ASSUME NEW row \in Post, Claimable(row)
  PROVE  /\ Claimed(row) \in Post /\ Claimed(row).status = "PUBLISHING"
         /\ Claimed(row).body = row.body /\ Claimed(row).approved = row.approved
<1>1. row.attempts \in 0..MaxAttempts /\ MaxAttempts \in Nat
  BY BoundsAreNaturals DEF Post
<1>2. row.attempts + 1 \in 0..MaxAttempts
  BY <1>1 DEF Claimable
<1>3. QED
  BY <1>2 DEF Claimed, Post, Statuses

LEMMA FinishedRow ==
  ASSUME NEW row \in Post, NEW ok \in BOOLEAN
  PROVE  /\ Finished(row, ok) \in Post
         /\ Finished(row, ok).body = row.body /\ Finished(row, ok).approved = row.approved
         /\ row.status = "PUBLISHING" =>
              Finished(row, ok).status = IF ok THEN "PUBLISHED" ELSE "FAILED"
         /\ row.status # "PUBLISHING" => Finished(row, ok) = row
BY DEF Finished, Post, Statuses

(* How a handler moves.                                                     *)

LEMMA IdleIsRun == Idle \in Run /\ Idle.step = "idle" /\ ~Idle.ok
BY DEF Idle, Run, Steps

LEMMA Went ==
  ASSUME run \in [Handlers -> Run], NEW h \in Handlers, NEW step \in Steps, Goto(h, step)
  PROVE  /\ run' \in [Handlers -> Run] /\ \A g \in Handlers : g # h => run'[g] = run[g]
         /\ run'[h].step = step /\ run'[h].body = run[h].body /\ run'[h].ok = run[h].ok
<1> DEFINE r == [run[h] EXCEPT !.step = step]
<1>1. r \in Run /\ r.step = step /\ r.body = run[h].body /\ r.ok = run[h].ok
  BY DEF Run
<1>2. run' = [run EXCEPT ![h] = r]
  BY DEF Goto
<1> HIDE DEF r
<1>3. QED
  BY <1>1, <1>2

LEMMA Took ==
  ASSUME run \in [Handlers -> Run], NEW h \in Handlers, NEW step \in Steps,
         NEW body \in Bodies \cup {NoBody}, With(h, step, body)
  PROVE  /\ run' \in [Handlers -> Run] /\ \A g \in Handlers : g # h => run'[g] = run[g]
         /\ run'[h].step = step /\ run'[h].body = body /\ run'[h].ok = FALSE
<1> DEFINE r == [step |-> step, body |-> body, ok |-> FALSE]
<1>1. r \in Run /\ r.step = step /\ r.body = body /\ r.ok = FALSE
  BY DEF Run
<1>2. run' = [run EXCEPT ![h] = r]
  BY DEF With
<1> HIDE DEF r
<1>3. QED
  BY <1>1, <1>2

LEMMA Stopped ==
  ASSUME run \in [Handlers -> Run], NEW h \in Handlers, Stop(h)
  PROVE  /\ run' \in [Handlers -> Run] /\ \A g \in Handlers : g # h => run'[g] = run[g]
         /\ run'[h].step = "idle"
BY IdleIsRun DEF Stop

-----------------------------------------------------------------------------
LEMMA InitIInv == Init => IInv
<1> SUFFICES ASSUME Init PROVE IInv
  OBVIOUS
<1>1. post = NoPost /\ run \in [Handlers -> Run] /\ \A h \in Handlers : run[h] = Idle
  BY IdleIsRun DEF Init
<1>2. TypeOK
  <2>1. channel \in Seq(Bodies) /\ faults \in 0..MaxFaults
    BY BoundsAreNaturals DEF Init
  <2>2. {able, shown, overtaken, unsure} \subseteq BOOLEAN /\ consent \in Bodies \cup {NoBody}
    BY DEF Init
  <2>3. QED
    BY <1>1, <2>1, <2>2, EmptyRow DEF TypeOK
<1>3. RowOK /\ ChannelOK
  BY <1>1, EmptyRow DEF Init, RowOK, ChannelOK
<1>4. ASSUME NEW h \in Handlers PROVE RunOK(h) /\ ~Working(h)
  BY <1>1, IdleIsRun DEF RunOK, Working, Carrying
<1>5. QED
  BY <1>2, <1>3, <1>4 DEF IInv, OneWorker

(* A step of h that leaves the channel alone: what it must see to.          *)
LEMMA StepKeepsIInv ==
  ASSUME IInv, NEW h \in Handlers,
         run' \in [Handlers -> Run], \A g \in Handlers : g # h => run'[g] = run[g],
         post' \in Post, post.status # "none" => post'.status # "none",
         RowOK', TypeOK', RunOK(h)',
         channel' = channel,
         \A g \in Handlers : g # h /\ Carrying(g) => run[g].body = post'.body \/ overtaken',
         \A g \in Handlers : g # h /\ Working(g) => post'.status = "PUBLISHING",
         Working(h)' => \A g \in Handlers : g # h => ~Working(g),
         ChannelOK'
  PROVE  IInv'
<1>1. ASSUME NEW g \in Handlers PROVE RunOK(g)'
  <2>1. RunOK(g)
    BY DEF IInv
  <2>2. CASE g = h
    BY <2>2
  <2>3. CASE g # h
    BY <2>1, <2>3 DEF RunOK, Working, Carrying
  <2>4. QED
    BY <2>2, <2>3
<1>2. OneWorker'
  BY DEF IInv, OneWorker, Working
<1>3. QED
  BY <1>1, <1>2 DEF IInv

(* A step that neither claims, sends nor records.                           *)
LEMMA QuietStepKeepsIInv ==
  ASSUME IInv, NEW h \in Handlers,
         run' \in [Handlers -> Run], \A g \in Handlers : g # h => run'[g] = run[g],
         ~Working(h)', RunOK(h)',
         post' = post \/ (post.status \notin {"PUBLISHING", "PUBLISHED"} /\ post'.status # "none"),
         post' \in Post, post'.approved \in {NoBody, post'.body},
         post'.status \in {"APPROVED", "PUBLISHING", "PUBLISHED", "FAILED"} =>
           post'.approved = post'.body,
         \A g \in Handlers : g # h /\ Carrying(g) => run[g].body = post'.body \/ overtaken',
         RowOK', consent' \in Bodies \cup {NoBody}, overtaken' \in BOOLEAN,
         {able', shown'} \subseteq BOOLEAN, faults' \in 0..MaxFaults,
         channel' = channel, unsure' = unsure
  PROVE  IInv'
<1>1. TypeOK'
  BY DEF IInv, TypeOK
<1>2. \A g \in Handlers : g # h /\ Working(g) => post'.status = "PUBLISHING"
  BY DEF IInv, RunOK
<1>3. ChannelOK'
  BY DEF IInv, ChannelOK, Working
<1>4. QED
  BY <1>1, <1>2, <1>3, StepKeepsIInv

LEMMA PreviewKeepsIInv ==
  ASSUME IInv, NEW h \in Handlers, NEW body \in Bodies, ClaimPost(h, body)
  PROVE  IInv'
<1> DEFINE next == IF post'.status = "DRAFT" /\ post'.body # body THEN "revising" ELSE "previewing"
<1>1. /\ run \in [Handlers -> Run] /\ run[h].step = "idle" /\ post \in Post
      /\ UNCHANGED <<shown, able, channel, faults, consent, overtaken, unsure>>
  BY DEF ClaimPost, At, history, IInv, TypeOK
<1>2. /\ post' \in Post /\ post'.status # "none" /\ (post.status # "none" => post' = post)
      /\ post.status = "none" => post'.body = body /\ post'.approved = NoBody /\ post'.status = "DRAFT"
  BY <1>1, NewPostRow DEF ClaimPost
<1>3. next \in {"revising", "previewing"} /\ next \in Steps /\ With(h, next, body)
  BY DEF ClaimPost, Steps
<1> HIDE DEF next
<1>4. /\ run' \in [Handlers -> Run] /\ \A g \in Handlers : g # h => run'[g] = run[g]
      /\ run'[h].step = next /\ run'[h].body = body
  BY <1>1, <1>3, Took, ZenonT(40)
<1>5. ~Working(h)' /\ RunOK(h)'
  BY <1>2, <1>3, <1>4 DEF Working, RunOK, Carrying
<1>6. RowOK'
  <2>1. post.status = "none" => post.approved = NoBody
    BY DEF IInv, RowOK
  <2>2. QED
    BY <1>1, <1>2, <2>1 DEF IInv, RowOK
<1>7. ASSUME NEW g \in Handlers, Carrying(g) PROVE run[g].body = post'.body \/ overtaken'
  BY <1>1, <1>2, <1>7 DEF IInv, RunOK, Carrying
<1>8. QED
  BY <1>1, <1>2, <1>4, <1>5, <1>6, <1>7, QuietStepKeepsIInv DEF IInv, TypeOK

LEMMA ReviseKeepsIInv ==
  ASSUME IInv, NEW h \in Handlers, NEW body \in Bodies, NEW step \in Steps,
         step \in {"previewing", "showing"}, post.status # "none",
         Revise(body),
         run' \in [Handlers -> Run], \A g \in Handlers : g # h => run'[g] = run[g],
         run'[h].step = step,
         UNCHANGED <<shown, able, channel, faults, unsure>>
  PROVE  IInv'
<1>1. post \in Post /\ overtaken \in BOOLEAN /\ consent \in Bodies \cup {NoBody}
  BY DEF IInv, TypeOK
<1>2. /\ post' \in Post /\ post'.status # "none"
      /\ \/ post' = post /\ consent' = consent /\ overtaken' = overtaken
         \/ /\ post.status \notin {"PUBLISHING", "PUBLISHED"}
            /\ post'.status = "DRAFT" /\ post'.body = body /\ post'.approved = NoBody
            /\ consent' = NoBody
            /\ overtaken' = (overtaken \/ \E g \in Handlers : BeforeClaim(g) /\ run[g].body # body)
  BY <1>1, RevisedRow DEF Revisable, Revise
<1>3. ~Working(h)' /\ RunOK(h)'
  BY <1>2 DEF Working, RunOK, Carrying
<1>4. RowOK'
  BY <1>2 DEF IInv, RowOK
<1>5. ASSUME NEW g \in Handlers, Carrying(g) PROVE run[g].body = post'.body \/ overtaken'
  <2>1. RunOK(g)
    BY DEF IInv
  <2>2. CASE post' = post /\ overtaken' = overtaken
    BY <1>5, <2>1, <2>2 DEF RunOK
  <2>3. CASE post' # post \/ overtaken' # overtaken
    <3>1. ~Working(g)
      BY <1>2, <2>1, <2>3 DEF RunOK
    <3>2. BeforeClaim(g)
      BY <1>5, <3>1 DEF Carrying, Working, BeforeClaim
    <3>3. QED
      BY <1>2, <2>3, <3>2
  <2>4. QED
    BY <2>2, <2>3
<1>6. overtaken' \in BOOLEAN /\ consent' \in Bodies \cup {NoBody}
  BY <1>1, <1>2
<1>7. QED
  BY <1>2, <1>3, <1>4, <1>5, <1>6, QuietStepKeepsIInv DEF IInv, TypeOK

LEMMA EditKeepsIInv ==
  ASSUME IInv, NEW h \in Handlers, NEW body \in Bodies, Edit(h, body)
  PROVE  IInv'
<1>1. run \in [Handlers -> Run] /\ shown /\ post.status # "none" /\ run[h].step = "idle"
  BY DEF Edit, At, IInv, TypeOK, RowOK
<1>2. UNCHANGED <<shown, able, channel, faults, unsure>> /\ Revise(body)
  BY DEF Edit
<1>3. CASE Revisable(post)
  <2>1. With(h, "showing", body) /\ "showing" \in Steps
    BY <1>3 DEF Edit, Steps
  <2>2. /\ run' \in [Handlers -> Run] /\ \A g \in Handlers : g # h => run'[g] = run[g]
        /\ run'[h].step = "showing"
    BY <1>1, <2>1, Took
  <2>3. QED
    BY <1>1, <1>2, <1>3, <2>1, <2>2, ReviseKeepsIInv
<1>4. CASE ~Revisable(post)
  <2>1. post' = post /\ run' = run /\ consent' = consent /\ overtaken' = overtaken
    BY <1>2, <1>4 DEF Edit, Revise
  <2>2. ~Working(h)' /\ RunOK(h)' /\ RowOK'
    BY <1>1, <1>2, <2>1 DEF Working, RunOK, Carrying, IInv, RowOK
  <2>3. \A g \in Handlers : Carrying(g) => run[g].body = post'.body \/ overtaken'
    BY <2>1 DEF IInv, RunOK
  <2>4. QED
    BY <1>1, <1>2, <2>1, <2>2, <2>3, QuietStepKeepsIInv DEF IInv, TypeOK
<1>5. QED
  BY <1>3, <1>4

LEMMA RefreshKeepsIInv ==
  ASSUME IInv, NEW h \in Handlers, RevisePost(h)
  PROVE  IInv'
<1>1. run \in [Handlers -> Run] /\ run[h].body \in Bodies /\ post.status # "none"
  BY DEF RevisePost, At, IInv, TypeOK, RunOK
<1>2. Goto(h, "previewing") /\ "previewing" \in Steps
  BY DEF RevisePost, Steps
<1>3. /\ run' \in [Handlers -> Run] /\ \A g \in Handlers : g # h => run'[g] = run[g]
      /\ run'[h].step = "previewing"
  BY <1>1, <1>2, Went
<1>4. UNCHANGED <<shown, able, channel, faults, unsure>> /\ Revise(run[h].body)
  BY DEF RevisePost
<1>5. QED
  BY <1>1, <1>2, <1>3, <1>4, ReviseKeepsIInv

(* A handler that leaves the row alone and does not go on to send.          *)
LEMMA ReadStepKeepsIInv ==
  ASSUME IInv, NEW h \in Handlers,
         run' \in [Handlers -> Run], \A g \in Handlers : g # h => run'[g] = run[g],
         run'[h].step # "idle" => post.status # "none",
         run'[h].step \notin {"revising", "sending", "finishing"},
         run'[h].step \in {"checking", "claiming"} =>
           run'[h].body \in Bodies /\ (run'[h].body = post.body \/ overtaken),
         UNCHANGED <<post, channel, consent, overtaken, unsure>>,
         {able', shown'} \subseteq BOOLEAN, shown' => post.status # "none",
         faults' \in 0..MaxFaults
  PROVE  IInv'
<1>1. ~Working(h)' /\ RunOK(h)'
  BY DEF Working, RunOK, Carrying
<1>2. RowOK'
  BY DEF IInv, RowOK
<1>3. \A g \in Handlers : Carrying(g) => run[g].body = post'.body \/ overtaken'
  BY DEF IInv, RunOK
<1>4. QED
  BY <1>1, <1>2, <1>3, QuietStepKeepsIInv DEF IInv, TypeOK

LEMMA ReadKeepsIInv ==
  ASSUME IInv, NEW h \in Handlers,
         Show(h) \/ Tap(h) \/ ReadPost(h) \/ CheckChannel(h) \/ Crash(h)
  PROVE  IInv'
<1>1. /\ run \in [Handlers -> Run] /\ post \in Post /\ RunOK(h) /\ faults \in 0..MaxFaults
      /\ {able, shown} \subseteq BOOLEAN
      /\ (shown => post.status # "none") /\ run[h].body \in Bodies \cup {NoBody}
  BY DEF IInv, TypeOK, RowOK, Run
<1>2. {"idle", "approving", "checking", "claiming"} \subseteq Steps
  BY DEF Steps
<1>3. CASE Show(h)
  <2>1. Stop(h) /\ run[h].step # "idle"
    BY <1>3 DEF Show, At
  <2>2. /\ UNCHANGED <<post, channel, consent, overtaken, unsure>> /\ shown' \in {shown, TRUE}
        /\ able' = able /\ faults' = faults
    BY <1>3 DEF Show, history
  <2>3. QED
    BY <1>1, <2>1, <2>2, Stopped, ReadStepKeepsIInv DEF RunOK
<1>4. CASE Tap(h)
  <2>1. With(h, "approving", post.body) /\ shown /\ post.body \in Bodies \cup {NoBody}
    BY <1>1, <1>4 DEF Tap, Post
  <2>2. UNCHANGED <<post, shown, able, channel, faults, consent, overtaken, unsure>>
    BY <1>4 DEF Tap, history
  <2>3. /\ run' \in [Handlers -> Run] /\ \A g \in Handlers : g # h => run'[g] = run[g]
        /\ run'[h].step = "approving"
    BY <1>1, <1>2, <2>1, Took
  <2>4. QED
    BY <1>1, <2>1, <2>2, <2>3, ReadStepKeepsIInv
<1>5. CASE ReadPost(h)
  <2>1. /\ UNCHANGED <<post, shown, able, channel, faults, consent, overtaken, unsure>>
        /\ run[h].step = "reading"
    BY <1>5 DEF ReadPost, history, At
  <2>2. CASE Stop(h)
    BY <1>1, <2>1, <2>2, Stopped, ReadStepKeepsIInv
  <2>3. CASE With(h, "checking", post.body) /\ post.approved = post.body
    <3>1. post.status # "none" /\ post.body \in Bodies
      BY <1>1, <2>1, <2>3 DEF RunOK, IInv, RowOK
    <3>2. /\ With(h, "checking", post.body) /\ "checking" \in Steps
          /\ post.body \in Bodies \cup {NoBody}
      BY <1>1, <1>2, <2>3, <3>1
    <3>3. /\ run' \in [Handlers -> Run] /\ \A g \in Handlers : g # h => run'[g] = run[g]
          /\ run'[h].step = "checking" /\ run'[h].body = post.body
      BY <1>1, <3>2, Took
    <3>4. QED
      BY <1>1, <2>1, <3>1, <3>3, ReadStepKeepsIInv
  <2>4. QED
    BY <1>5, <2>2, <2>3 DEF ReadPost
<1>6. CASE CheckChannel(h)
  <2>1. /\ UNCHANGED <<post, shown, able, channel, faults, consent, overtaken, unsure>>
        /\ run[h].step = "checking"
    BY <1>6 DEF CheckChannel, history, At
  <2>2. CASE Stop(h)
    BY <1>1, <2>1, <2>2, Stopped, ReadStepKeepsIInv
  <2>3. CASE Goto(h, "claiming")
    <3>1. /\ run' \in [Handlers -> Run] /\ \A g \in Handlers : g # h => run'[g] = run[g]
          /\ run'[h].step = "claiming" /\ run'[h].body = run[h].body
      BY <1>1, <1>2, <2>3, Went
    <3>2. QED
      BY <1>1, <2>1, <3>1, ReadStepKeepsIInv DEF RunOK, Carrying
  <2>4. QED
    BY <1>6, <2>2, <2>3 DEF CheckChannel
<1>7. CASE Crash(h)
  <2>1. Stop(h) /\ UNCHANGED <<post, shown, able, channel, consent, overtaken, unsure>>
    BY <1>7 DEF Crash, history
  <2>2. faults' \in 0..MaxFaults
    BY <1>1, <1>7, BoundsAreNaturals DEF Crash, Fault
  <2>3. QED
    BY <1>1, <2>1, <2>2, Stopped, ReadStepKeepsIInv
<1>8. QED
  BY <1>3, <1>4, <1>5, <1>6, <1>7

LEMMA ApproveKeepsIInv ==
  ASSUME IInv, NEW h \in Handlers, ApprovePost(h)
  PROVE  IInv'
<1>1. /\ run \in [Handlers -> Run] /\ post \in Post /\ RunOK(h) /\ run[h].step = "approving"
      /\ post.status # "none" /\ post.body \in Bodies /\ consent \in Bodies \cup {NoBody}
  BY DEF IInv, TypeOK, RowOK, RunOK, ApprovePost, At
<1>2. Goto(h, "reading") /\ "reading" \in Steps
  BY DEF ApprovePost, Steps
<1>3. /\ run' \in [Handlers -> Run] /\ \A g \in Handlers : g # h => run'[g] = run[g]
      /\ run'[h].step = "reading"
  BY <1>1, <1>2, Went
<1>4. UNCHANGED <<shown, able, channel, faults, overtaken, unsure>>
  BY DEF ApprovePost
<1>5. /\ post' \in Post /\ post'.status # "none" /\ consent' \in Bodies \cup {NoBody}
      /\ \/ post' = post /\ consent' = consent
         \/ /\ post.status \notin {"PUBLISHING", "PUBLISHED"}
            /\ post'.body = post.body /\ post'.approved = post.body /\ consent' = post.body
  BY <1>1, ApprovedRow DEF ApprovePost, Approvable
<1>6. ~Working(h)' /\ RunOK(h)'
  BY <1>3, <1>5 DEF Working, RunOK, Carrying
<1>7. RowOK'
  BY <1>1, <1>4, <1>5 DEF IInv, RowOK
<1>8. \A g \in Handlers : Carrying(g) => run[g].body = post'.body \/ overtaken'
  BY <1>4, <1>5 DEF IInv, RunOK
<1>9. QED
  BY <1>1, <1>3, <1>4, <1>5, <1>6, <1>7, <1>8, QuietStepKeepsIInv DEF IInv, TypeOK

(* The claim: only one handler gets past it.                                *)
LEMMA ClaimKeepsIInv ==
  ASSUME IInv, NEW h \in Handlers, ClaimPublish(h)
  PROVE  IInv'
<1>1. /\ run \in [Handlers -> Run] /\ post \in Post /\ RunOK(h) /\ run[h].step = "claiming"
      /\ Carrying(h)
      /\ UNCHANGED <<shown, able, channel, faults, consent, overtaken, unsure>>
  BY DEF IInv, TypeOK, ClaimPublish, At, history, Carrying
<1>2. CASE ~Claimable(post)
  <2>1. Stop(h) /\ post' = post
    BY <1>2 DEF ClaimPublish
  <2>2. QED
    BY <1>1, <2>1, Stopped, ReadStepKeepsIInv DEF IInv, TypeOK, RowOK
<1>3. CASE Claimable(post)
  <2>1. /\ Goto(h, "sending") /\ "sending" \in Steps /\ post' = Claimed(post)
        /\ post.status \in {"APPROVED", "FAILED"}
    BY <1>3 DEF ClaimPublish, Steps, Claimable
  <2>2. /\ run' \in [Handlers -> Run] /\ \A g \in Handlers : g # h => run'[g] = run[g]
        /\ run'[h].step = "sending" /\ run'[h].body = run[h].body
    BY <1>1, <2>1, Went
  <2>3. /\ post' \in Post /\ post'.status = "PUBLISHING"
        /\ post'.body = post.body /\ post'.approved = post.approved
    BY <1>1, <1>3, <2>1, ClaimedRow
  <2>4. \A g \in Handlers : ~Working(g)
    BY <2>1 DEF IInv, RunOK
  <2>5. TypeOK'
    BY <1>1, <2>1, <2>2, <2>3 DEF IInv, TypeOK
  <2>6. RowOK'
    BY <1>1, <2>1, <2>3 DEF IInv, RowOK
  <2>7. RunOK(h)' /\ \A g \in Handlers : Carrying(g) => run[g].body = post'.body \/ overtaken'
    BY <1>1, <2>2, <2>3 DEF RunOK, IInv
  <2>8. channel \in Seq(Bodies) /\ (~unsure => Len(channel) <= 1 /\ Len(channel) # 1)
    BY <2>1 DEF IInv, TypeOK, ChannelOK
  <2>9. ChannelOK'
    BY <1>1, <2>8 DEF ChannelOK
  <2>10. QED
    BY <1>1, <2>2, <2>3, <2>4, <2>5, <2>6, <2>7, <2>9, StepKeepsIInv
<1>4. QED
  BY <1>2, <1>3

(* The handler that sends is the only one, and its message the first that   *)
(* the bot knows of.                                                        *)
LEMMA SendKeepsIInv ==
  ASSUME IInv, NEW h \in Handlers, Send(h) \/ SendFails(h)
  PROVE  IInv'
<1>1. /\ run \in [Handlers -> Run] /\ post \in Post /\ RunOK(h) /\ run[h].step = "sending"
      /\ run[h].body \in Bodies /\ Carrying(h) /\ channel \in Seq(Bodies)
      /\ post.status = "PUBLISHING" /\ "finishing" \in Steps
      /\ UNCHANGED <<post, shown, able, consent, overtaken>>
  BY DEF IInv, TypeOK, RunOK, Working, Carrying, Send, SendFails, At, history, Steps
<1>2. /\ run' \in [Handlers -> Run] /\ \A g \in Handlers : g # h => run'[g] = run[g]
      /\ run'[h].step = "finishing" /\ run'[h].body = run[h].body
      /\ \/ channel' = channel /\ unsure' = unsure
         \/ channel' = Append(channel, run[h].body) /\ (unsure' \/ (unsure' = unsure /\ run'[h].ok))
      /\ unsure' \in BOOLEAN
  <2>1. CASE SendFails(h) \/ (Send(h) /\ Goto(h, "finishing") /\ channel' = channel)
    <3>1. Goto(h, "finishing")
      BY <2>1 DEF SendFails
    <3>2. QED
      BY <1>1, <2>1, <3>1, Went DEF Send, SendFails, history, IInv, TypeOK
  <2>2. CASE /\ run' = [run EXCEPT ![h].step = "finishing", ![h].ok = TRUE]
             /\ channel' = Append(channel, run[h].body) /\ Send(h)
    <3> DEFINE r == [run[h] EXCEPT !.step = "finishing", !.ok = TRUE]
    <3>1. r \in Run /\ r.step = "finishing" /\ r.body = run[h].body /\ r.ok
      BY <1>1 DEF Run
    <3>2. run' = [run EXCEPT ![h] = r]
      BY <1>1, <2>2
    <3> HIDE DEF r
    <3>3. /\ run' \in [Handlers -> Run] /\ run'[h] = r
          /\ \A g \in Handlers : g # h => run'[g] = run[g]
      BY <1>1, <3>1, <3>2
    <3>4. unsure' = unsure /\ unsure \in BOOLEAN
      BY <2>2 DEF Send, history, IInv, TypeOK
    <3>5. QED
      BY <2>2, <3>1, <3>3, <3>4
  <2>3. QED
    BY <2>1, <2>2 DEF Send
<1>3. faults' \in 0..MaxFaults
  BY BoundsAreNaturals DEF Send, SendFails, Fault, IInv, TypeOK
<1>4. /\ channel' \in Seq(Bodies) /\ Len(channel') \in {Len(channel), Len(channel) + 1}
      /\ channel' = channel \/ Len(channel') = Len(channel) + 1
  BY <1>1, <1>2
<1>5. TypeOK' /\ RowOK'
  BY <1>1, <1>2, <1>3, <1>4 DEF IInv, TypeOK, RowOK
<1>6. Len(channel) \in Nat /\ (~unsure => Len(channel) <= 1 /\ Len(channel) # 1)
  BY <1>1 DEF IInv, ChannelOK
<1>7. \A g \in Handlers : g # h => ~Working(g)
  BY <1>1 DEF IInv, OneWorker, Working
<1>8. ASSUME NEW g \in Handlers PROVE RunOK(g)'
  BY <1>1, <1>2, <1>7 DEF IInv, RunOK, Working, Carrying
<1>9. OneWorker'
  BY <1>2, <1>7 DEF OneWorker, Working
<1>10. ChannelOK'
  <2> SUFFICES ASSUME ~unsure' PROVE ChannelOK'
    BY DEF ChannelOK
  <2>1. ~unsure /\ Len(channel) = 0
    <3>1. ~unsure
      BY <1>2, Zenon
    <3>2. Len(channel) <= 1 /\ Len(channel) # 1
      BY <1>6, <3>1, Zenon
    <3>3. Len(channel) \in Nat
      BY <1>6
    <3>4. Len(channel) = 0
      BY <3>2, <3>3
    <3>5. QED
      BY <3>1, <3>4, Zenon
  <2>2. CASE channel' = channel
    BY <2>1, <2>2 DEF ChannelOK
  <2>3. CASE channel' # channel
    <3>1. run'[h].ok /\ Len(channel') = 1
      BY <1>2, <1>4, <2>1, <2>3
    <3>2. \A g \in Handlers : run'[g].step # "sending" /\ (run'[g].step = "finishing" => run'[g].ok)
      BY <1>2, <1>7, <3>1 DEF Working
    <3>3. QED
      BY <1>1, <3>1, <3>2 DEF ChannelOK
  <2>4. QED
    BY <2>2, <2>3
<1>11. QED
  BY <1>5, <1>8, <1>9, <1>10 DEF IInv

LEMMA FinishKeepsIInv ==
  ASSUME IInv, NEW h \in Handlers, FinishPost(h)
  PROVE  IInv'
<1>1. /\ run \in [Handlers -> Run] /\ post \in Post /\ run[h].step = "finishing"
      /\ run[h].ok \in BOOLEAN /\ post.status = "PUBLISHING"
      /\ UNCHANGED <<shown, able, channel, faults, consent, overtaken, unsure>>
  BY DEF IInv, TypeOK, RunOK, Working, FinishPost, At, history, Run
<1>2. /\ run' \in [Handlers -> Run] /\ \A g \in Handlers : g # h => run'[g] = run[g]
      /\ run'[h].step = "idle"
  BY <1>1, Stopped DEF FinishPost
<1>3. /\ post' \in Post /\ post'.status = IF run[h].ok THEN "PUBLISHED" ELSE "FAILED"
      /\ post'.body = post.body /\ post'.approved = post.approved
  BY <1>1, FinishedRow DEF FinishPost
<1>4. \A g \in Handlers : g # h => ~Working(g)
  BY <1>1 DEF IInv, OneWorker, Working
<1>5. TypeOK' /\ RowOK'
  BY <1>1, <1>2, <1>3 DEF IInv, TypeOK, RowOK
<1>6. /\ RunOK(h)' /\ ~Working(h)'
      /\ \A g \in Handlers : Carrying(g) => run[g].body = post'.body \/ overtaken'
  BY <1>1, <1>2, <1>3 DEF RunOK, Working, Carrying, IInv
<1>7. ChannelOK'
  BY <1>1, <1>2, <1>3, <1>4 DEF IInv, ChannelOK, Working
<1>8. QED
  BY <1>1, <1>2, <1>3, <1>4, <1>5, <1>6, <1>7, StepKeepsIInv

LEMMA FinishFailsKeepsIInv ==
  ASSUME IInv, NEW h \in Handlers, FinishFails(h)
  PROVE  IInv'
<1>1. /\ run \in [Handlers -> Run] /\ post \in Post /\ run[h].step = "finishing" /\ RunOK(h)
      /\ UNCHANGED <<post, shown, able, channel, consent, overtaken>>
  BY DEF IInv, TypeOK, FinishFails, At
<1>2. faults' \in 0..MaxFaults
  BY BoundsAreNaturals DEF FinishFails, Fault, IInv, TypeOK
<1>3. CASE ~run[h].ok
  <2>1. Stop(h) /\ unsure' = unsure
    BY <1>3 DEF FinishFails
  <2>2. QED
    BY <1>1, <1>2, <2>1, Stopped, ReadStepKeepsIInv DEF IInv, TypeOK, RowOK
<1>4. CASE run[h].ok
  <2> DEFINE r == [run[h] EXCEPT !.ok = FALSE]
  <2>1. r \in Run /\ r.step = "finishing" /\ r.body = run[h].body
    BY <1>1 DEF Run
  <2>2. run' = [run EXCEPT ![h] = r] /\ unsure' = TRUE
    BY <1>1, <1>4 DEF FinishFails
  <2> HIDE DEF r
  <2>3. /\ run' \in [Handlers -> Run] /\ \A g \in Handlers : g # h => run'[g] = run[g]
        /\ run'[h].step = "finishing" /\ run'[h].body = run[h].body
    BY <1>1, <2>1, <2>2
  <2>4. TypeOK' /\ RowOK' /\ ChannelOK'
    BY <1>1, <1>2, <2>2, <2>3 DEF IInv, TypeOK, RowOK, ChannelOK
  <2>5. RunOK(h)' /\ \A g \in Handlers : Carrying(g) => run[g].body = post'.body \/ overtaken'
    BY <1>1, <2>3 DEF RunOK, Working, Carrying, IInv
  <2>6. \A g \in Handlers : g # h => ~Working(g)
    BY <1>1 DEF IInv, OneWorker, Working
  <2>7. QED
    BY <1>1, <2>3, <2>4, <2>5, <2>6, StepKeepsIInv DEF IInv, TypeOK, RowOK
<1>5. QED
  BY <1>3, <1>4

LEMMA IdleKeepsIInv ==
  ASSUME IInv, UNCHANGED <<post, shown, run, channel, faults, history>>, able' \in BOOLEAN
  PROVE  IInv'
<1>1. TypeOK' /\ RowOK' /\ ChannelOK'
  BY DEF IInv, TypeOK, RowOK, ChannelOK, history
<1>2. OneWorker' /\ \A h \in Handlers : RunOK(h)'
  BY DEF IInv, OneWorker, RunOK, Working, Carrying, history
<1>3. QED
  BY <1>1, <1>2 DEF IInv

LEMMA NextKeepsIInv == IInv /\ [Next]_vars => IInv'
<1> SUFFICES ASSUME IInv, [Next]_vars PROVE IInv'
  OBVIOUS
<1>1. ASSUME NEW h \in Handlers, UserActs(h) PROVE IInv'
  BY <1>1, PreviewKeepsIInv, EditKeepsIInv, ReadKeepsIInv DEF UserActs
<1>2. ASSUME NEW h \in Handlers, Continue(h) PROVE IInv'
  BY <1>2, RefreshKeepsIInv, ReadKeepsIInv, ApproveKeepsIInv, ClaimKeepsIInv, SendKeepsIInv,
     FinishKeepsIInv DEF Continue
<1>3. ASSUME NEW h \in Handlers, SendFails(h) \/ FinishFails(h) \/ Crash(h) PROVE IInv'
  BY <1>3, SendKeepsIInv, FinishFailsKeepsIInv, ReadKeepsIInv
<1>4. CASE TurnChannel \/ UNCHANGED vars
  <2>1. UNCHANGED <<post, shown, run, channel, faults, history>> /\ able' \in BOOLEAN
    BY <1>4 DEF TurnChannel, vars, IInv, TypeOK
  <2>2. QED
    BY <2>1, IdleKeepsIInv
<1>5. QED
  BY <1>1, <1>2, <1>3, <1>4 DEF Next

-----------------------------------------------------------------------------
(* The inductive invariant: what a handler carries to the channel is the    *)
(* text of the row unless it was overtaken, and one sender at a time holds  *)
(* the claim (publish).                                                     *)
THEOREM PostInvariant == Spec => []IInv
BY InitIInv, NextKeepsIInv, PTL DEF Spec

(* The row, the handlers and the channel keep their types, and 0037's       *)
(* CHECKs on approvals are never broken.                                    *)
THEOREM TypeCorrect == Spec => []TypeOK
<1>1. IInv => TypeOK
  BY DEF IInv
<1>2. QED
  BY <1>1, PostInvariant, PTL

(* What goes out is the text of the approval in force, unless an edit fell  *)
(* between a handler's read and its claim (publish, approvePost).           *)
THEOREM SentIsApprovedHolds == Spec => SentIsApproved
<1> DEFINE Fit == channel' # channel => channel' = Append(channel, consent) \/ overtaken
<1>1. ASSUME IInv, [Next]_vars PROVE Fit
  <2>1. ASSUME NEW h \in Handlers, Send(h) \/ SendFails(h) PROVE Fit
    <3>1. /\ RunOK(h) /\ RowOK /\ Carrying(h) /\ Working(h) /\ post.status = "PUBLISHING"
      BY <1>1, <2>1 DEF IInv, RunOK, Carrying, Working, Send, SendFails, At
    <3>2. post.body = consent
      BY <1>1, <3>1 DEF IInv, TypeOK, RowOK
    <3>3. channel' \in {channel, Append(channel, run[h].body)}
      BY <2>1 DEF Send, SendFails
    <3>4. QED
      BY <3>1, <3>2, <3>3 DEF RunOK
  <2>2. ASSUME NEW h \in Handlers, UserActs(h) PROVE Fit
    BY <2>2 DEF UserActs, ClaimPost, Edit, Tap
  <2>3. ASSUME NEW h \in Handlers, Continue(h) PROVE Fit
    BY <2>1, <2>3 DEF Continue, RevisePost, Show, ApprovePost, ReadPost, CheckChannel,
       ClaimPublish, FinishPost
  <2>4. ASSUME NEW h \in Handlers, FinishFails(h) \/ Crash(h) PROVE Fit
    BY <2>4 DEF FinishFails, Crash
  <2>5. QED
    BY <1>1, <2>1, <2>2, <2>3, <2>4 DEF Next, TurnChannel, vars
<1>2. IInv /\ [Next]_vars => [Fit]_vars
  BY <1>1
<1>3. QED
  BY <1>2, PostInvariant, PTL DEF Spec, SentIsApproved

(* A published row stays as it is (revisePost, approvePost, claimPublish).  *)
THEOREM PublishedIsFinalHolds == Spec => PublishedIsFinal
<1>1. ASSUME IInv, [Next]_vars, post.status = "PUBLISHED" PROVE post' = post
  <2>1. post \in Post
    BY <1>1 DEF IInv, TypeOK
  <2>2. ASSUME NEW h \in Handlers, UserActs(h) PROVE post' = post
    BY <1>1, <2>2 DEF UserActs, ClaimPost, Edit, Revise, Tap, Revisable
  <2>3. ASSUME NEW h \in Handlers, Continue(h) PROVE post' = post
    <3>1. ~FinishPost(h)
      BY <1>1 DEF IInv, RunOK, Working, FinishPost, At
    <3>2. ~Approvable(post, run[h].body) /\ ~Revisable(post) /\ ~Claimable(post)
      BY <1>1 DEF Approvable, Revisable, Claimable
    <3>3. QED
      BY <2>3, <3>1, <3>2 DEF Continue, RevisePost, Revise, Show, ApprovePost, ReadPost, CheckChannel,
         ClaimPublish, Send
  <2>4. ASSUME NEW h \in Handlers, SendFails(h) \/ FinishFails(h) \/ Crash(h) PROVE post' = post
    BY <2>4 DEF SendFails, FinishFails, Crash
  <2>5. QED
    BY <1>1, <2>2, <2>3, <2>4 DEF Next, TurnChannel, vars
<1>2. IInv /\ [Next]_vars => [post.status = "PUBLISHED" => post' = post]_post
  BY <1>1
<1>3. QED
  BY <1>2, PostInvariant, PTL DEF Spec, PublishedIsFinal

(* However often Publish is pressed, the channel gets one message, unless   *)
(* the bot took one for a failure (claimPublish, finishPost).               *)
THEOREM OneMessageHolds == Spec => []OneMessage
<1>1. IInv => OneMessage
  BY DEF IInv, ChannelOK, OneMessage, TypeOK
<1>2. QED
  BY <1>1, PostInvariant, PTL
=============================================================================
