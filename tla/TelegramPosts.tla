----------------------------- MODULE TelegramPosts -----------------------------
(***************************************************************************)
(* A prepared channel post (telegram/telegramPostService.ts): previews of  *)
(* it, edits, and the button that approves and publishes it, served by     *)
(* several handlers of telegram/telegramBot.ts at once.  A step is a       *)
(* statement of telegram/pgTelegramStore.ts or a call of the Bot API.      *)
(*                                                                         *)
(* The post is the row of one user and dedupe key in telegram_outbox_posts *)
(* (0037); a body stands for the text and its hash.  Previews render what  *)
(* the data says at the time: any body.  No code writes CANCELLED.         *)
(* History: consent, overtaken and unsure.                                 *)
(***************************************************************************)
EXTENDS Integers, Sequences

CONSTANTS Bodies,       \* rendered texts
          Handlers,     \* updates served at one time
          MaxAttempts,  \* MAX_PUBLISH_ATTEMPTS
          MaxFaults,    \* lost answers, failing statements, processes that die
          NoBody        \* a value outside Bodies

ASSUME NoBodyIsNone == NoBody \notin Bodies
ASSUME BoundsAreNaturals == {MaxAttempts, MaxFaults} \subseteq Nat

VARIABLES post,       \* the row of telegram_outbox_posts
          shown,      \* a Publish button of the post is on a screen
          run,        \* the handlers
          able,       \* the channel is ACTIVE and lets the bot post
          channel,    \* messages in the channel, oldest first
          faults,     \* faults so far
          consent,    \* history: the text approved last, none since an edit took it back
          overtaken,  \* history: the text was changed under a handler about to claim
          unsure      \* history: a message is out that the bot took for a failure

history == <<consent, overtaken, unsure>>
vars == <<post, shown, run, able, channel, faults, history>>

Statuses == {"none", "DRAFT", "APPROVED", "PUBLISHING", "PUBLISHED", "FAILED"}
Post == [status : Statuses, body : Bodies \cup {NoBody}, approved : Bodies \cup {NoBody},
         attempts : 0..MaxAttempts]
NoPost == [status |-> "none", body |-> NoBody, approved |-> NoBody, attempts |-> 0]

(* The steps of a handler, named after what comes next.  body: the text it  *)
(* rendered, read or is sending; ok: the Bot API confirmed the message.     *)
Steps == {"idle", "revising", "previewing", "showing", "approving", "reading", "checking",
          "claiming", "sending", "finishing"}
Run == [step : Steps, body : Bodies \cup {NoBody}, ok : BOOLEAN]
Idle == [step |-> "idle", body |-> NoBody, ok |-> FALSE]

At(h, step) == run[h].step = step
Goto(h, step) == run' = [run EXCEPT ![h].step = step]
With(h, step, body) == run' = [run EXCEPT ![h] = [step |-> step, body |-> body, ok |-> FALSE]]
Stop(h) == run' = [run EXCEPT ![h] = Idle]
Fault == faults < MaxFaults /\ faults' = faults + 1

Init ==
  /\ post = NoPost
  /\ shown = FALSE /\ channel = <<>>
  /\ run = [h \in Handlers |-> Idle]
  /\ able = TRUE
  /\ faults = 0
  /\ consent = NoBody /\ overtaken = FALSE /\ unsure = FALSE

-----------------------------------------------------------------------------
(* The conditional writes of the store.  Seeded faults carry the prefix     *)
(* Faulty; no action uses them.                                             *)

NewPost(body) == [NoPost EXCEPT !.status = "DRAFT", !.body = body]

(* fault: a post in flight or published can be edited *)
FaultyRevisable(row) == row.status # "none"
Revisable(row) == row.status \in {"DRAFT", "APPROVED", "FAILED"}

(* revisePost; the attempts stay counted.                                   *)
Revised(row, body) == [row EXCEPT !.status = "DRAFT", !.body = body, !.approved = NoBody]

(* fault: the approval does not ask whether the text is still the one read *)
FaultyApprovable(row, body) == row.status \in {"DRAFT", "APPROVED", "FAILED"}
Approvable(row, body) == row.body = body /\ row.status \in {"DRAFT", "APPROVED", "FAILED"}
Approved(row) == [row EXCEPT !.status = "APPROVED", !.approved = row.body]

(* fault: the claim does not ask whether a send is already in flight *)
FaultyClaimable(row) == row.status # "PUBLISHED" /\ row.attempts < MaxAttempts
Claimable(row) == row.status \in {"APPROVED", "FAILED"} /\ row.attempts < MaxAttempts
Claimed(row) == [row EXCEPT !.status = "PUBLISHING", !.attempts = @ + 1]

(* fault: an outcome is recorded for an approved row, not for one in flight *)
FaultyFinished(row, ok) ==
  IF row.status = "APPROVED" THEN [row EXCEPT !.status = IF ok THEN "PUBLISHED" ELSE "FAILED"] ELSE row
Finished(row, ok) ==
  IF row.status = "PUBLISHING" THEN [row EXCEPT !.status = IF ok THEN "PUBLISHED" ELSE "FAILED"] ELSE row

-----------------------------------------------------------------------------
(* h is past publish's read and not yet at its claim.                       *)
BeforeClaim(h) == run[h].step \in {"checking", "claiming"}

(* revisePost's statement, with what it means for consent.                  *)
Revise(body) ==
  IF Revisable(post)
  THEN /\ post' = Revised(post, body)
       /\ consent' = NoBody
       /\ overtaken' = (overtaken \/ \E h \in Handlers : BeforeClaim(h) /\ run[h].body # body)
  ELSE UNCHANGED <<post, consent, overtaken>>

(* preview: render, insert or find, refresh a draft that says otherwise.    *)

ClaimPost(h, body) ==
  /\ At(h, "idle")
  /\ post' = IF post.status = "none" THEN NewPost(body) ELSE post
  /\ With(h, IF post'.status = "DRAFT" /\ post'.body # body THEN "revising" ELSE "previewing", body)
  /\ UNCHANGED <<shown, able, channel, faults, history>>

RevisePost(h) ==
  /\ At(h, "revising")
  /\ Revise(run[h].body)
  /\ Goto(h, "previewing")
  /\ UNCHANGED <<shown, able, channel, faults, unsure>>

(* edit: the text of the user, in the same row.                             *)
Edit(h, body) ==
  /\ At(h, "idle") /\ shown
  /\ Revise(body)
  /\ IF Revisable(post) THEN With(h, "showing", body) ELSE UNCHANGED run
  /\ UNCHANGED <<shown, able, channel, faults, unsure>>

(* The rendered text with its buttons, Publish among them where a send is   *)
(* possible; a message that does not get through is swallowed (safeSend).   *)
Show(h) ==
  /\ \/ /\ At(h, "showing") \/ (At(h, "previewing") /\ able)
        /\ shown' = TRUE
     \/ /\ run[h].step \in {"showing", "previewing"}
        /\ UNCHANGED shown
  /\ Stop(h)
  /\ UNCHANGED <<post, able, channel, faults, history>>

-----------------------------------------------------------------------------
(* publishApprovedPost: one tap approves, then publishes.                   *)

(* The button names the post, not the text it was shown with: approve reads *)
(* the text it is going to approve.                                         *)
Tap(h) ==
  /\ At(h, "idle") /\ shown
  /\ With(h, "approving", post.body)
  /\ UNCHANGED <<post, shown, able, channel, faults, history>>

ApprovePost(h) ==
  /\ At(h, "approving")
  /\ IF Approvable(post, run[h].body)
     THEN post' = Approved(post) /\ consent' = run[h].body
     ELSE UNCHANGED <<post, consent>>
  /\ Goto(h, "reading")
  /\ UNCHANGED <<shown, able, channel, faults, overtaken, unsure>>

(* publish's findPost: what it reads here is what it will send.             *)
ReadPost(h) ==
  /\ At(h, "reading")
  /\ IF post.status \in {"PUBLISHED", "PUBLISHING"} \/ post.approved # post.body
     THEN Stop(h)
     ELSE With(h, "checking", post.body)
  /\ UNCHANGED <<post, shown, able, channel, faults, history>>

(* findChannel and blockedReason.                                           *)
CheckChannel(h) ==
  /\ At(h, "checking")
  /\ IF able THEN Goto(h, "claiming") ELSE Stop(h)
  /\ UNCHANGED <<post, shown, able, channel, faults, history>>

ClaimPublish(h) ==
  /\ At(h, "claiming")
  /\ IF Claimable(post) THEN post' = Claimed(post) /\ Goto(h, "sending")
                        ELSE UNCHANGED post /\ Stop(h)
  /\ UNCHANGED <<shown, able, channel, faults, history>>

(* Sent, or refused by Telegram.                                            *)
Send(h) ==
  /\ At(h, "sending")
  /\ \/ /\ able
        /\ channel' = Append(channel, run[h].body)
        /\ run' = [run EXCEPT ![h].step = "finishing", ![h].ok = TRUE]
     \/ Goto(h, "finishing") /\ UNCHANGED channel
  /\ UNCHANGED <<post, shown, able, faults, history>>

(* The answer is lost after the message is out.                             *)
SendFails(h) ==
  /\ At(h, "sending") /\ able
  /\ Fault
  /\ channel' = Append(channel, run[h].body)
  /\ unsure' = TRUE
  /\ Goto(h, "finishing")
  /\ UNCHANGED <<post, shown, able, consent, overtaken>>

FinishPost(h) ==
  /\ At(h, "finishing")
  /\ post' = Finished(post, run[h].ok)
  /\ Stop(h)
  /\ UNCHANGED <<shown, able, channel, faults, history>>

(* publish sends and records in one try: a record that fails after the      *)
(* message is out is handled as a failure of the send.                      *)
FinishFails(h) ==
  /\ At(h, "finishing")
  /\ Fault
  /\ IF run[h].ok
     THEN run' = [run EXCEPT ![h].ok = FALSE] /\ unsure' = TRUE
     ELSE Stop(h) /\ UNCHANGED unsure
  /\ UNCHANGED <<post, shown, able, channel, consent, overtaken>>

Crash(h) ==
  /\ ~At(h, "idle")
  /\ Fault
  /\ Stop(h)
  /\ UNCHANGED <<post, shown, able, channel, history>>

(* External: the bot loses or regains the right to post; the user binds     *)
(* another channel or comes back to this one.                               *)
TurnChannel ==
  /\ able' = ~able
  /\ UNCHANGED <<post, shown, run, channel, faults, history>>

UserActs(h) == Tap(h) \/ \E body \in Bodies : ClaimPost(h, body) \/ Edit(h, body)

Continue(h) ==
  \/ RevisePost(h) \/ Show(h) \/ ApprovePost(h) \/ ReadPost(h) \/ CheckChannel(h)
  \/ ClaimPublish(h) \/ Send(h) \/ FinishPost(h)

Next ==
  \/ \E h \in Handlers :
       UserActs(h) \/ Continue(h) \/ SendFails(h) \/ FinishFails(h) \/ Crash(h)
  \/ TurnChannel

Spec == Init /\ [][Next]_vars

(* A handler that has begun goes on.                                        *)
FairSpec == Spec /\ \A h \in Handlers : WF_vars(Continue(h))

-----------------------------------------------------------------------------
(* Properties.                                                              *)

(* Every variable has its type; an approval is of the text the row holds    *)
(* (0037's CHECK approval_matches_content), and what is in flight or out    *)
(* has one (publish_requires_approval).                                     *)
TypeOK ==
  /\ post \in Post
  /\ consent \in Bodies \cup {NoBody}
  /\ run \in [Handlers -> Run]
  /\ {able, shown, overtaken, unsure} \subseteq BOOLEAN
  /\ channel \in Seq(Bodies)
  /\ faults \in 0..MaxFaults
  /\ post.approved \in {NoBody, post.body}
  /\ post.status \in {"APPROVED", "PUBLISHING", "PUBLISHED", "FAILED"} => post.approved = post.body

(* Whatever previews, edits and taps overlap, what goes out is the text of  *)
(* the approval in force at that moment, unless the text was changed        *)
(* between a handler's read of it and its claim (publish, approvePost).     *)
SentIsApproved == [][channel' # channel => channel' = Append(channel, consent) \/ overtaken]_vars

(* However often Publish is pressed or retried, the channel gets one        *)
(* message, unless one went out that the bot took for a failure.            *)
OneMessage == Len(channel) <= 1 \/ unsure

(* A published post stays as it is: no edit, preview or late outcome        *)
(* touches a row whose message is out.                                      *)
PublishedIsFinal == [][post.status = "PUBLISHED" => post' = post]_post

(* A post in flight is answered for: PUBLISHING ends, unless something      *)
(* failed and the row is left for a person to look at.                      *)
InFlightEnds == post.status = "PUBLISHING" ~> (post.status # "PUBLISHING" \/ faults > 0)
=============================================================================
