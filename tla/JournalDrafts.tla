----------------------------- MODULE JournalDrafts -----------------------------
(***************************************************************************)
(* Journal drafts of one Telegram user: the bot runs that open, answer,    *)
(* confirm and cancel them (journal/journalApplicationService.ts), every   *)
(* SQL statement of telegram/pgTelegramStore.ts a step of its own, and the *)
(* trades they end in.                                                     *)
(*                                                                         *)
(* Of the fields only which are filled counts.  Two variables are history: *)
(* holder, the run whose claim was the last to succeed, and adrift, the    *)
(* drafts whose claim and trade have come apart: another run took them out *)
(* of CONFIRMING, or the answer to the commit of their trade was lost.     *)
(***************************************************************************)
EXTENDS Integers, FiniteSets

CONSTANTS Messages,    \* messages the user writes; each is the key of its draft
          Parsed,      \* the fields a message fills
          FieldCount,  \* number of required fields
          Handlers,    \* bot runs at one time
          MaxTrades,   \* bound of the trades made
          MaxCrashes,  \* bound of the runs that die
          MayLoseAnswers  \* whether the answer to a commit may be lost

ASSUME FieldCountIsNatural == FieldCount \in Nat
ASSUME ParsedFillsFields == Parsed \in [Messages -> SUBSET (1..FieldCount)]
ASSUME MessagesAreFinite == IsFiniteSet(Messages)
ASSUME NobodyIsNoHandler == "nobody" \notin Handlers
ASSUME MayLoseAnswersIsBoolean == MayLoseAnswers \in BOOLEAN
ASSUME BoundsAreNaturals == MaxTrades \in Nat /\ MaxCrashes \in Nat

VARIABLES draft,    \* table telegram_journal_drafts, by message
          run,      \* the bot runs
          trades,   \* trades made from drafts
          crashes,  \* runs that died so far
          holder,   \* history: the run whose claim of the draft was the last
          adrift   \* history: the drafts whose claim and trade came apart

vars == <<draft, run, trades, crashes, holder, adrift>>

Fields == 1..FieldCount

OpenStates == {"AWAITING_CONFIRMATION", "NEEDS_DETAIL"}
States     == OpenStates \cup {"CONFIRMING", "CONFIRMED", "CANCELLED", "EXPIRED"}
NoDraft    == "none"

NoTrade   == 0
NoMessage == "no message"
Nobody    == "nobody"

(* A row; live says that expires_at is still to come, since orders the rows  *)
(* by created_at.                                                           *)
Row == [state : States \cup {NoDraft}, filled : SUBSET Fields, trade : Nat,
        live : BOOLEAN, since : Nat]
NoRow == [state |-> NoDraft, filled |-> {}, trade |-> NoTrade, live |-> FALSE, since |-> 0]

(* The steps of a run, named after the statement that comes next.           *)
Steps == {"idle", "creating draft", "reading answer", "writing answer", "reading confirm",
          "claiming", "creating trade", "reopening", "releasing", "binding",
          "reading cancel", "cancelling", "expiring"}

Idle == [step |-> "idle", draft |-> NoMessage, filled |-> {}, state |-> "EXPIRED", trade |-> NoTrade]

At(h, step) == run[h].step = step

Exists(d) == draft[d].state # NoDraft
Missing(filled) == Fields \ filled
(* Seeded faults carry the prefix Faulty; no action uses them.              *)

(* fault: the sweep takes drafts that are being confirmed, too *)
FaultyExpires(row) == row.state \in OpenStates \cup {"CONFIRMING"} /\ ~row.live
Expires(row) == row.state \in OpenStates /\ ~row.live
OpenState(filled) == IF Missing(filled) = {} THEN "AWAITING_CONFIRMATION" ELSE "NEEDS_DETAIL"

(* missingJournalFields(draft)[0], as a set.                                *)
NextField(filled) == {f \in Missing(filled) : \A g \in Missing(filled) : f <= g}

Goto(h, step)    == run' = [run EXCEPT ![h] = [run[h] EXCEPT !.step = step]]
Become(h, step, filled) ==
  run' = [run EXCEPT ![h] = [run[h] EXCEPT !.step = step, !.filled = filled]]
Releasing(h, state) ==
  run' = [run EXCEPT ![h] = [run[h] EXCEPT !.step = "releasing", !.state = state]]
Stop(h)          == run' = [run EXCEPT ![h] = Idle]
Start(h, step, d) == run' = [run EXCEPT ![h] = [Idle EXCEPT !.step = step, !.draft = d]]

(* What a write by run h does to the claim somebody else may hold.          *)
Overruns(h, d) == draft[d].state = "CONFIRMING" /\ holder[d] # h
NoteOverrun(h, d) == adrift' = IF Overruns(h, d) THEN adrift \cup {d} ELSE adrift

Init ==
  /\ draft = [d \in Messages |-> NoRow]
  /\ run = [h \in Handlers |-> Idle]
  /\ trades = {}
  /\ crashes = 0
  /\ holder = [d \in Messages |-> Nobody]
  /\ adrift = {}

-----------------------------------------------------------------------------
(* The store.                                                               *)

(* updateDraft: by id alone.  The table's check refuses to take a trade's   *)
(* name from a draft, or its state from a draft that names one.             *)
Refused(d) == draft[d].trade # NoTrade

Updated(d, state, filled) == [draft[d] EXCEPT !.state = state, !.filled = filled]

UpdateDraft(h, d, state, filled) ==
  IF Refused(d)
  THEN UNCHANGED <<draft, adrift>>
  ELSE /\ draft' = [draft EXCEPT ![d] = Updated(d, state, filled)]
       /\ NoteOverrun(h, d)

(* expireStaleDrafts.                                                       *)
Swept(row) == IF Expires(row) THEN [row EXCEPT !.state = "EXPIRED"] ELSE row

(* createDraft: a second insert of a message only returns the row.          *)
NewDraft(m) == [state |-> OpenState(Parsed[m]), filled |-> Parsed[m],
                trade |-> NoTrade, live |-> TRUE,
                since |-> Cardinality({d \in Messages : Exists(d)})]
(* fault: the conflict overwrites the row *)
FaultyInserted(m) == NewDraft(m)
Inserted(m) == IF Exists(m) THEN draft[m] ELSE NewDraft(m)

-----------------------------------------------------------------------------
(* What the user starts.                                                    *)

(* A message that is no answer; a redelivered one arrives again.            *)
OpenDraft(h, m) ==
  /\ At(h, "idle")
  /\ draft' = [d \in Messages |-> Swept(draft[d])]
  /\ Start(h, "creating draft", m)
  /\ UNCHANGED <<trades, crashes, holder, adrift>>

(* A message while the current draft, the newest open one, lacks a field.   *)
Open(d) == Exists(d) /\ draft[d].state \in OpenStates /\ draft[d].live
FindOpenDraft(d) == Open(d) /\ \A e \in Messages : Open(e) => draft[e].since <= draft[d].since

ReplyTo(h, d) ==
  /\ At(h, "idle")
  /\ FindOpenDraft(d)
  /\ Missing(draft[d].filled) # {}
  /\ Start(h, "reading answer", d)
  /\ UNCHANGED <<draft, trades, crashes, holder, adrift>>

(* A button of a card; cards stay in the chat.                              *)
Press(h, d, step) ==
  /\ At(h, "idle")
  /\ Exists(d)
  /\ Start(h, step, d)
  /\ UNCHANGED <<draft, trades, crashes, holder, adrift>>

PressConfirm(h, d) == Press(h, d, "reading confirm")
PressCancel(h, d)  == Press(h, d, "reading cancel")

-----------------------------------------------------------------------------
(* The steps of a run.                                                      *)

CreateDraft(h) ==
  /\ At(h, "creating draft")
  /\ draft' = [draft EXCEPT ![run[h].draft] = Inserted(run[h].draft)]
  /\ Stop(h)
  /\ UNCHANGED <<trades, crashes, holder, adrift>>

(* requireOwnedDraft of the three operations: an expired draft is marked    *)
(* by a statement of its own.                                               *)
FindsExpired(h) ==
  /\ run[h].step \in {"reading answer", "reading confirm", "reading cancel"}
  /\ Expires(draft[run[h].draft])
  /\ Goto(h, "expiring")
  /\ UNCHANGED <<draft, trades, crashes, holder, adrift>>

Expire(h) ==
  /\ At(h, "expiring")
  /\ UpdateDraft(h, run[h].draft, "EXPIRED", draft[run[h].draft].filled)
  /\ Stop(h)
  /\ UNCHANGED <<trades, crashes, holder>>

(* answer: an unreadable value, or nothing missing, ends the run.           *)
ReadForAnswer(h) ==
  /\ At(h, "reading answer")
  /\ LET row == draft[run[h].draft] IN
       /\ ~Expires(row)
       /\ \/ Stop(h)
          \/ /\ Missing(row.filled) # {}
             /\ Become(h, "writing answer", row.filled \cup NextField(row.filled))
  /\ UNCHANGED <<draft, trades, crashes, holder, adrift>>

WriteAnswer(h) ==
  /\ At(h, "writing answer")
  /\ UpdateDraft(h, run[h].draft, OpenState(run[h].filled), run[h].filled)
  /\ Stop(h)
  /\ UNCHANGED <<trades, crashes, holder>>

(* confirm: ownership, completeness, claim, trade, binding.                 *)
ReadForConfirm(h) ==
  /\ At(h, "reading confirm")
  /\ LET row == draft[run[h].draft] IN
       /\ ~Expires(row)
       /\ IF Missing(row.filled) = {}
          THEN Become(h, "claiming", row.filled)
          ELSE Stop(h)
  /\ UNCHANGED <<draft, trades, crashes, holder, adrift>>

(* fault: the claim is not conditional on an open draft *)
FaultyClaimable(d) == draft[d].state \in OpenStates \cup {"CONFIRMING"}
Claimable(d) == draft[d].state \in OpenStates

ClaimDraft(h) ==
  /\ At(h, "claiming")
  /\ IF Claimable(run[h].draft)
     THEN /\ draft' = [draft EXCEPT ![run[h].draft] = [@ EXCEPT !.state = "CONFIRMING"]]
          /\ holder' = [holder EXCEPT ![run[h].draft] = h]
          /\ Goto(h, "creating trade")
     ELSE Stop(h) /\ UNCHANGED <<draft, holder>>
  /\ UNCHANGED <<trades, crashes, adrift>>

(* TradeService.createTrade: one transaction, which may refuse a field,     *)
(* refuse without naming one, or commit and fail to say so.                 *)
CreateTrade(h) ==
  /\ At(h, "creating trade")
  /\ Cardinality(trades) < MaxTrades
  /\ LET id == Cardinality(trades) + 1 IN
       /\ trades' = trades \cup {[id |-> id, draft |-> run[h].draft]}
       /\ run' = [run EXCEPT ![h] = [run[h] EXCEPT !.step = "binding", !.trade = id]]
  /\ UNCHANGED <<draft, crashes, holder, adrift>>

RefusedField(h) ==
  /\ At(h, "creating trade")
  /\ \E f \in Fields : Become(h, "reopening", run[h].filled \ {f})
  /\ UNCHANGED <<draft, trades, crashes, holder, adrift>>

(* fault: the claim is released only when the refusal names a field *)
FaultyRefusedEntry(h) ==
  /\ At(h, "creating trade")
  /\ Stop(h)
  /\ UNCHANGED <<draft, trades, crashes, holder, adrift>>

(* Whatever createTrade throws counts as a refusal.                         *)
RefusedEntry(h) ==
  /\ At(h, "creating trade")
  /\ Releasing(h, "AWAITING_CONFIRMATION")
  /\ UNCHANGED <<draft, trades, crashes, holder, adrift>>

(* The trade is in the ledger, the run has seen an error.                   *)
TradeUnheard(h) ==
  /\ MayLoseAnswers
  /\ At(h, "creating trade")
  /\ Cardinality(trades) < MaxTrades
  /\ trades' = trades \cup {[id |-> Cardinality(trades) + 1, draft |-> run[h].draft]}
  /\ adrift' = adrift \cup {run[h].draft}
  /\ Releasing(h, "AWAITING_CONFIRMATION")
  /\ UNCHANGED <<draft, crashes, holder>>

Reopen(h) ==
  /\ At(h, "reopening")
  /\ UpdateDraft(h, run[h].draft, "NEEDS_DETAIL", run[h].filled)
  /\ IF Refused(run[h].draft)
     THEN Stop(h)
     ELSE Releasing(h, "NEEDS_DETAIL")
  /\ UNCHANGED <<trades, crashes, holder>>

ReleaseClaim(h) ==
  /\ At(h, "releasing")
  /\ LET d == run[h].draft IN
       IF draft[d].state = "CONFIRMING"
       THEN draft' = [draft EXCEPT ![d] = [@ EXCEPT !.state = run[h].state]] /\ NoteOverrun(h, d)
       ELSE UNCHANGED <<draft, adrift>>
  /\ Stop(h)
  /\ UNCHANGED <<trades, crashes, holder>>

(* markDraftConfirmed; a draft that is not CONFIRMING stays as it is, and   *)
(* the caller is told that the trade was saved.                             *)
BindTrade(h) ==
  /\ At(h, "binding")
  /\ LET d == run[h].draft IN
       IF draft[d].state = "CONFIRMING"
       THEN /\ draft' = [draft EXCEPT ![d] =
                           [@ EXCEPT !.state = "CONFIRMED", !.trade = run[h].trade]]
            /\ NoteOverrun(h, d)
       ELSE UNCHANGED <<draft, adrift>>
  /\ Stop(h)
  /\ UNCHANGED <<trades, crashes, holder>>

(* cancel.                                                                  *)
ReadForCancel(h) ==
  /\ At(h, "reading cancel")
  /\ LET row == draft[run[h].draft] IN
       /\ ~Expires(row)
       /\ IF row.state = "CONFIRMED" THEN Stop(h) ELSE Goto(h, "cancelling")
  /\ UNCHANGED <<draft, trades, crashes, holder, adrift>>

CancelDraft(h) ==
  /\ At(h, "cancelling")
  /\ UpdateDraft(h, run[h].draft, "CANCELLED", draft[run[h].draft].filled)
  /\ Stop(h)
  /\ UNCHANGED <<trades, crashes, holder>>

-----------------------------------------------------------------------------
(* External: time passes a draft's expiry; a process dies.                  *)
Lapse(d) ==
  /\ Exists(d) /\ draft[d].live
  /\ draft' = [draft EXCEPT ![d] = [@ EXCEPT !.live = FALSE]]
  /\ UNCHANGED <<run, trades, crashes, holder, adrift>>

Crash(h) ==
  /\ ~At(h, "idle")
  /\ crashes < MaxCrashes
  /\ crashes' = crashes + 1
  /\ holder' = [d \in Messages |-> IF holder[d] = h THEN Nobody ELSE holder[d]]
  /\ Stop(h)
  /\ UNCHANGED <<draft, trades, adrift>>

UserActs(h) ==
  \E m \in Messages :
    OpenDraft(h, m) \/ ReplyTo(h, m) \/ PressConfirm(h, m) \/ PressCancel(h, m)

Continue(h) ==
  \/ CreateDraft(h) \/ FindsExpired(h) \/ Expire(h)
  \/ ReadForAnswer(h) \/ WriteAnswer(h)
  \/ ReadForConfirm(h) \/ ClaimDraft(h) \/ CreateTrade(h) \/ RefusedField(h)
  \/ RefusedEntry(h) \/ TradeUnheard(h) \/ Reopen(h) \/ ReleaseClaim(h) \/ BindTrade(h)
  \/ ReadForCancel(h) \/ CancelDraft(h)

Next ==
  \/ \E h \in Handlers : UserActs(h) \/ Continue(h) \/ Crash(h)
  \/ \E d \in Messages : Lapse(d)

Spec == Init /\ [][Next]_vars

(* A run that is started goes on; users owe nothing.                        *)
FairSpec == Spec /\ \A h \in Handlers : WF_vars(Continue(h))

-----------------------------------------------------------------------------
(* Properties.                                                              *)

TradesOf(d) == {t \in trades : t.draft = d}
AtMostOneTrade(d) == \A t, u \in TradesOf(d) : t = u

(* Every variable has its type, and a draft names a trade exactly when it   *)
(* is CONFIRMED (the check of migration 0023), whoever writes to it.        *)
TypeOK ==
  /\ draft \in [Messages -> Row]
  /\ run \in [Handlers -> [step : Steps, draft : Messages \cup {NoMessage}, filled : SUBSET Fields,
                          state : States, trade : Nat]]
  /\ trades \subseteq [id : Nat \ {NoTrade}, draft : Messages] /\ IsFiniteSet(trades)
  /\ crashes \in Nat
  /\ holder \in [Messages -> Handlers \cup {Nobody}]
  /\ adrift \subseteq Messages
  /\ \A d \in Messages :
       Exists(d) => (draft[d].state = "CONFIRMED" <=> draft[d].trade # NoTrade)

(* A draft gives at most one trade, however many runs confirm, answer and   *)
(* cancel it, crash or see their trade refused (claimDraftForConfirmation): *)
(* as long as no other run has taken its claim away, and no commit of a     *)
(* trade of it went unheard.  With one of the two the code may make another.*)
OneTradeUnlessAdrift ==
  \A d \in Messages \ adrift : AtMostOneTrade(d)

(* A draft that still shows as open, or as cancelled or expired, has no     *)
(* trade in the ledger, with the same exceptions.                           *)
UnsavedMeansNoTrade ==
  \A d \in Messages \ adrift :
    TradesOf(d) # {} => draft[d].state \in {"CONFIRMING", "CONFIRMED"}

(* The first without exceptions, as the header of the service has it: two   *)
(* confirmations cannot write two trades.  The code breaks it: an answer    *)
(* under way takes the draft out of CONFIRMING, and it is claimed again.    *)
OneTradePerDraft == \A d \in Messages : AtMostOneTrade(d)

(* A saved draft is final: no late answer, cancellation, expiry, release or *)
(* redelivered message changes its row (updateDraft, createDraft).          *)
SavedIsFinal ==
  [][\A d \in Messages :
       Exists(d) /\ draft[d].state = "CONFIRMED" =>
         draft'[d] = [draft[d] EXCEPT !.live = draft'[d].live]]_vars

(* A claim ends: the draft is saved or usable again, unless the process     *)
(* died while it held the claim (confirm's release after a refusal).        *)
Claimed(d) == Exists(d) /\ draft[d].state = "CONFIRMING"
HeldByARun(d) == \E h \in Handlers : run[h].draft = d /\ holder[d] = h
                   /\ run[h].step \in {"creating trade", "reopening", "releasing", "binding"}
ClaimsEnd ==
  \A d \in Messages : (Claimed(d) /\ HeldByARun(d)) ~> (~Claimed(d) \/ crashes > 0)
=============================================================================
