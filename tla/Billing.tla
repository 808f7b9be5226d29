-------------------------------- MODULE Billing --------------------------------
(***************************************************************************)
(* The subscriptions of one user: the provider's events, delivered at      *)
(* least once and in any order, become rows of subscriptions (0017) and    *)
(* users.plan (billing/subscriptionService.ts), and the plan decides how   *)
(* many trading accounts may be created (entitlements and accounts).  A    *)
(* step is a statement, a transaction, or something the provider does.     *)
(*                                                                         *)
(* Every price maps to pro, so a stored row is always of pro.  live stands *)
(* for active, trialing and past_due; paused for every status the service  *)
(* knows and 0017 does not; other for what the service answers and does    *)
(* not store: a status outside its list, a checkout session that lacks the *)
(* user, the customer or the subscription.  History: recorded and crossed. *)
(***************************************************************************)
EXTENDS Integers, Sequences, FiniteSets

CONSTANTS Subscriptions,  \* the provider's subscriptions of the user
          Named,          \* those whose events carry the user's id
          Creators,       \* requests that create an account
          FreeQuota,      \* maxTradingAccounts of the free plan
          MaxAccounts,    \* accounts ever held
          MaxEvents,      \* events the provider reports of one subscription
          MaxReports,     \* and of all
          MaxMishaps      \* answers lost and processes that die

ASSUME NamedAreSubscriptions == Named \subseteq Subscriptions
ASSUME QuotasAreNaturals == {FreeQuota, MaxAccounts, MaxEvents, MaxReports, MaxMishaps} \subseteq Nat

VARIABLES log,       \* what the provider has reported of each subscription
          pending,   \* events that wait for a 2xx
          request,   \* the delivery of each event
          row,       \* table subscriptions: the status stored
          plan,      \* users.plan
          creator,   \* the plan each creating request has read
          accounts,  \* number of trading accounts
          mishaps,   \* faults so far
          recorded,  \* history: the last event of a subscription that was stored
          crossed    \* history: an event was overtaken, or two were handled at once

billingHistory == <<recorded, crossed>>
billingVars == <<log, pending, request, row, plan, creator, accounts, mishaps, billingHistory>>

Reported == {"checkout", "incomplete", "live", "paused", "unpaid", "canceled", "other"}
Stored == {"incomplete", "live", "unpaid", "canceled"}
Report == [status : Reported, priced : BOOLEAN]
Events == Subscriptions \X (1..MaxEvents)
Stages == {"idle", "linking", "recording", "granting"}
Absent == "none"

Past(s) == 1..Len(log[s])
Emitted == {e \in Events : e[2] \in Past(e[1])}
Of(e) == log[e[1]][e[2]]
AtStep(e, step) == request[e] = step
Proceed(e, step) == request' = [request EXCEPT ![e] = step]
Answer(e) == Proceed(e, "idle") /\ pending' = pending \ {e}
Mishap == mishaps < MaxMishaps /\ mishaps' = mishaps + 1

BillingInit ==
  /\ log = [s \in Subscriptions |-> <<>>]
  /\ pending = {}
  /\ request = [e \in Events |-> "idle"]
  /\ row = [s \in Subscriptions |-> Absent]
  /\ plan = "free"
  /\ creator = [c \in Creators |-> Absent]
  /\ accounts = 0 /\ mishaps = 0
  /\ recorded = [s \in Subscriptions |-> 0]
  /\ crossed = FALSE

-----------------------------------------------------------------------------
(* Seeded faults carry the prefix Faulty; no action uses them.              *)

(* planForPrice: a price that is not configured buys nothing.               *)
Purchased(report) == IF report.status = "live" /\ report.priced THEN "pro" ELSE "free"

(* 0017: the status and the plan are of its vocabulary, and the user has no *)
(* other live subscription.  Anything else makes the upsert throw.          *)
Storable(s, report) ==
  /\ report.status \in Stored
  /\ report.status = "live" =>
       report.priced /\ \A t \in Subscriptions \ {s} : row[t] # "live"

(* fault: an event that changes nothing of the row is taken for a duplicate *)
FaultyUpserted(e) == IF row[e[1]] = Of(e).status THEN "idle" ELSE "granting"
Upserted(e) == "granting"

(* The request ends in a 500; the provider will deliver the event again.    *)
Throws(e) == Proceed(e, "idle") /\ UNCHANGED pending

(* fault: an event of nobody is refused, not ignored *)
FaultyDeclines(e) == Throws(e)
(* handled: false is answered with 200, so that it is not sent again.       *)
Declines(e) == Answer(e)

(* fault: the account about to be inserted is not counted *)
FaultyFits(known) == known = "pro" \/ accounts <= FreeQuota
(* The guard of createWithQuotaGuard, for the plan read before it.          *)
Fits(known) == known = "pro" \/ accounts < FreeQuota

-----------------------------------------------------------------------------
(* External: the provider.                                                  *)

(* A subscription begins with its checkout, or incomplete or live; a        *)
(* canceled one stays so.  Other events come in between.                    *)
Follows(s, status) ==
  IF log[s] = <<>> THEN status \in {"checkout", "incomplete", "live", "other"}
  ELSE LET last == log[s][Len(log[s])].status IN
         last # "canceled" /\ status \notin {"checkout", last}

Emit(s, report) ==
  /\ Len(log[s]) < MaxEvents /\ Cardinality(Emitted) < MaxReports
  /\ Follows(s, report.status)
  /\ report.status # "live" => report.priced
  /\ log' = [log EXCEPT ![s] = Append(@, report)]
  /\ pending' = pending \cup {<<s, Len(log[s]) + 1>>}
  /\ UNCHANGED <<request, row, plan, creator, accounts, mishaps, billingHistory>>

(* The answer was lost: the event comes again.                              *)
Redeliver(e) ==
  /\ e \in Emitted \ pending /\ AtStep(e, "idle")
  /\ Mishap
  /\ pending' = pending \cup {e}
  /\ UNCHANGED <<log, request, row, plan, creator, accounts, billingHistory>>

-----------------------------------------------------------------------------
(* apply.                                                                   *)

(* The user is named by the event or found by the customer of a row.        *)
Attributed(s) == s \in Named \/ \E t \in Subscriptions : row[t] # Absent

(* An event that cannot be attributed, or of which there is nothing to      *)
(* store, is answered with 200.                                             *)
Receive(e) ==
  /\ e \in pending /\ AtStep(e, "idle")
  /\ \/ Of(e).status = "checkout" /\ Proceed(e, "linking") /\ UNCHANGED pending
     \/ /\ Of(e).status \notin {"checkout", "other"} /\ Attributed(e[1])
        /\ Proceed(e, "recording") /\ UNCHANGED pending
     \/ /\ Of(e).status = "other" \/ (Of(e).status # "checkout" /\ ~Attributed(e[1]))
        /\ Declines(e)
  /\ UNCHANGED <<log, row, plan, creator, accounts, mishaps, billingHistory>>

LinkCustomer(e) ==
  /\ AtStep(e, "linking")
  /\ row' = [row EXCEPT ![e[1]] = IF @ = Absent THEN "incomplete" ELSE @]
  /\ Answer(e)
  /\ UNCHANGED <<log, plan, creator, accounts, mishaps, billingHistory>>

(* An older event after a newer one; an event between the two writes of     *)
(* another; a lapse of one subscription while another is live.              *)
Crosses(e) ==
  \/ e[2] < recorded[e[1]]
  \/ \E d \in Events \ {e} : AtStep(d, "granting")
  \/ Of(e).status # "live" /\ \E t \in Subscriptions \ {e[1]} : row[t] = "live"

Upsert(e) ==
  /\ AtStep(e, "recording")
  /\ IF Storable(e[1], Of(e))
     THEN /\ row' = [row EXCEPT ![e[1]] = Of(e).status]
          /\ recorded' = [recorded EXCEPT ![e[1]] = IF @ < e[2] THEN e[2] ELSE @]
          /\ crossed' = (crossed \/ Crosses(e))
          /\ IF Upserted(e) = "idle" THEN Answer(e) ELSE Proceed(e, "granting") /\ UNCHANGED pending
     ELSE Throws(e) /\ UNCHANGED <<row, billingHistory>>
  /\ UNCHANGED <<log, plan, creator, accounts, mishaps>>

SetUserPlan(e) ==
  /\ AtStep(e, "granting")
  /\ plan' = Purchased(Of(e))
  /\ Answer(e)
  /\ UNCHANGED <<log, row, creator, accounts, mishaps, billingHistory>>

(* The process dies: the provider gets no answer.                           *)
Dies(e) ==
  /\ ~AtStep(e, "idle")
  /\ Mishap
  /\ Proceed(e, "idle")
  /\ UNCHANGED <<log, pending, row, plan, creator, accounts, billingHistory>>

-----------------------------------------------------------------------------
(* accountService.create: the plan is read first, then one transaction      *)
(* locks the user, counts and inserts (or inserts, if there is no limit).   *)

ReadPlan(c) ==
  /\ creator[c] = Absent
  /\ creator' = [creator EXCEPT ![c] = plan]
  /\ UNCHANGED <<log, pending, request, row, plan, accounts, mishaps, billingHistory>>

CreateWithQuotaGuard(c) ==
  /\ creator[c] # Absent
  /\ accounts' = IF Fits(creator[c]) /\ accounts < MaxAccounts THEN accounts + 1 ELSE accounts
  /\ creator' = [creator EXCEPT ![c] = Absent]
  /\ UNCHANGED <<log, pending, request, row, plan, mishaps, billingHistory>>

DeleteForUser ==
  /\ accounts > 0
  /\ accounts' = accounts - 1
  /\ UNCHANGED <<log, pending, request, row, plan, creator, mishaps, billingHistory>>

Handle(e) == LinkCustomer(e) \/ Upsert(e) \/ SetUserPlan(e)

BillingNext ==
  \/ \E s \in Subscriptions, report \in Report : Emit(s, report)
  \/ \E e \in Events : Redeliver(e) \/ Receive(e) \/ Handle(e) \/ Dies(e)
  \/ \E c \in Creators : ReadPlan(c) \/ CreateWithQuotaGuard(c)
  \/ DeleteForUser

BillingSpec == BillingInit /\ [][BillingNext]_billingVars

(* The provider delivers an event until it is answered, and a request that  *)
(* was received goes on.                                                    *)
FairBillingSpec ==
  BillingSpec /\ \A e \in Events : WF_billingVars(Receive(e)) /\ WF_billingVars(Handle(e))

-----------------------------------------------------------------------------
(* Properties.                                                              *)

(* Every variable has its type; only reported events wait for an answer.    *)
BillingTypeOK ==
  /\ log \in [Subscriptions -> Seq(Report)]
  /\ \A s \in Subscriptions : Len(log[s]) <= MaxEvents
  /\ pending \subseteq Emitted
  /\ request \in [Events -> Stages]
  /\ row \in [Subscriptions -> Stored \cup {Absent}]
  /\ plan \in {"free", "pro"}
  /\ creator \in [Creators -> {Absent, "free", "pro"}]
  /\ accounts \in 0..MaxAccounts /\ mishaps \in 0..MaxMishaps
  /\ recorded \in [Subscriptions -> 0..MaxEvents] /\ crossed \in BOOLEAN

(* Nothing is had for free: a paid plan, and an account beyond the free     *)
(* quota, go back to a report of a live subscription with a known price,    *)
(* whatever is redelivered, reordered or read before it is changed.         *)
NothingWithoutPurchase ==
  plan = "pro" \/ accounts > FreeQuota =>
    \E e \in Emitted : Of(e).status = "live" /\ Of(e).priced

(* At rest the plan is what the rows say, although the two are written by   *)
(* two statements and either can be repeated or cut off: unless an event    *)
(* was overtaken, or one subscription lapsed while another was live.        *)
AtRest == pending = {} /\ \A e \in Events : AtStep(e, "idle")
PlanFollowsRows ==
  AtRest /\ ~crossed => (plan = "pro" <=> \E s \in Subscriptions : row[s] = "live")

(* Every event is answered at last, unless it reports what cannot be stored *)
(* (paused is a status of the service and not of 0017: the upsert throws    *)
(* each time).  That an answered event had an effect is not claimed: one    *)
(* that names no user and comes before its checkout is answered and lost.   *)
Refused(e) == Of(e).status \notin {"checkout", "other"} /\ ~Storable(e[1], Of(e))
EventsAreAnswered ==
  \A e \in Events : e \in pending ~> (e \notin pending \/ Refused(e))
=============================================================================
