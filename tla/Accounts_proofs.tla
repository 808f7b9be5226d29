---------------------------- MODULE Accounts_proofs ----------------------------
(***************************************************************************)
(* Proofs about what a user may have: Billing, that is how many trading    *)
(* accounts, and Provisioning, that is how each is connected.  The two are *)
(* proved apart and for every value of their constants.                    *)
(***************************************************************************)
EXTENDS Billing, Provisioning, FiniteSetTheorems, SequenceTheorems, TLAPS

-----------------------------------------------------------------------------
(* Billing.                                                                 *)

Bought == \E e \in Emitted : Of(e).status = "live" /\ Of(e).priced

(* Whatever still has a paid plan in its hands goes back to a purchase.     *)
BillingIInv ==
  /\ BillingTypeOK
  /\ \A e \in Events : request[e] # "idle" => e \in Emitted
  /\ plan = "pro" => Bought
  /\ \A c \in Creators : creator[c] = "pro" => Bought
  /\ accounts > FreeQuota => Bought

-----------------------------------------------------------------------------
(* What the provider has reported it does not take back.                    *)
LEMMA EmittedReports ==
  ASSUME BillingTypeOK, NEW e \in Emitted
  PROVE  /\ e \in Events /\ e[1] \in Subscriptions /\ e[2] \in 1..MaxEvents /\ e = <<e[1], e[2]>>
         /\ e[2] \in 1..Len(log[e[1]]) /\ Of(e) \in Report
<1>1. e \in Events /\ e[1] \in Subscriptions /\ e[2] \in 1..MaxEvents /\ e = <<e[1], e[2]>>
  BY DEF Emitted, Events
<1>2. e[2] \in 1..Len(log[e[1]]) /\ log[e[1]] \in Seq(Report)
  BY <1>1 DEF Emitted, Past, BillingTypeOK
<1>3. QED
  BY <1>1, <1>2 DEF Of

LEMMA Bounds == /\ FreeQuota \in Nat /\ MaxAccounts \in Nat
                /\ MaxEvents \in Nat /\ MaxMishaps \in Nat
BY QuotasAreNaturals

LEMMA InitBillingIInv == BillingInit => BillingIInv
<1> SUFFICES ASSUME BillingInit PROVE BillingIInv
  OBVIOUS
<1>1. log \in [Subscriptions -> Seq(Report)] /\ \A s \in Subscriptions : Len(log[s]) = 0
  BY DEF BillingInit
<1>2. \A s \in Subscriptions : Len(log[s]) <= MaxEvents
  BY <1>1, Bounds
<1>3. /\ pending \subseteq Emitted /\ request \in [Events -> Stages]
      /\ row \in [Subscriptions -> Stored \cup {Absent}]
      /\ creator \in [Creators -> {Absent, "free", "pro"}]
      /\ plan \in {"free", "pro"} /\ crossed \in BOOLEAN
  BY DEF BillingInit, Stages
<1>4. /\ accounts \in 0..MaxAccounts /\ mishaps \in 0..MaxMishaps
      /\ recorded \in [Subscriptions -> 0..MaxEvents]
  BY Bounds DEF BillingInit
<1>5. BillingTypeOK
  BY <1>1, <1>2, <1>3, <1>4 DEF BillingTypeOK
<1>6. ~(accounts > FreeQuota)
  BY Bounds DEF BillingInit
<1>7. QED
  BY <1>5, <1>6 DEF BillingInit, BillingIInv, Absent

(* A step that reports nothing keeps the purchase it rests on.              *)
LEMMA LogKept ==
  ASSUME log' = log
  PROVE  Emitted' = Emitted /\ Bought' = Bought /\ \A e \in Events : Of(e)' = Of(e)
BY DEF Emitted, Past, Of, Bought

LEMMA EmitKeepsIInv ==
  ASSUME BillingIInv, NEW s \in Subscriptions, NEW report \in Report, Emit(s, report)
  PROVE  BillingIInv'
<1>1. /\ log \in [Subscriptions -> Seq(Report)] /\ log[s] \in Seq(Report) /\ Len(log[s]) < MaxEvents
      /\ Len(log[s]) \in Nat /\ MaxEvents \in Nat
      /\ UNCHANGED <<request, row, plan, creator, accounts, mishaps, recorded, crossed>>
      /\ pending' = pending \cup {<<s, Len(log[s]) + 1>>}
  BY QuotasAreNaturals DEF BillingIInv, BillingTypeOK, Emit, billingHistory
<1>2. /\ log' \in [Subscriptions -> Seq(Report)]
      /\ \A t \in Subscriptions : t # s => log'[t] = log[t]
      /\ Len(log'[s]) = Len(log[s]) + 1
      /\ \A n \in 1..Len(log[s]) : log'[s][n] = log[s][n]
  <2>1. log' = [log EXCEPT ![s] = Append(log[s], report)]
    BY DEF Emit
  <2>2. /\ Append(log[s], report) \in Seq(Report) /\ Len(Append(log[s], report)) = Len(log[s]) + 1
        /\ \A n \in 1..Len(log[s]) : Append(log[s], report)[n] = log[s][n]
    BY <1>1
  <2>3. QED
    BY <1>1, <2>1, <2>2
<1>3. ASSUME NEW e \in Emitted PROVE e \in Emitted' /\ Of(e)' = Of(e)
  <2>1. e \in Events /\ e[1] \in Subscriptions /\ e[2] \in 1..Len(log[e[1]])
    BY EmittedReports DEF BillingIInv
  <2>2. e[2] \in 1..Len(log'[e[1]]) /\ log'[e[1]][e[2]] = log[e[1]][e[2]]
    <3>1. CASE e[1] = s
      <4>1. e[2] \in 1..Len(log[s])
        BY <3>1, <2>1
      <4>2. e[2] \in 1..(Len(log[s]) + 1) /\ log'[s][e[2]] = log[s][e[2]]
        BY <4>1, <1>1, <1>2
      <4>3. QED
        BY <4>2, <3>1, <1>2
    <3>2. CASE e[1] # s
      BY <3>2, <1>2, <2>1
    <3>3. QED
      BY <3>1, <3>2
  <2>3. QED
    BY <2>1, <2>2 DEF Emitted, Past, Of
<1>4. <<s, Len(log[s]) + 1>> \in Emitted'
  BY <1>1, <1>2 DEF Emitted, Past, Events
<1>5. Bought => Bought'
  BY <1>3 DEF Bought
<1>6. BillingTypeOK'
  <2>1. \A t \in Subscriptions : Len(log'[t]) <= MaxEvents
    <3>1. Len(log[s]) + 1 <= MaxEvents
      BY <1>1
    <3>2. QED
      BY <3>1, <1>2 DEF BillingIInv, BillingTypeOK
  <2>2. pending' \subseteq Emitted'
    BY <1>1, <1>3, <1>4 DEF BillingIInv, BillingTypeOK
  <2>3. QED
    BY <1>1, <1>2, <2>1, <2>2 DEF BillingIInv, BillingTypeOK
<1>7. QED
  BY <1>1, <1>3, <1>5, <1>6 DEF BillingIInv

(* Steps on one event: the request moves, perhaps to its answer.            *)
LEMMA StepsAreTyped ==
  ASSUME BillingTypeOK, NEW e \in Events, NEW step \in Stages, Proceed(e, step)
  PROVE  request' \in [Events -> Stages] /\ request'[e] = step
         /\ \A d \in Events : d # e => request'[d] = request[d]
BY DEF BillingTypeOK, Proceed

(* The request of an event the provider has reported moves, and only that,  *)
(* what waits for an answer, the rows and the history change.               *)
LEMMA RequestKeepsIInv ==
  ASSUME BillingIInv, NEW e \in Events, NEW step \in Stages, Proceed(e, step),
         step = "idle" \/ e \in Emitted,
         UNCHANGED <<log, plan, creator, accounts>>,
         pending' \subseteq Emitted,
         row' \in [Subscriptions -> Stored \cup {Absent}],
         mishaps' \in 0..MaxMishaps,
         recorded' \in [Subscriptions -> 0..MaxEvents], crossed' \in BOOLEAN
  PROVE  BillingIInv'
<1>1. /\ request' \in [Events -> Stages] /\ request'[e] = step
      /\ \A d \in Events : d # e => request'[d] = request[d]
  BY StepsAreTyped DEF BillingIInv
<1>2. Emitted' = Emitted /\ Bought' = Bought
  BY LogKept
<1>3. BillingTypeOK'
  BY <1>1, <1>2 DEF BillingIInv, BillingTypeOK
<1>4. \A d \in Events : request'[d] # "idle" => d \in Emitted'
  BY <1>1, <1>2 DEF BillingIInv
<1>5. QED
  BY <1>2, <1>3, <1>4 DEF BillingIInv

LEMMA RedeliverKeepsIInv ==
  ASSUME BillingIInv, NEW e \in Events, Redeliver(e)
  PROVE  BillingIInv'
<1>1. /\ UNCHANGED <<log, request, row, plan, creator, accounts, recorded, crossed>>
      /\ e \in Emitted /\ pending' = pending \cup {e}
      /\ mishaps < MaxMishaps /\ mishaps' = mishaps + 1
  BY DEF Redeliver, Mishap, billingHistory
<1>2. Emitted' = Emitted /\ Bought' = Bought
  BY <1>1, LogKept
<1>3. mishaps' \in 0..MaxMishaps
  BY <1>1, Bounds DEF BillingIInv, BillingTypeOK
<1>4. BillingTypeOK'
  BY <1>1, <1>2, <1>3 DEF BillingIInv, BillingTypeOK
<1>5. QED
  BY <1>1, <1>2, <1>4 DEF BillingIInv

LEMMA ReceiveKeepsIInv ==
  ASSUME BillingIInv, NEW e \in Events, Receive(e)
  PROVE  BillingIInv'
<1>1. /\ UNCHANGED <<log, row, plan, creator, accounts, mishaps, recorded, crossed>>
      /\ e \in Emitted /\ pending' \subseteq Emitted
      /\ \E step \in Stages : Proceed(e, step)
  BY DEF Receive, Answer, Declines, Stages, billingHistory, BillingIInv, BillingTypeOK
<1>2. PICK step \in Stages : Proceed(e, step)
  BY <1>1
<1>3. QED
  BY <1>1, <1>2, RequestKeepsIInv DEF BillingIInv, BillingTypeOK

LEMMA LinkCustomerKeepsIInv ==
  ASSUME BillingIInv, NEW e \in Events, LinkCustomer(e)
  PROVE  BillingIInv'
<1>1. /\ UNCHANGED <<log, plan, creator, accounts, mishaps, recorded, crossed>>
      /\ pending' \subseteq Emitted /\ Proceed(e, "idle") /\ "idle" \in Stages
  BY DEF LinkCustomer, Answer, Stages, billingHistory, BillingIInv, BillingTypeOK
<1>2. row' \in [Subscriptions -> Stored \cup {Absent}]
  BY DEF LinkCustomer, Stored, BillingIInv, BillingTypeOK
<1>3. QED
  BY <1>1, <1>2, RequestKeepsIInv DEF BillingIInv, BillingTypeOK

LEMMA UpsertKeepsIInv ==
  ASSUME BillingIInv, NEW e \in Events, Upsert(e)
  PROVE  BillingIInv'
<1>1. /\ UNCHANGED <<log, plan, creator, accounts, mishaps>>
      /\ e \in Emitted /\ pending' \subseteq Emitted
      /\ \E step \in Stages : Proceed(e, step)
  BY DEF Upsert, Answer, Throws, Stages, AtStep, BillingIInv, BillingTypeOK
<1>2. PICK step \in Stages : Proceed(e, step)
  BY <1>1
<1>3. CASE Storable(e[1], Of(e))
  <2>1. row' \in [Subscriptions -> Stored \cup {Absent}]
    BY <1>3 DEF Upsert, Storable, BillingIInv, BillingTypeOK
  <2>2. recorded' \in [Subscriptions -> 0..MaxEvents]
    <3>1. e[2] \in 0..MaxEvents /\ e[1] \in Subscriptions
      BY <1>1, EmittedReports DEF BillingIInv
    <3>2. QED
      BY <1>3, <3>1 DEF Upsert, BillingIInv, BillingTypeOK
  <2>3. Crosses(e) \in BOOLEAN
    BY DEF Crosses
  <2>4. crossed' \in BOOLEAN
    BY <1>3, <2>3 DEF Upsert, BillingIInv, BillingTypeOK
  <2>5. QED
    BY <1>1, <1>2, <2>1, <2>2, <2>4, RequestKeepsIInv DEF BillingIInv, BillingTypeOK
<1>4. CASE ~Storable(e[1], Of(e))
  <2>1. UNCHANGED <<row, recorded, crossed>>
    BY <1>4 DEF Upsert, billingHistory
  <2>2. QED
    BY <1>1, <1>2, <2>1, RequestKeepsIInv DEF BillingIInv, BillingTypeOK
<1>5. QED
  BY <1>3, <1>4

(* What is granted was bought by the event that grants it.                  *)
LEMMA SetUserPlanKeepsIInv ==
  ASSUME BillingIInv, NEW e \in Events, SetUserPlan(e)
  PROVE  BillingIInv'
<1>1. /\ UNCHANGED <<log, row, creator, accounts, mishaps, recorded, crossed>>
      /\ e \in Emitted /\ pending' \subseteq Emitted
      /\ Proceed(e, "idle") /\ "idle" \in Stages
      /\ plan' = Purchased(Of(e))
  BY DEF SetUserPlan, Answer, Stages, AtStep, billingHistory, BillingIInv, BillingTypeOK
<1>2. /\ request' \in [Events -> Stages] /\ request'[e] = "idle"
      /\ \A d \in Events : d # e => request'[d] = request[d]
  BY <1>1, StepsAreTyped DEF BillingIInv
<1>3. Emitted' = Emitted /\ Bought' = Bought
  BY <1>1, LogKept
<1>4. plan' \in {"free", "pro"} /\ (plan' = "pro" => Bought)
  BY <1>1 DEF Purchased, Bought
<1>5. BillingTypeOK'
  BY <1>1, <1>2, <1>3, <1>4 DEF BillingIInv, BillingTypeOK
<1>6. \A d \in Events : request'[d] # "idle" => d \in Emitted'
  BY <1>2, <1>3 DEF BillingIInv
<1>7. QED
  BY <1>1, <1>3, <1>4, <1>5, <1>6 DEF BillingIInv

LEMMA DiesKeepsIInv ==
  ASSUME BillingIInv, NEW e \in Events, Dies(e)
  PROVE  BillingIInv'
<1>1. /\ UNCHANGED <<log, pending, row, plan, creator, accounts, recorded, crossed>>
      /\ Proceed(e, "idle") /\ "idle" \in Stages
      /\ mishaps < MaxMishaps /\ mishaps' = mishaps + 1
  BY DEF Dies, Mishap, Stages, billingHistory
<1>2. mishaps' \in 0..MaxMishaps
  BY <1>1, Bounds DEF BillingIInv, BillingTypeOK
<1>3. QED
  BY <1>1, <1>2, RequestKeepsIInv DEF BillingIInv, BillingTypeOK

-----------------------------------------------------------------------------
LEMMA ReadPlanKeepsIInv ==
  ASSUME BillingIInv, NEW c \in Creators, ReadPlan(c)
  PROVE  BillingIInv'
<1>1. /\ UNCHANGED <<log, pending, request, row, plan, accounts, mishaps, recorded, crossed>>
      /\ creator' = [creator EXCEPT ![c] = plan]
  BY DEF ReadPlan, billingHistory
<1>2. Emitted' = Emitted /\ Bought' = Bought
  BY <1>1, LogKept
<1>3. /\ creator' \in [Creators -> {Absent, "free", "pro"}]
      /\ \A d \in Creators : creator'[d] = "pro" => Bought
  BY <1>1 DEF BillingIInv, BillingTypeOK
<1>4. BillingTypeOK'
  BY <1>1, <1>2, <1>3 DEF BillingIInv, BillingTypeOK
<1>5. QED
  BY <1>1, <1>2, <1>3, <1>4 DEF BillingIInv

(* An account beyond the free quota is created only with the paid plan read.*)
LEMMA CreateKeepsIInv ==
  ASSUME BillingIInv, NEW c \in Creators, CreateWithQuotaGuard(c)
  PROVE  BillingIInv'
<1>1. /\ UNCHANGED <<log, pending, request, row, plan, mishaps, recorded, crossed>>
      /\ creator' = [creator EXCEPT ![c] = Absent]
      /\ accounts' = IF Fits(creator[c]) /\ accounts < MaxAccounts THEN accounts + 1 ELSE accounts
  BY DEF CreateWithQuotaGuard, billingHistory
<1>2. Emitted' = Emitted /\ Bought' = Bought
  BY <1>1, LogKept
<1>3. /\ creator' \in [Creators -> {Absent, "free", "pro"}]
      /\ \A d \in Creators : creator'[d] = "pro" => Bought
  BY <1>1 DEF BillingIInv, BillingTypeOK, Absent
<1>4. accounts' \in 0..MaxAccounts
  BY <1>1, Bounds DEF BillingIInv, BillingTypeOK
<1>5. accounts' > FreeQuota => creator[c] = "pro" \/ accounts > FreeQuota
  BY <1>1, Bounds DEF Fits, BillingIInv, BillingTypeOK
<1>6. accounts' > FreeQuota => Bought
  BY <1>5 DEF BillingIInv
<1>7. BillingTypeOK'
  BY <1>1, <1>2, <1>3, <1>4 DEF BillingIInv, BillingTypeOK
<1>8. QED
  BY <1>1, <1>2, <1>3, <1>6, <1>7 DEF BillingIInv

LEMMA DeleteKeepsIInv ==
  ASSUME BillingIInv, DeleteForUser
  PROVE  BillingIInv'
<1>1. /\ UNCHANGED <<log, pending, request, row, plan, creator, mishaps, recorded, crossed>>
      /\ accounts > 0 /\ accounts' = accounts - 1
  BY DEF DeleteForUser, billingHistory
<1>2. Emitted' = Emitted /\ Bought' = Bought
  BY <1>1, LogKept
<1>3. accounts' \in 0..MaxAccounts /\ (accounts' > FreeQuota => accounts > FreeQuota)
  BY <1>1, Bounds DEF BillingIInv, BillingTypeOK
<1>4. BillingTypeOK'
  BY <1>1, <1>2, <1>3 DEF BillingIInv, BillingTypeOK
<1>5. QED
  BY <1>1, <1>2, <1>3, <1>4 DEF BillingIInv

-----------------------------------------------------------------------------
LEMMA NextKeepsBillingIInv == BillingIInv /\ [BillingNext]_billingVars => BillingIInv'
<1> SUFFICES ASSUME BillingIInv, [BillingNext]_billingVars PROVE BillingIInv'
  OBVIOUS
<1>1. ASSUME NEW s \in Subscriptions, NEW report \in Report, Emit(s, report) PROVE BillingIInv'
  BY <1>1, EmitKeepsIInv
<1>2. ASSUME NEW e \in Events, Redeliver(e) \/ Receive(e) \/ Handle(e) \/ Dies(e) PROVE BillingIInv'
  BY <1>2, RedeliverKeepsIInv, ReceiveKeepsIInv, LinkCustomerKeepsIInv, UpsertKeepsIInv,
     SetUserPlanKeepsIInv, DiesKeepsIInv DEF Handle
<1>3. ASSUME NEW c \in Creators, ReadPlan(c) \/ CreateWithQuotaGuard(c) PROVE BillingIInv'
  BY <1>3, ReadPlanKeepsIInv, CreateKeepsIInv
<1>4. CASE DeleteForUser
  BY <1>4, DeleteKeepsIInv
<1>5. CASE UNCHANGED billingVars
  BY <1>5, LogKept DEF billingVars, billingHistory, BillingIInv, BillingTypeOK
<1>6. QED
  BY <1>1, <1>2, <1>3, <1>4, <1>5 DEF BillingNext

(* The inductive invariant: a plan granted, and a plan a request has read,  *)
(* goes back to a purchase the provider has reported.                       *)
THEOREM BillingInvariant == BillingSpec => []BillingIInv
<1>1. BillingInit => BillingIInv
  BY InitBillingIInv
<1>2. BillingIInv /\ [BillingNext]_billingVars => BillingIInv'
  BY NextKeepsBillingIInv
<1>3. QED
  BY <1>1, <1>2, PTL DEF BillingSpec

(* Every variable keeps its type: only what the provider has reported waits *)
(* for an answer, and only statuses of 0017 are stored.                     *)
THEOREM BillingTypes == BillingSpec => []BillingTypeOK
<1>1. BillingIInv => BillingTypeOK
  BY DEF BillingIInv
<1>2. QED
  BY <1>1, BillingInvariant, PTL

(* Neither the paid plan nor an account beyond the free quota is had        *)
(* without a purchase, for any number of subscriptions, requests, faults    *)
(* and any quota (subscriptionService.ts apply, createWithQuotaGuard).      *)
THEOREM NothingIsFree == BillingSpec => []NothingWithoutPurchase
<1>1. BillingIInv => NothingWithoutPurchase
  BY DEF BillingIInv, NothingWithoutPurchase, Bought
<1>2. QED
  BY <1>1, BillingInvariant, PTL

-----------------------------------------------------------------------------
(* What the plan lacks of the rows is owed by an event that still waits:    *)
(* stored once, not answered, and never to be declined, since a row of its  *)
(* subscription is there.                                                   *)
SomeLive == \E s \in Subscriptions : row[s] = "live"
Owed == \E e \in pending : Of(e).status \notin {"checkout", "other"} /\ row[e[1]] # Absent

PlanInv ==
  /\ \A e \in Events : request[e] # "idle" => e \in pending
  /\ \A e \in Events : request[e] = "linking" => Of(e).status = "checkout"
  /\ \A e \in Events : request[e] \in {"recording", "granting"} => Of(e).status \notin {"checkout", "other"}
  /\ ~crossed =>
       /\ \A e \in Events : request[e] = "granting" => (Purchased(Of(e)) = "pro" <=> SomeLive)
       /\ (plan = "pro" <=> SomeLive) \/ Owed

LEMMA InitPlanInv == BillingInit => PlanInv
BY DEF BillingInit, PlanInv, SomeLive, Absent

(* What is owed stays owed while its event waits and no row is deleted.     *)
LEMMA OwedPersists ==
  ASSUME NEW e \in pending, Of(e).status \notin {"checkout", "other"}, row[e[1]] # Absent,
         e \in pending', Of(e)' = Of(e), row'[e[1]] # Absent
  PROVE  Owed'
BY DEF Owed

(* Steps that leave the requests, the rows and the plan alone.              *)
LEMMA DeskKeepsPlan ==
  ASSUME BillingIInv, PlanInv, UNCHANGED <<request, row, plan, crossed>>, pending \subseteq pending',
         \A e \in Emitted : Of(e)' = Of(e)
  PROVE  PlanInv'
<1>1. \A e \in Events : request[e] # "idle" => Of(e)' = Of(e)
  BY DEF BillingIInv
<1>2. SomeLive' = SomeLive
  BY DEF SomeLive
<1>3. Owed => Owed'
  BY DEF Owed, BillingIInv, BillingTypeOK
<1>4. \A e \in Events : request'[e] = request[e]
  OBVIOUS
<1>5. \A e \in Events : request[e] = "linking" => (Of(e).status = "checkout")'
  BY <1>1 DEF PlanInv
<1>6. \A e \in Events : request[e] \in {"recording", "granting"} =>
                         (Of(e).status \notin {"checkout", "other"})'
  BY <1>1 DEF PlanInv
<1>7. ~crossed => \A e \in Events : request[e] = "granting" => (Purchased(Of(e)) = "pro" <=> SomeLive)'
  BY <1>1, <1>2 DEF PlanInv, Purchased
<1>8. ~crossed => ((plan = "pro" <=> SomeLive) \/ Owed)'
  BY <1>2, <1>3 DEF PlanInv
<1>9. QED
  BY <1>4, <1>5, <1>6, <1>7, <1>8 DEF PlanInv

(* A step of one event's request, with the four parts it has to show.       *)
LEMMA StepKeepsPlan ==
  ASSUME BillingIInv, PlanInv, NEW e \in Events, NEW step \in Stages, Proceed(e, step), log' = log,
         pending \ {e} \subseteq pending',
         step # "idle" => e \in pending',
         step = "linking" => Of(e).status = "checkout",
         step \in {"recording", "granting"} => Of(e).status \notin {"checkout", "other"},
         ~crossed' => /\ ~crossed
                      /\ step = "granting" => (Purchased(Of(e)) = "pro" <=> SomeLive')
                      /\ (SomeLive' = SomeLive) \/ \A d \in Events \ {e} : request[d] # "granting"
                      /\ (plan' = "pro" <=> SomeLive') \/ Owed'
  PROVE  PlanInv'
<1>1. /\ request' \in [Events -> Stages] /\ request'[e] = step
      /\ \A d \in Events : d # e => request'[d] = request[d]
  BY StepsAreTyped DEF BillingIInv
<1>2. \A d \in Events : Of(d)' = Of(d) /\ Purchased(Of(d))' = Purchased(Of(d))
  BY LogKept DEF Purchased
<1>3. \A d \in Events : request'[d] # "idle" => d \in pending'
  BY <1>1 DEF PlanInv
<1>4. \A d \in Events : request'[d] = "linking" => (Of(d).status = "checkout")'
  BY <1>1, <1>2 DEF PlanInv
<1>5. \A d \in Events : request'[d] \in {"recording", "granting"} =>
                         (Of(d).status \notin {"checkout", "other"})'
  BY <1>1, <1>2 DEF PlanInv
<1>6. ~crossed' => \A d \in Events :
                     request'[d] = "granting" => (Purchased(Of(d)) = "pro" <=> SomeLive)'
  BY <1>1, <1>2 DEF PlanInv
<1>7. QED
  BY <1>3, <1>4, <1>5, <1>6 DEF PlanInv

LEMMA ReceiveKeepsPlan ==
  ASSUME BillingIInv, PlanInv, NEW e \in Events, Receive(e)
  PROVE  PlanInv'
<1>1. /\ UNCHANGED <<log, row, plan, crossed>> /\ e \in pending
      /\ e[1] \in Subscriptions
  BY DEF Receive, billingHistory, Events
<1>2. SomeLive' = SomeLive
  BY <1>1 DEF SomeLive
<1>3. CASE pending' = pending
  <2>1. Owed => Owed'
    BY <1>1, <1>3, LogKept DEF Owed, BillingIInv, BillingTypeOK, Emitted
  <2>2. \/ Proceed(e, "linking") /\ Of(e).status = "checkout"
        \/ Proceed(e, "recording") /\ Of(e).status \notin {"checkout", "other"}
        \/ Proceed(e, "idle")
    BY DEF Receive, Declines, Answer
  <2>3. {"linking", "recording", "idle"} \subseteq Stages
    BY DEF Stages
  <2>4. ~crossed => (plan' = "pro" <=> SomeLive') \/ Owed'
    BY <1>1, <1>2, <2>1 DEF PlanInv
  <2>5. QED
    BY <1>1, <1>2, <1>3, <2>2, <2>3, <2>4, StepKeepsPlan
<1>4. CASE pending' # pending
  <2>1. /\ Proceed(e, "idle") /\ pending' = pending \ {e}
        /\ Of(e).status = "other" \/ row[e[1]] = Absent
    BY <1>1, <1>4 DEF Receive, Declines, Answer, Attributed
  <2>2. Owed => Owed'
    <3>1. ASSUME NEW d \in pending, Of(d).status \notin {"checkout", "other"}, row[d[1]] # Absent
          PROVE  Owed'
      <4>1. d # e /\ d \in pending'
        BY <2>1, <3>1
      <4>2. row'[d[1]] # Absent /\ Of(d)' = Of(d)
        BY <1>1, <3>1, LogKept DEF BillingIInv, BillingTypeOK, Emitted
      <4>3. QED
        BY <3>1, <4>1, <4>2, OwedPersists
    <3>2. QED
      BY <3>1 DEF Owed
  <2>3. ~crossed => (plan' = "pro" <=> SomeLive') \/ Owed'
    BY <1>1, <1>2, <2>2 DEF PlanInv
  <2>4. QED
    BY <1>1, <1>2, <2>1, <2>3, StepKeepsPlan DEF Stages
<1>5. QED
  BY <1>3, <1>4

LEMMA LinkCustomerKeepsPlan ==
  ASSUME BillingIInv, PlanInv, NEW e \in Events, LinkCustomer(e)
  PROVE  PlanInv'
<1>1. /\ UNCHANGED <<log, plan, crossed>> /\ Proceed(e, "idle") /\ pending' = pending \ {e}
      /\ e[1] \in Subscriptions /\ Of(e).status = "checkout"
  BY DEF LinkCustomer, Answer, billingHistory, Events, PlanInv, AtStep
<1>2. /\ row'[e[1]] = IF row[e[1]] = Absent THEN "incomplete" ELSE row[e[1]]
      /\ \A s \in Subscriptions : s # e[1] => row'[s] = row[s]
  BY <1>1 DEF LinkCustomer, BillingIInv, BillingTypeOK
<1>3. SomeLive' = SomeLive
  BY <1>1, <1>2 DEF SomeLive, Absent
<1>4. Owed => Owed'
  <2>1. ASSUME NEW d \in pending, Of(d).status \notin {"checkout", "other"}, row[d[1]] # Absent PROVE Owed'
    <3>1. d # e /\ d \in pending' /\ d \in Events /\ d[1] \in Subscriptions
      BY <1>1, <2>1 DEF BillingIInv, BillingTypeOK, Emitted, Events
    <3>2. row'[d[1]] # Absent /\ Of(d)' = Of(d)
      BY <1>1, <1>2, <2>1, <3>1, LogKept DEF Absent
    <3>3. QED
      BY <2>1, <3>1, <3>2, OwedPersists
  <2>2. QED
    BY <2>1 DEF Owed
<1>5. ~crossed => (plan' = "pro" <=> SomeLive') \/ Owed'
  BY <1>1, <1>3, <1>4 DEF PlanInv
<1>6. QED
  BY <1>1, <1>3, <1>5, StepKeepsPlan DEF Stages

(* An upsert that crosses nothing leaves its own event to pay the debt: it  *)
(* is the only one between the two writes, and grants what the rows say.    *)
LEMMA UpsertKeepsPlan ==
  ASSUME BillingIInv, PlanInv, NEW e \in Events, Upsert(e)
  PROVE  PlanInv'
<1>1. /\ UNCHANGED <<log, plan>> /\ e \in pending /\ pending' = pending
      /\ e[1] \in Subscriptions /\ Of(e).status \notin {"checkout", "other"}
      /\ Of(e)' = Of(e)
  BY LogKept DEF Upsert, Upserted, Throws, Events, PlanInv, AtStep
<1>2. CASE Storable(e[1], Of(e))
  <2>1. /\ Proceed(e, "granting") /\ row' = [row EXCEPT ![e[1]] = Of(e).status]
        /\ crossed' = (crossed \/ Crosses(e))
    BY <1>2 DEF Upsert, Upserted
  <2>2. /\ row'[e[1]] = Of(e).status /\ row'[e[1]] # Absent
        /\ \A s \in Subscriptions : s # e[1] => row'[s] = row[s]
    BY <1>1, <1>2, <2>1 DEF BillingIInv, BillingTypeOK, Storable, Stored, Absent
  <2>3. Owed'
    BY <1>1, <2>2 DEF Owed
  <2>4. ASSUME ~crossed'
        PROVE  /\ ~crossed /\ \A d \in Events \ {e} : request[d] # "granting"
               /\ Purchased(Of(e)) = "pro" <=> SomeLive'
    <3>1. crossed \in BOOLEAN /\ Crosses(e) \in BOOLEAN
      BY DEF Crosses, BillingIInv, BillingTypeOK
    <3>2. ~crossed /\ ~Crosses(e)
      BY <2>1, <2>4, <3>1
    <3>3. /\ \A d \in Events \ {e} : request[d] # "granting"
          /\ Of(e).status # "live" => \A t \in Subscriptions : t # e[1] => row[t] # "live"
      BY <3>2 DEF Crosses, AtStep
    <3>4. SomeLive' <=> Of(e).status = "live"
      BY <1>1, <2>2, <3>3 DEF SomeLive
    <3>5. Purchased(Of(e)) = "pro" <=> Of(e).status = "live"
      BY <1>2 DEF Purchased, Storable
    <3>6. QED
      BY <3>2, <3>3, <3>4, <3>5
  <2>5. QED
    BY <1>1, <2>1, <2>3, <2>4, StepKeepsPlan DEF Stages
<1>3. CASE ~Storable(e[1], Of(e))
  <2>1. Proceed(e, "idle") /\ UNCHANGED <<row, crossed>>
    BY <1>3 DEF Upsert, Throws, billingHistory
  <2>2. SomeLive' = SomeLive
    BY <2>1 DEF SomeLive
  <2>3. Owed => Owed'
    BY <1>1, <2>1, LogKept DEF Owed, BillingIInv, BillingTypeOK, Emitted
  <2>4. ~crossed => (plan' = "pro" <=> SomeLive') \/ Owed'
    BY <1>1, <2>2, <2>3 DEF PlanInv
  <2>5. QED
    BY <1>1, <2>1, <2>2, <2>4, StepKeepsPlan DEF Stages
<1>4. QED
  BY <1>2, <1>3

LEMMA SetUserPlanKeepsPlan ==
  ASSUME BillingIInv, PlanInv, NEW e \in Events, SetUserPlan(e)
  PROVE  PlanInv'
<1>1. /\ UNCHANGED <<log, row, crossed>> /\ Proceed(e, "idle") /\ pending' = pending \ {e}
      /\ plan' = Purchased(Of(e)) /\ request[e] = "granting"
  BY DEF SetUserPlan, Answer, billingHistory, AtStep
<1>2. SomeLive' = SomeLive
  BY <1>1 DEF SomeLive
<1>3. ~crossed => (plan' = "pro" <=> SomeLive')
  BY <1>1, <1>2 DEF PlanInv
<1>4. QED
  BY <1>1, <1>2, <1>3, StepKeepsPlan DEF Stages

LEMMA DiesKeepsPlan ==
  ASSUME BillingIInv, PlanInv, NEW e \in Events, Dies(e)
  PROVE  PlanInv'
<1>1. UNCHANGED <<log, pending, row, plan, crossed>> /\ Proceed(e, "idle")
  BY DEF Dies, billingHistory
<1>2. SomeLive' = SomeLive
  BY <1>1 DEF SomeLive
<1>3. Owed => Owed'
  BY <1>1, LogKept DEF Owed, BillingIInv, BillingTypeOK, Emitted
<1>4. ~crossed => (plan' = "pro" <=> SomeLive') \/ Owed'
  BY <1>1, <1>2, <1>3 DEF PlanInv
<1>5. QED
  BY <1>1, <1>2, <1>4, StepKeepsPlan DEF Stages

(* What the provider reports does not change what it has reported.          *)
LEMMA EmitAppends ==
  ASSUME BillingIInv, NEW s \in Subscriptions, NEW report \in Report, Emit(s, report), NEW e \in Emitted
  PROVE  Of(e)' = Of(e)
<1>1. /\ e[1] \in Subscriptions /\ e[2] \in 1..Len(log[e[1]])
  BY EmittedReports DEF BillingIInv
<1>2. log \in [Subscriptions -> Seq(Report)] /\ log[s] \in Seq(Report)
  BY DEF BillingIInv, BillingTypeOK
<1>3. log' = [log EXCEPT ![s] = Append(log[s], report)]
  BY DEF Emit
<1>4. \A n \in 1..Len(log[s]) : Append(log[s], report)[n] = log[s][n]
  BY <1>2
<1>5. log'[e[1]][e[2]] = log[e[1]][e[2]]
  BY <1>1, <1>2, <1>3, <1>4
<1>6. QED
  BY <1>5 DEF Of

LEMMA NextKeepsPlan == BillingIInv /\ PlanInv /\ [BillingNext]_billingVars => PlanInv'
<1> SUFFICES ASSUME BillingIInv, PlanInv, [BillingNext]_billingVars PROVE PlanInv'
  OBVIOUS
<1>1. ASSUME NEW s \in Subscriptions, NEW report \in Report, Emit(s, report) PROVE PlanInv'
  <2>1. UNCHANGED <<request, row, plan, crossed>> /\ pending \subseteq pending'
    BY <1>1 DEF Emit, billingHistory
  <2>2. QED
    BY <1>1, <2>1, EmitAppends, DeskKeepsPlan
<1>2. ASSUME NEW e \in Events, Redeliver(e) PROVE PlanInv'
  <2>1. UNCHANGED <<log, request, row, plan, crossed>> /\ pending \subseteq pending'
    BY <1>2 DEF Redeliver, billingHistory
  <2>2. \A d \in Emitted : Of(d)' = Of(d)
    BY <2>1, LogKept DEF Emitted
  <2>3. QED
    BY <2>1, <2>2, DeskKeepsPlan
<1>3. ASSUME NEW e \in Events, Receive(e) \/ Handle(e) \/ Dies(e) PROVE PlanInv'
  BY <1>3, ReceiveKeepsPlan, LinkCustomerKeepsPlan, UpsertKeepsPlan, SetUserPlanKeepsPlan,
     DiesKeepsPlan DEF Handle
<1>4. ASSUME UNCHANGED <<log, pending, request, row, plan, crossed>> PROVE PlanInv'
  <2>1. \A d \in Emitted : Of(d)' = Of(d)
    BY <1>4, LogKept DEF Emitted
  <2>2. QED
    BY <1>4, <2>1, DeskKeepsPlan
<1>5. ASSUME NEW c \in Creators, ReadPlan(c) \/ CreateWithQuotaGuard(c) PROVE PlanInv'
  BY <1>4, <1>5 DEF ReadPlan, CreateWithQuotaGuard, billingHistory
<1>6. CASE DeleteForUser \/ UNCHANGED billingVars
  BY <1>4, <1>6 DEF DeleteForUser, billingVars, billingHistory
<1>7. QED
  BY <1>1, <1>2, <1>3, <1>5, <1>6 DEF BillingNext

(* With nothing waiting and nothing crossed the two writes agree: users.plan *)
(* is pro exactly when a row is live, for any number of subscriptions,       *)
(* deliveries and deaths between the writes (subscriptionService.ts apply).  *)
THEOREM RowsDecideThePlan == BillingSpec => []PlanFollowsRows
<1>1. BillingInit => BillingIInv /\ PlanInv
  BY InitBillingIInv, InitPlanInv
<1>2. (BillingIInv /\ PlanInv) /\ [BillingNext]_billingVars => (BillingIInv /\ PlanInv)'
  BY NextKeepsBillingIInv, NextKeepsPlan
<1>3. BillingIInv /\ PlanInv => PlanFollowsRows
  BY DEF PlanInv, PlanFollowsRows, AtRest, SomeLive, Owed, BillingIInv, BillingTypeOK
<1>4. QED
  BY <1>1, <1>2, <1>3, PTL DEF BillingSpec

-----------------------------------------------------------------------------
(* Provisioning.                                                            *)

(* What a request is about: an operation, or the account it disconnects.    *)
Connecting(r) == req[r].step \notin {"idle", "deleting", "unbinding"}
Disconnecting(r) == req[r].step \in {"deleting", "unbinding"}

(* r knows a provider account of its operation; it is about to say so.      *)
Completing(r) == req[r].step = "marking" /\ req[r].status = "COMPLETED"
Knows(r) == req[r].step \in {"accepting", "binding", "converging"} \/ Completing(r)

(* r found nothing under the marker of o and is about to create.            *)
Maker(r, o) == req[r].step \in {"revealing", "creating"} /\ req[r].op = o

Types ==
  /\ account \in [Accounts -> Account]
  /\ op \in [Operations -> Operation]
  /\ provider \in [Ids -> Provided]
  /\ secret \in BOOLEAN
  /\ req \in [Requests -> Request]
  /\ faults \in 0..MaxFaults
  /\ hurried \subseteq Operations /\ released \subseteq Accounts

(* A provider account belongs to the operation it was made for.             *)
Markers ==
  /\ \A i \in Ids : provider[i].state = Nothing => provider[i].marker = Nothing
  /\ \A o \in Operations : op[o].id # None => provider[op[o].id].marker = o
  /\ \A a \in Accounts : account[a].bound # None =>
       \E o \in Operations : AccountOf[o] = a /\ provider[account[a].bound].marker = o

(* Account a is bound by i, or the user took it away from i.                *)
BoundBy(a, i) == account[a].bound = i \/ a \in released \/ ~account[a].exists

RequestOK(r) ==
  /\ Connecting(r) => req[r].op \in Operations
  /\ Disconnecting(r) => req[r].account \in Accounts /\ req[r].id \in Ids
  /\ Knows(r) => req[r].id \in Ids /\ provider[req[r].id].marker = req[r].op
  /\ Completing(r) => BoundBy(AccountOf[req[r].op], req[r].id)

(* Before its row is there, nothing was done for an operation.              *)
Unreserved ==
  \A o \in Operations : op[o].status = Nothing /\ account[AccountOf[o]].exists =>
    /\ \A i \in Ids : provider[i].marker # o
    /\ \A r \in Requests : Connecting(r) /\ req[r].op = o => req[r].step = "reserving"

Completed ==
  \A o \in Operations :
    /\ ~account[AccountOf[o]].exists => op[o].status = Nothing
    /\ op[o].status = "COMPLETED" =>
         op[o].id # None /\ BoundBy(AccountOf[o], op[o].id)

(* Who is about to create is alone, and there is nothing yet.               *)
OneMaker ==
  \A o \in Operations \ hurried :
    /\ \A i, j \in MadeFor(o) : i = j
    /\ \A r \in Requests : Maker(r, o) =>
         MadeFor(o) = {} /\ \A q \in Requests : Maker(q, o) => q = r

(* The inductive invariant of Provisioning.                                 *)
ProvInv == Types /\ Markers /\ (\A r \in Requests : RequestOK(r)) /\ Unreserved /\ Completed /\ OneMaker

LEMMA Assumed ==
  /\ AccountOf \in [Operations -> Accounts]
  /\ {MaxPolls, MaxProvided, MaxFaults} \subseteq Nat
  /\ Nothing \notin Operations
BY OperationsHaveAccounts, BoundsAreNaturals, NothingIsNoOperation

-----------------------------------------------------------------------------
(* How a request moves.                                                     *)

Only(r) == req' \in [Requests -> Request] /\ \A q \in Requests : q # r => req'[q] = req[q]

LEMMA Went ==
  ASSUME Types, NEW r \in Requests, NEW step \in Steps, Goto(r, step)
  PROVE  /\ Only(r)
         /\ req'[r].step = step /\ req'[r].op = req[r].op /\ req'[r].account = req[r].account
         /\ req'[r].id = req[r].id /\ req'[r].status = req[r].status
<1>1. req[r] \in Request /\ req \in [Requests -> Request]
  BY DEF Types
<1>2. [req[r] EXCEPT !.step = step] \in Request
  BY <1>1 DEF Request
<1>3. req' = [req EXCEPT ![r] = [req[r] EXCEPT !.step = step]]
  BY <1>1 DEF Goto
<1>4. req'[r] = [req[r] EXCEPT !.step = step]
  BY <1>1, <1>3
<1>5. QED
  BY <1>1, <1>2, <1>3, <1>4 DEF Only, Request

LEMMA Stopped ==
  ASSUME Types, NEW r \in Requests, Stop(r)
  PROVE  Only(r) /\ req'[r].step = "idle"
<1>1. Idle \in Request
  <2>1. 0 \in 0..MaxPolls /\ 0 \in 0..MaxProvided
    BY Assumed
  <2>2. QED
    BY <2>1 DEF Idle, Request, Steps, Statuses, None
<1>2. req \in [Requests -> Request] /\ req' = [req EXCEPT ![r] = Idle]
  BY DEF Types, Stop
<1>3. QED
  BY <1>1, <1>2 DEF Only, Idle

LEMMA Ended ==
  ASSUME Types, NEW r \in Requests, NEW status \in Statuses, Ends(r, status)
  PROVE  /\ Only(r)
         /\ req'[r].step = "marking" /\ req'[r].op = req[r].op
         /\ req'[r].id = req[r].id /\ req'[r].status = status
<1>1. req[r] \in Request /\ req \in [Requests -> Request]
  BY DEF Types
<1>2. [req[r] EXCEPT !.step = "marking", !.status = status] \in Request
  BY <1>1 DEF Request, Steps
<1>3. req' = [req EXCEPT ![r] = [req[r] EXCEPT !.step = "marking", !.status = status]]
  BY <1>1 DEF Ends
<1>4. req'[r] = [req[r] EXCEPT !.step = "marking", !.status = status]
  BY <1>1, <1>3
<1>5. QED
  BY <1>1, <1>2, <1>3, <1>4 DEF Only, Request

LEMMA Owned ==
  ASSUME Types, NEW r \in Requests, NEW i \in Ids, NEW found \in BOOLEAN, Owns(r, i, found),
         MaxProvided \in Nat
  PROVE  /\ Only(r)
         /\ req'[r].step = "accepting" /\ req'[r].op = req[r].op /\ req'[r].id = i
<1>1. req[r] \in Request /\ req \in [Requests -> Request] /\ i \in 0..MaxProvided
  BY DEF Types, Ids
<1>2. [req[r] EXCEPT !.step = "accepting", !.id = i, !.found = found] \in Request
  BY <1>1 DEF Request, Steps
<1>3. req' = [req EXCEPT ![r] = [req[r] EXCEPT !.step = "accepting", !.id = i, !.found = found]]
  BY <1>1 DEF Owns
<1>4. req'[r] = [req[r] EXCEPT !.step = "accepting", !.id = i, !.found = found]
  BY <1>1, <1>3
<1>5. QED
  BY <1>1, <1>2, <1>3, <1>4 DEF Only, Request

-----------------------------------------------------------------------------
(* A step that leaves the tables and the provider alone.                    *)
LEMMA Quiet ==
  ASSUME ProvInv, NEW r \in Requests, Only(r),
         UNCHANGED <<account, op, provider, released>>,
         secret' \in BOOLEAN, faults' \in 0..MaxFaults,
         hurried' \subseteq Operations, hurried \subseteq hurried',
         RequestOK(r)',
         Connecting(r)' /\ req'[r].step # "reserving" =>
           \/ Connecting(r) /\ req[r].step # "reserving" /\ req'[r].op = req[r].op
           \/ op[req'[r].op].status # Nothing,
         \A o \in Operations \ hurried' : Maker(r, o)' =>
           \/ Maker(r, o)
           \/ MadeFor(o) = {} /\ \A q \in Requests : q # r => ~Maker(q, o)
  PROVE  ProvInv'
<1>1. Types'
  BY DEF ProvInv, Types, Only
<1>2. Markers'
  BY DEF ProvInv, Markers
<1>3. \A q \in Requests : RequestOK(q)'
  BY DEF ProvInv, RequestOK, Only, Connecting, Disconnecting, Knows, Completing, BoundBy
<1>4. Unreserved'
  <2> SUFFICES ASSUME NEW o \in Operations, op[o].status = Nothing, account[AccountOf[o]].exists
               PROVE  /\ \A i \in Ids : provider[i].marker # o
                      /\ \A q \in Requests : Connecting(q)' /\ req'[q].op = o => req'[q].step = "reserving"
    BY DEF Unreserved
  <2>1. /\ \A i \in Ids : provider[i].marker # o
        /\ \A q \in Requests : Connecting(q) /\ req[q].op = o => req[q].step = "reserving"
    BY DEF ProvInv, Unreserved
  <2>2. QED
    BY <2>1 DEF Only, Connecting
<1>5. Completed'
  BY DEF ProvInv, Completed, BoundBy
<1>6. OneMaker'
  <2>1. \A o : MadeFor(o)' = MadeFor(o)
    BY DEF MadeFor
  <2>2. \A o : \A q \in Requests : q # r => (Maker(q, o)' <=> Maker(q, o))
    BY DEF Only, Maker
  <2> SUFFICES ASSUME NEW o \in Operations \ hurried'
               PROVE  /\ \A i, j \in MadeFor(o) : i = j
                      /\ \A p \in Requests : Maker(p, o)' =>
                           MadeFor(o) = {} /\ \A q \in Requests : Maker(q, o)' => q = p
    BY <2>1 DEF OneMaker
  <2>3. /\ \A i, j \in MadeFor(o) : i = j
        /\ \A p \in Requests : Maker(p, o) =>
             MadeFor(o) = {} /\ \A q \in Requests : Maker(q, o) => q = p
    BY DEF ProvInv, OneMaker
  <2>4. QED
    BY <2>2, <2>3
<1>7. QED
  BY <1>1, <1>2, <1>3, <1>4, <1>5, <1>6 DEF ProvInv

(* The steps of a request that only read, or end it.                        *)
LEMMA QuietSteps ==
  ASSUME ProvInv, NEW r \in Requests,
         \/ \E o \in Operations : Connect(r, o)
         \/ \E a \in Accounts, step \in {"deleting", "unbinding"} : Disconnect(r, a, step)
         \/ LookUp(r) \/ LookUpFails(r) \/ Reveal(r) \/ Poll(r) \/ PollFails(r)
         \/ Converge(r) \/ Crash(r)
  PROVE  ProvInv'
<1> USE DEF history
<1>0. Types /\ RequestOK(r) /\ req[r] \in Request /\ MaxProvided \in Nat /\ MaxFaults \in Nat
  BY Assumed DEF ProvInv, Types
<1>1. ASSUME NEW o \in Operations, Connect(r, o) PROVE ProvInv'
  <2> DEFINE x == [Idle EXCEPT !.step = "reserving", !.op = o]
  <2>1. x \in Request /\ x.step = "reserving" /\ x.op = o
    <3>1. 0 \in 0..MaxPolls /\ 0 \in 0..MaxProvided
      BY Assumed
    <3>2. QED
      BY <3>1 DEF Idle, Request, Steps, Statuses, None
  <2> HIDE DEF x
  <2>2. req' = [req EXCEPT ![r] = x]
      /\ UNCHANGED <<account, op, provider, secret, faults, history>>
    BY <1>1 DEF Connect, x
  <2>3. Only(r) /\ req'[r] = x
    BY <1>0, <2>1, <2>2 DEF Types, Only
  <2>4. RequestOK(r)'
    BY <2>1, <2>3 DEF RequestOK, Connecting, Disconnecting, Knows, Completing
  <2>5. QED
    BY <1>0, <2>1, <2>2, <2>3, <2>4, Quiet DEF Types, Maker
<1>2. ASSUME NEW a \in Accounts, NEW step \in {"deleting", "unbinding"}, Disconnect(r, a, step)
      PROVE  ProvInv'
  <2> DEFINE x == [Idle EXCEPT !.step = step, !.account = a, !.id = account[a].bound]
  <2>0. account[a].bound \in 0..MaxProvided /\ account[a].bound # None
    BY <1>0, <1>2 DEF Types, Account, Disconnect
  <2>1. x \in Request /\ x.step = step /\ x.account = a /\ x.id = account[a].bound
    <3>1. 0 \in 0..MaxPolls
      BY Assumed
    <3>2. QED
      BY <2>0, <3>1 DEF Idle, Request, Steps, Statuses, None
  <2> HIDE DEF x
  <2>2. req' = [req EXCEPT ![r] = x]
      /\ UNCHANGED <<account, op, provider, secret, faults, history>>
    BY <1>2 DEF Disconnect, x
  <2>3. Only(r) /\ req'[r] = x
    BY <1>0, <2>1, <2>2 DEF Types, Only
  <2>4. x.id \in Ids
    BY <1>0, <2>0, <2>1 DEF Ids, None
  <2>5. RequestOK(r)'
    BY <2>1, <2>3, <2>4 DEF RequestOK, Connecting, Disconnecting, Knows, Completing
  <2>6. QED
    BY <1>0, <2>1, <2>2, <2>3, <2>5, Quiet DEF Types, Maker, Connecting
<1>3. ASSUME Stop(r), UNCHANGED <<account, op, provider, released, secret>>,
             faults' \in 0..MaxFaults,
             hurried' \subseteq Operations, hurried \subseteq hurried'
      PROVE  ProvInv'
  <2>1. Only(r) /\ req'[r].step = "idle"
    BY <1>0, <1>3, Stopped
  <2>2. RequestOK(r)'
    BY <2>1 DEF RequestOK, Connecting, Disconnecting, Knows, Completing
  <2>3. QED
    BY <1>0, <1>3, <2>1, <2>2, Quiet DEF Types, Maker, Connecting
<1>4. Fault => faults' \in 0..MaxFaults
  BY <1>0 DEF Types, Fault
<1>5. ASSUME NEW status \in Statuses, Ends(r, status), status # "COMPLETED", Connecting(r),
             req[r].step # "reserving",
             UNCHANGED <<account, op, provider, secret, history>>, faults' \in 0..MaxFaults
      PROVE  ProvInv'
  <2>1. Only(r) /\ req'[r].step = "marking" /\ req'[r].op = req[r].op /\ req'[r].status = status
    BY <1>0, <1>5, Ended
  <2>2. RequestOK(r)'
    BY <1>0, <1>5, <2>1 DEF RequestOK, Connecting, Disconnecting, Knows, Completing
  <2>3. QED
    BY <1>0, <1>5, <2>1, <2>2, Quiet DEF Types, Maker
<1>6. ASSUME NEW i \in Ids, NEW found \in BOOLEAN, Owns(r, i, found), Connecting(r),
             req[r].step # "reserving",
             provider[i].marker = req[r].op,
             UNCHANGED <<account, op, provider, secret, faults, released>>,
             hurried' \subseteq Operations, hurried \subseteq hurried'
      PROVE  ProvInv'
  <2>1. Only(r) /\ req'[r].step = "accepting" /\ req'[r].op = req[r].op /\ req'[r].id = i
    BY <1>0, <1>6, Owned
  <2>2. RequestOK(r)'
    BY <1>0, <1>6, <2>1 DEF RequestOK, Connecting, Disconnecting, Knows, Completing
  <2>3. QED
    BY <1>0, <1>6, <2>1, <2>2, Quiet DEF Types, Maker
<1>7. CASE LookUp(r)
  <2> DEFINE o == req[r].op
  <2>1. o \in Operations /\ Connecting(r) /\ req[r].step = "looking up"
    BY <1>0, <1>7 DEF LookUp, At, RequestOK, Connecting
  <2>2. hurried' \subseteq Operations /\ hurried \subseteq hurried'
    BY <1>0, <1>7, <2>1 DEF LookUp, Types
  <2>3. CASE Matches(o) = {} /\ Goto(r, "revealing")
    <3>1. Only(r) /\ req'[r].step = "revealing" /\ req'[r].op = o
      BY <1>0, <2>3, Went DEF Steps
    <3>2. RequestOK(r)'
      BY <2>1, <3>1 DEF RequestOK, Connecting, Disconnecting, Knows, Completing
    <3>3. o \notin hurried' => ~Underway(r, o)
      BY <1>7, <2>3 DEF LookUp
    <3>4. o \notin hurried' => MadeFor(o) = {} /\ \A q \in Requests : q # r => ~Maker(q, o)
      BY <2>3, <3>3 DEF Underway, Promised, MadeFor, Matches, Maker
    <3>5. \A p \in Operations \ hurried' : Maker(r, p)' =>
            MadeFor(p) = {} /\ \A q \in Requests : q # r => ~Maker(q, p)
      BY <3>1, <3>4 DEF Maker
    <3>6. UNCHANGED <<account, op, provider, released>> /\ secret' = secret /\ faults' = faults
      BY <1>7 DEF LookUp
    <3>7. QED
      BY <1>0, <2>1, <2>2, <3>1, <3>2, <3>5, <3>6, Quiet DEF Types
  <2>4. ASSUME NEW i \in Ids, Matches(o) = {i}, Owns(r, i, TRUE) PROVE ProvInv'
    BY <1>6, <1>7, <2>1, <2>2, <2>4 DEF LookUp, Matches
  <2>5. CASE Stop(r)
    BY <1>0, <1>3, <1>7, <2>2, <2>5 DEF LookUp, Types
  <2>6. QED
    BY <1>7, <2>3, <2>4, <2>5 DEF LookUp
<1>8. CASE LookUpFails(r)
  BY <1>0, <1>3, <1>4, <1>8 DEF LookUpFails, Types
<1>9. CASE Reveal(r)
  <2>1. Connecting(r) /\ req[r].step = "revealing"
    BY <1>9 DEF Reveal, At, Connecting
  <2>2. CASE Goto(r, "creating")
    <3>1. Only(r) /\ req'[r].step = "creating" /\ req'[r].op = req[r].op
      BY <1>0, <2>2, Went DEF Steps
    <3>2. RequestOK(r)'
      BY <1>0, <2>1, <3>1 DEF RequestOK, Connecting, Disconnecting, Knows, Completing
    <3>3. \A p : Maker(r, p)' => Maker(r, p)
      BY <2>1, <3>1 DEF Maker
    <3>4. QED
      BY <1>0, <1>9, <2>1, <3>1, <3>2, <3>3, Quiet DEF Types, Reveal
  <2>3. CASE Ends(r, "FAILED")
    BY <1>0, <1>5, <1>9, <2>1, <2>3 DEF Reveal, Statuses, Types
  <2>4. QED
    BY <1>9, <2>2, <2>3 DEF Reveal
<1>10. CASE Poll(r)
  <2> DEFINE o == req[r].op
  <2>1. Connecting(r) /\ req[r].step = "polling"
      /\ UNCHANGED <<account, op, provider, secret, faults, history>>
    BY <1>10 DEF Poll, At, Connecting
  <2>2. CASE Ends(r, "AMBIGUOUS") \/ Ends(r, "FAILED")
    BY <1>0, <1>5, <2>1, <2>2 DEF Statuses, Types
  <2>3. CASE req[r].polls > 0 /\ req' = [req EXCEPT ![r].polls = @ - 1]
    <3> DEFINE x == [req[r] EXCEPT !.polls = req[r].polls - 1]
    <3>1. req[r].polls - 1 \in 0..MaxPolls
      <4>1. req[r].polls \in 0..MaxPolls /\ MaxPolls \in Nat
        BY <1>0, Assumed DEF Request
      <4>2. QED
        BY <2>3, <4>1
    <3>2. x \in Request /\ x.step = "polling" /\ x.op = o
      BY <1>0, <2>1, <3>1 DEF Request
    <3>3. req' = [req EXCEPT ![r] = x]
      BY <1>0, <2>3 DEF Types
    <3> HIDE DEF x
    <3>4. Only(r) /\ req'[r] = x
      BY <1>0, <3>2, <3>3 DEF Types, Only
    <3>5. RequestOK(r)'
      BY <1>0, <2>1, <3>2, <3>4 DEF RequestOK, Connecting, Disconnecting, Knows, Completing
    <3>6. QED
      BY <1>0, <2>1, <3>2, <3>4, <3>5, Quiet DEF Types, Maker
  <2>4. ASSUME NEW i \in Ids, Matches(o) = {i}, Owns(r, i, FALSE) PROVE ProvInv'
    BY <1>0, <1>6, <2>1, <2>4 DEF Matches, Types
  <2>5. QED
    BY <1>10, <2>2, <2>3, <2>4 DEF Poll
<1>11. CASE PollFails(r)
  BY <1>0, <1>4, <1>5, <1>11 DEF PollFails, At, Connecting, Statuses
<1>12. CASE Converge(r)
  <2> DEFINE a == AccountOf[req[r].op]
  <2>1. Connecting(r) /\ req[r].step = "converging"
      /\ UNCHANGED <<account, op, provider, secret, faults, history>>
    BY <1>12 DEF Converge, At, Connecting
  <2>2. CASE Converged(a, req[r].id) /\ Ends(r, "COMPLETED")
    <3>1. Only(r) /\ req'[r].step = "marking" /\ req'[r].op = req[r].op /\ req'[r].id = req[r].id
      BY <1>0, <2>2, Ended DEF Statuses
    <3>2. RequestOK(r)'
      BY <1>0, <2>1, <2>2, <3>1
         DEF RequestOK, Connecting, Disconnecting, Knows, Completing, Converged, BoundBy
    <3>3. QED
      BY <1>0, <2>1, <3>1, <3>2, Quiet DEF Types, Maker
  <2>3. CASE Ends(r, "FAILED")
    BY <1>0, <1>5, <2>1, <2>3 DEF Statuses, Types
  <2>4. QED
    BY <1>12, <2>2, <2>3 DEF Converge
<1>13. CASE Crash(r)
  BY <1>0, <1>3, <1>4, <1>13 DEF Crash, Types
<1>14. QED
  BY <1>1, <1>2, <1>7, <1>8, <1>9, <1>10, <1>11, <1>12, <1>13

-----------------------------------------------------------------------------
(* Writes to the tables.                                                    *)

LEMMA MarkedRow ==
  ASSUME NEW was \in Operation, NEW status \in Statuses, NEW i \in 0..MaxProvided
  PROVE  /\ Marked(was, status, i) \in Operation
         /\ was.status = Nothing => Marked(was, status, i) = was
         /\ was.status # Nothing => Marked(was, status, i).status = status
         /\ Marked(was, status, i).id \in {was.id, i}
         /\ was.status # Nothing /\ i # None => Marked(was, status, i).id = i
BY DEF Marked, Operation

LEMMA StatusesAreSomething == Nothing \notin Statuses
BY DEF Nothing, Statuses

(* A request records what it knows of its operation, and may bind it.       *)
LEMMA Records ==
  ASSUME ProvInv, NEW r \in Requests, Only(r), NEW o \in Operations,
         op' \in [Operations -> Operation], \A p \in Operations : p # o => op'[p] = op[p],
         op'[o].status = Nothing <=> op[o].status = Nothing,
         op'[o].id # None => provider[op'[o].id].marker = o,
         op'[o].status = "COMPLETED" =>
           \E i \in Ids : op'[o].id = i /\ BoundBy(AccountOf[o], i)',
         account' \in [Accounts -> Account],
         \A a \in Accounts : account'[a].exists = account[a].exists,
         \A a \in Accounts : account'[a].bound # account[a].bound =>
           /\ a = AccountOf[o] /\ account[a].bound = None
           /\ provider[account'[a].bound].marker = o,
         UNCHANGED <<provider, released, hurried, secret>>, faults' \in 0..MaxFaults,
         RequestOK(r)', Connecting(r), req[r].step # "reserving", req'[r].step # "revealing",
         req'[r].step # "creating", Connecting(r)' => req'[r].op = req[r].op
  PROVE  ProvInv'
<1>0. AccountOf \in [Operations -> Accounts]
  BY Assumed
<1>1. Types'
  BY DEF ProvInv, Types, Only
<1>2. Markers'
  <2>1. \A p \in Operations : op'[p].id # None => provider[op'[p].id].marker = p
    BY DEF ProvInv, Markers
  <2>2. ASSUME NEW a \in Accounts, account'[a].bound # None
        PROVE  \E p \in Operations : AccountOf[p] = a /\ provider[account'[a].bound].marker = p
    <3>1. CASE account'[a].bound = account[a].bound
      BY <2>2, <3>1 DEF ProvInv, Markers
    <3>2. CASE account'[a].bound # account[a].bound
      BY <3>2
    <3>3. QED
      BY <3>1, <3>2
  <2>3. QED
    BY <2>1, <2>2 DEF ProvInv, Markers
<1>3. \A a \in Accounts, i \in 0..MaxProvided : i # None /\ BoundBy(a, i) => BoundBy(a, i)'
  BY DEF BoundBy
<1>4. ASSUME NEW q \in Requests PROVE RequestOK(q)'
  <2>1. CASE q = r
    BY <2>1
  <2>2. CASE q # r
    <3>1. req'[q] = req[q] /\ RequestOK(q)
      BY <2>2 DEF Only, ProvInv
    <3>2. Completing(q) => BoundBy(AccountOf[req[q].op], req[q].id)'
      <4>1. Completing(q) => AccountOf[req[q].op] \in Accounts
        BY <1>0, <3>1 DEF RequestOK, Completing, Connecting
      <4>2. Completing(q) => req[q].id \in 0..MaxProvided /\ req[q].id # None
        BY <3>1, Assumed DEF RequestOK, Knows, Ids, None
      <4>3. QED
        BY <1>3, <3>1, <4>1, <4>2 DEF RequestOK
    <3>3. QED
      BY <3>1, <3>2 DEF RequestOK, Connecting, Disconnecting, Knows, Completing, BoundBy
  <2>3. QED
    BY <2>1, <2>2
<1>5. Unreserved'
  <2> SUFFICES ASSUME NEW p \in Operations, op'[p].status = Nothing, account'[AccountOf[p]].exists
               PROVE  /\ \A i \in Ids : provider[i].marker # p
                      /\ \A q \in Requests : Connecting(q)' /\ req'[q].op = p => req'[q].step = "reserving"
    BY DEF Unreserved
  <2>1. op[p].status = Nothing /\ account[AccountOf[p]].exists
    BY <1>0
  <2>2. /\ \A i \in Ids : provider[i].marker # p
        /\ \A q \in Requests : Connecting(q) /\ req[q].op = p => req[q].step = "reserving"
    BY <2>1 DEF ProvInv, Unreserved
  <2>3. QED
    BY <2>2 DEF Only, Connecting
<1>6. Completed'
  <2> SUFFICES ASSUME NEW p \in Operations
               PROVE  /\ ~account'[AccountOf[p]].exists => op'[p].status = Nothing
                      /\ op'[p].status = "COMPLETED" =>
                           \E i \in Ids : op'[p].id = i /\ BoundBy(AccountOf[p], i)'
    BY Assumed DEF Completed, BoundBy, Ids, None
  <2>1. /\ ~account[AccountOf[p]].exists => op[p].status = Nothing
        /\ op[p].status = "COMPLETED" =>
             \E i \in Ids : op[p].id = i /\ BoundBy(AccountOf[p], i)
    BY Assumed DEF ProvInv, Completed, Types, Operation, Ids, None
  <2>2. /\ AccountOf[p] \in Accounts
        /\ \A i \in Ids : BoundBy(AccountOf[p], i) => BoundBy(AccountOf[p], i)'
    BY <1>0, <1>3, Assumed DEF Ids, None
  <2>3. CASE p = o
    BY <2>1, <2>2, <2>3
  <2>4. CASE p # o
    BY <2>1, <2>2, <2>4
  <2>5. QED
    BY <2>3, <2>4
<1>7. OneMaker'
  BY DEF ProvInv, OneMaker, MadeFor, Maker, Only
<1>8. QED
  BY <1>1, <1>2, <1>4, <1>5, <1>6, <1>7 DEF ProvInv

LEMMA RecordingSteps ==
  ASSUME ProvInv, NEW r \in Requests,
         Accept(r) \/ Bind(r) \/ BindFails(r) \/ MarkStatus(r)
  PROVE  ProvInv'
<1> USE DEF history
<1> SUFFICES ASSUME NEW o, o = req[r].op, NEW i, i = req[r].id PROVE ProvInv'
  OBVIOUS
<1> DEFINE a == AccountOf[o]
<1>0. /\ Types /\ Markers /\ RequestOK(r)
      /\ req[r] \in Request /\ MaxProvided \in Nat /\ MaxFaults \in Nat
      /\ AccountOf \in [Operations -> Accounts] /\ op \in [Operations -> Operation]
      /\ account \in [Accounts -> Account]
  BY Assumed DEF ProvInv, Types
<1>1. faults \in 0..MaxFaults /\ (Fault => faults' \in 0..MaxFaults)
  BY <1>0 DEF Types, Fault
<1>2. Connecting(r) => o \in Operations /\ op[o] \in Operation /\
                      a \in Accounts /\ account[a] \in Account
  BY <1>0 DEF RequestOK
<1>3. Knows(r) => i \in Ids /\ i \in 0..MaxProvided /\ i # None /\ provider[i].marker = o
  BY <1>0 DEF RequestOK, Ids, None
<1>4. \A p \in Operations : op[p].id # None => provider[op[p].id].marker = p
  BY <1>0 DEF Markers
<1>5. CASE Accept(r)
  <2>1. Connecting(r) /\ Knows(r) /\ req[r].step = "accepting"
        /\ UNCHANGED <<account, provider, secret, faults, hurried, released>>
    BY <1>5 DEF Accept, At, Connecting, Knows
  <2>2. /\ op' \in [Operations -> Operation] /\ \A p \in Operations : p # o => op'[p] = op[p]
        /\ op'[o].status = Nothing <=> op[o].status = Nothing
        /\ op'[o].status \in {Nothing, "ACCEPTED"} /\ op'[o].id \in {op[o].id, i}
    <3> DEFINE marked == Marked(op[o], "ACCEPTED", i)
    <3>1. /\ op[o] \in Operation /\ "ACCEPTED" \in Statuses /\ i \in 0..MaxProvided
      BY <1>2, <1>3, <2>1 DEF Statuses
    <3>2. /\ marked \in Operation /\ marked.id \in {op[o].id, i}
          /\ op[o].status = Nothing => marked = op[o]
          /\ op[o].status # Nothing => marked.status = "ACCEPTED"
          /\ op[o].status # Nothing /\ i # None => marked.id = i
      BY <3>1, MarkedRow
    <3>3. op' = [op EXCEPT ![o] = marked]
      BY <1>5 DEF Accept
    <3> HIDE DEF marked
    <3>4. /\ op' \in [Operations -> Operation] /\ op'[o] = marked
          /\ \A p \in Operations : p # o => op'[p] = op[p]
      BY <1>0, <1>2, <2>1, <3>2, <3>3
    <3>5. QED
      BY <1>3, <2>1, <3>1, <3>2, <3>4, StatusesAreSomething
  <2>3. op'[o].id # None => provider[op'[o].id].marker = o
    BY <1>2, <1>3, <1>4, <2>1, <2>2
  <2>4. op'[o].status # "COMPLETED"
    BY <2>2 DEF Nothing
  <2>5. Only(r) /\ req'[r].step = "binding" /\ req'[r].op = o /\ req'[r].id = i
    BY <1>0, <1>5, Went DEF Accept, Steps
  <2>6. RequestOK(r)'
    BY <1>2, <1>3, <2>1, <2>5 DEF RequestOK, Connecting, Disconnecting, Knows, Completing
  <2>7. QED
    BY <1>0, <1>1, <1>2, <2>1, <2>2, <2>3, <2>4, <2>5, <2>6, Records
<1>6. CASE MarkStatus(r)
  <2> DEFINE status == req[r].status
             j == IF status = "COMPLETED" THEN i ELSE None
  <2>1. Connecting(r) /\ req[r].step = "marking" /\ (status = "COMPLETED" => Knows(r) /\ Completing(r))
        /\ UNCHANGED <<account, provider, secret, faults, hurried, released>>
    BY <1>6 DEF MarkStatus, At, Connecting, Knows, Completing
  <2>2. status \in Statuses /\ j \in 0..MaxProvided /\ (j # None => j = i /\ Knows(r))
        /\ (status = "COMPLETED" => j = i /\ j # None)
    BY <1>0, <1>3, <2>1 DEF Request, None
  <2>3. /\ op' \in [Operations -> Operation] /\ \A p \in Operations : p # o => op'[p] = op[p]
        /\ op'[o].status = Nothing <=> op[o].status = Nothing
        /\ op'[o].status \in {Nothing, status} /\ op'[o].id \in {op[o].id, j}
        /\ op'[o].status # Nothing /\ j # None => op'[o].id = j
    <3> DEFINE marked == Marked(op[o], status, j)
    <3>1. /\ op[o] \in Operation /\ status \in Statuses /\ j \in 0..MaxProvided
      BY <1>2, <2>1, <2>2 DEF Statuses
    <3>2. /\ marked \in Operation /\ marked.id \in {op[o].id, j}
          /\ op[o].status = Nothing => marked = op[o]
          /\ op[o].status # Nothing => marked.status = status
          /\ op[o].status # Nothing /\ j # None => marked.id = j
      BY <3>1, MarkedRow
    <3>3. op' = [op EXCEPT ![o] = marked]
      BY <1>6 DEF MarkStatus
    <3> HIDE DEF marked, j, status
    <3>4. /\ op' \in [Operations -> Operation] /\ op'[o] = marked
          /\ \A p \in Operations : p # o => op'[p] = op[p]
      BY <1>0, <1>2, <2>1, <3>2, <3>3
    <3>5. QED
      BY <3>1, <3>2, <3>4, StatusesAreSomething
  <2> HIDE DEF j, status
  <2>4. op'[o].id # None => provider[op'[o].id].marker = o
    BY <1>2, <1>3, <1>4, <2>1, <2>2, <2>3
  <2>5. op'[o].status = "COMPLETED" => op'[o].id = i /\ i \in Ids /\ BoundBy(a, i)'
    <3> SUFFICES ASSUME op'[o].status = "COMPLETED"
                 PROVE  op'[o].id = i /\ i \in Ids /\ BoundBy(a, i)'
      OBVIOUS
    <3>1. status = "COMPLETED" /\ op'[o].status # Nothing
      BY <2>3 DEF Nothing
    <3>2. op'[o].id = i /\ i \in Ids /\ BoundBy(a, i)
      BY <1>0, <1>3, <2>1, <2>2, <2>3, <3>1 DEF RequestOK
    <3>3. QED
      BY <2>1, <3>2 DEF BoundBy
  <2>6. Only(r) /\ req'[r].step = "idle"
    BY <1>0, <1>6, Stopped DEF MarkStatus
  <2>7. RequestOK(r)'
    BY <2>6 DEF RequestOK, Connecting, Disconnecting, Knows, Completing
  <2>8. QED
    BY <1>0, <1>1, <1>2, <2>1, <2>3, <2>4, <2>5, <2>6, <2>7, Records DEF Connecting
<1>7. ASSUME Binds(r), req[r].step = "binding", UNCHANGED <<provider, secret, hurried, released>>,
             faults' \in 0..MaxFaults, Only(r), RequestOK(r)', req'[r].step # "revealing",
             req'[r].step # "creating", Connecting(r)' => req'[r].op = req[r].op
      PROVE  ProvInv'
  <2>1. Connecting(r) /\ Knows(r)
    BY <1>7 DEF Connecting, Knows
  <2>2. /\ op' \in [Operations -> Operation] /\ \A p \in Operations : p # o => op'[p] = op[p]
        /\ op'[o].status = Nothing <=> op[o].status = Nothing
        /\ op'[o].status \in {Nothing, "COMPLETED"} /\ op'[o].id \in {op[o].id, i}
        /\ op'[o].status # Nothing => op'[o].id = i
    <3> DEFINE marked == Marked(op[o], "COMPLETED", i)
    <3>1. /\ op[o] \in Operation /\ "COMPLETED" \in Statuses /\ i \in 0..MaxProvided
      BY <1>2, <1>3, <2>1 DEF Statuses
    <3>2. /\ marked \in Operation /\ marked.id \in {op[o].id, i}
          /\ op[o].status = Nothing => marked = op[o]
          /\ op[o].status # Nothing => marked.status = "COMPLETED"
          /\ op[o].status # Nothing /\ i # None => marked.id = i
      BY <3>1, MarkedRow
    <3>3. op' = [op EXCEPT ![o] = marked]
      BY <1>7 DEF Binds
    <3> HIDE DEF marked
    <3>4. /\ op' \in [Operations -> Operation] /\ op'[o] = marked
          /\ \A p \in Operations : p # o => op'[p] = op[p]
      BY <1>0, <1>2, <2>1, <3>2, <3>3
    <3>5. QED
      BY <1>3, <2>1, <3>1, <3>2, <3>4, StatusesAreSomething
  <2>3. op'[o].id # None => provider[op'[o].id].marker = o
    BY <1>2, <1>3, <1>4, <2>1, <2>2
  <2>4. account[a] \in Account /\ account[a].exists
        /\ (account[a].bound = None \/ account[a].bound = i)
        /\ account' = [account EXCEPT ![a].bound = i]
    BY <1>2, <1>7, <2>1 DEF Binds, Bindable
  <2>5. /\ account' \in [Accounts -> Account] /\ account'[a].bound = i
        /\ account'[a].exists = account[a].exists
        /\ \A b \in Accounts : b # a => account'[b] = account[b]
    BY <1>0, <1>2, <1>3, <2>1, <2>4 DEF Account
  <2>6. op'[o].status = "COMPLETED" => op'[o].id = i /\ i \in Ids /\ BoundBy(a, i)'
    BY <1>3, <2>1, <2>2, <2>5 DEF BoundBy, Nothing
  <2>7. \A b \in Accounts : account'[b].exists = account[b].exists
    BY <2>5
  <2>8. \A b \in Accounts : account'[b].bound # account[b].bound =>
           /\ b = a /\ account[b].bound = None /\ provider[account'[b].bound].marker = o
    BY <1>3, <2>1, <2>4, <2>5
  <2>9. QED
    BY <1>2, <1>7, <2>1, <2>2, <2>3, <2>5, <2>6, <2>7, <2>8, Records
<1>8. CASE Bind(r)
  <2>1. req[r].step = "binding" /\ UNCHANGED <<provider, secret, faults, hurried, released>>
        /\ Connecting(r) /\ Knows(r)
    BY <1>8 DEF Bind, At, Connecting, Knows
  <2>2. CASE Binds(r) /\ Stop(r)
    <3>1. Only(r) /\ req'[r].step = "idle"
      BY <1>0, <2>2, Stopped
    <3>2. RequestOK(r)'
      BY <3>1 DEF RequestOK, Connecting, Disconnecting, Knows, Completing
    <3>3. QED
      BY <1>1, <1>7, <2>1, <2>2, <3>1, <3>2 DEF Connecting
  <2>3. CASE Ends(r, "FAILED") /\ UNCHANGED <<account, op>>
    <3>1. Only(r) /\ req'[r].step = "marking" /\ req'[r].op = o /\ req'[r].status = "FAILED"
      BY <1>0, <2>3, Ended DEF Statuses
    <3>2. RequestOK(r)'
      BY <1>2, <2>1, <3>1 DEF RequestOK, Connecting, Disconnecting, Knows, Completing
    <3>3. QED
      BY <1>0, <1>1, <2>1, <2>3, <3>1, <3>2, Quiet DEF Types, Maker
  <2>4. CASE Goto(r, "converging") /\ UNCHANGED <<account, op>>
    <3>1. Only(r) /\ req'[r].step = "converging" /\ req'[r].op = o /\ req'[r].id = i
      BY <1>0, <2>4, Went DEF Steps
    <3>2. RequestOK(r)'
      BY <1>2, <1>3, <2>1, <3>1 DEF RequestOK, Connecting, Disconnecting, Knows, Completing
    <3>3. QED
      BY <1>0, <1>1, <2>1, <2>4, <3>1, <3>2, Quiet DEF Types, Maker
  <2>5. QED
    BY <1>8, <2>2, <2>3, <2>4 DEF Bind
<1>9. CASE BindFails(r)
  <2>1. req[r].step = "binding" /\ UNCHANGED <<provider, secret, hurried, released>>
        /\ Connecting(r) /\ Knows(r) /\ faults' \in 0..MaxFaults
    BY <1>1, <1>9 DEF BindFails, At, Connecting, Knows
  <2>2. Only(r) /\ req'[r].step = "marking" /\ req'[r].op = o /\ req'[r].status = "AMBIGUOUS"
    BY <1>0, <1>9, Ended DEF BindFails, Statuses
  <2>3. RequestOK(r)'
    BY <1>2, <2>1, <2>2 DEF RequestOK, Connecting, Disconnecting, Knows, Completing
  <2>4. CASE Binds(r)
    BY <1>7, <2>1, <2>2, <2>3, <2>4
  <2>5. CASE UNCHANGED <<account, op>>
    BY <1>0, <2>1, <2>2, <2>3, <2>5, Quiet DEF Types, Maker
  <2>6. QED
    BY <1>9, <2>4, <2>5 DEF BindFails
<1>10. QED
  BY <1>5, <1>6, <1>8, <1>9

-----------------------------------------------------------------------------
(* Steps that take away: bindings, accounts, what the provider has.         *)
LEMMA TakesAway ==
  ASSUME ProvInv, Types',
         \A q \in Requests :
           \/ req'[q] = req[q]
           \/ /\ req'[q].step \in {"idle", "unbinding"}
              /\ req'[q].step = "unbinding" => req'[q].account \in Accounts /\ req'[q].id \in Ids,
         \A i \in Ids : provider'[i].marker = provider[i].marker,
         \A i \in Ids : provider'[i].state = Nothing => provider[i].state = Nothing,
         \A o \in Operations : MadeFor(o)' \subseteq MadeFor(o),
         \A o \in Operations :
           op'[o] = op[o] \/ (op'[o] = NoOperation /\ ~account'[AccountOf[o]].exists),
         \A a \in Accounts :
           \/ account'[a] = account[a]
           \/ /\ account'[a].bound = None
              /\ \/ account'[a].exists = account[a].exists /\ a \in released'
                 \/ /\ ~account'[a].exists
                    /\ \A o \in Operations : AccountOf[o] = a => op'[o] = NoOperation,
         hurried' = hurried, released \subseteq released'
  PROVE  ProvInv'
<1>0. AccountOf \in [Operations -> Accounts]
  BY Assumed
<1>1. Markers'
  <2>1. \A o \in Operations : op'[o].id # None => provider'[op'[o].id].marker = o
    <3>1. \A o \in Operations : op[o].id # None => op[o].id \in Ids /\ provider[op[o].id].marker = o
      BY Assumed DEF ProvInv, Types, Operation, Markers, Ids, None
    <3>2. NoOperation.id = None
      BY DEF NoOperation
    <3>3. QED
      BY <3>1, <3>2
  <2>2. \A a \in Accounts : account'[a].bound # None =>
          \E o \in Operations : AccountOf[o] = a /\ provider'[account'[a].bound].marker = o
    <3>1. \A a \in Accounts : account[a].bound # None =>
            account[a].bound \in Ids
      BY Assumed DEF ProvInv, Types, Account, Ids, None
    <3>2. QED
      BY <3>1 DEF ProvInv, Markers
  <2>3. QED
    BY <2>1, <2>2 DEF ProvInv, Markers
<1>2. \A a \in Accounts : \A i : BoundBy(a, i) => BoundBy(a, i)'
  BY DEF BoundBy
<1>3. ASSUME NEW q \in Requests PROVE RequestOK(q)'
  <2>1. CASE req'[q] = req[q]
    <3>1. RequestOK(q)
      BY DEF ProvInv
    <3>2. Completing(q) => BoundBy(AccountOf[req[q].op], req[q].id)'
      <4>1. Completing(q) => AccountOf[req[q].op] \in Accounts
        BY <1>0, <3>1 DEF RequestOK, Completing, Connecting
      <4>2. QED
        BY <1>2, <2>1, <3>1, <4>1 DEF RequestOK
    <3>3. QED
      BY <2>1, <3>1, <3>2 DEF RequestOK, Connecting, Disconnecting, Knows, Completing, BoundBy
  <2>2. CASE req'[q] # req[q]
    BY <2>2 DEF RequestOK, Connecting, Disconnecting, Knows, Completing
  <2>3. QED
    BY <2>1, <2>2
<1>4. Unreserved'
  <2> SUFFICES ASSUME NEW o \in Operations, op'[o].status = Nothing, account'[AccountOf[o]].exists
               PROVE  /\ \A i \in Ids : provider'[i].marker # o
                      /\ \A q \in Requests : Connecting(q)' /\ req'[q].op = o => req'[q].step = "reserving"
    BY DEF Unreserved
  <2>1. op[o].status = Nothing /\ account[AccountOf[o]].exists
    BY <1>0
  <2>2. /\ \A i \in Ids : provider[i].marker # o
        /\ \A q \in Requests : Connecting(q) /\ req[q].op = o => req[q].step = "reserving"
    BY <2>1 DEF ProvInv, Unreserved
  <2>3. QED
    BY <2>2 DEF Connecting
<1>5. Completed'
  <2> SUFFICES ASSUME NEW o \in Operations
               PROVE  /\ ~account'[AccountOf[o]].exists => op'[o].status = Nothing
                      /\ op'[o].status = "COMPLETED" =>
                           \E i \in Ids : op'[o].id = i /\ BoundBy(AccountOf[o], i)'
    BY Assumed DEF Completed, BoundBy, Ids, None
  <2>1. /\ ~account[AccountOf[o]].exists => op[o].status = Nothing
        /\ op[o].status = "COMPLETED" => \E i \in Ids : op[o].id = i /\ BoundBy(AccountOf[o], i)
    BY Assumed DEF ProvInv, Completed, Types, Operation, Ids, None
  <2>2. AccountOf[o] \in Accounts /\ NoOperation.status = Nothing
      /\ Nothing # "COMPLETED"
    BY <1>0 DEF NoOperation, Nothing
  <2>3. QED
    BY <1>2, <2>1, <2>2
<1>6. OneMaker'
  <2> SUFFICES ASSUME NEW o \in Operations \ hurried
               PROVE  /\ \A i, j \in MadeFor(o)' : i = j
                      /\ \A p \in Requests : Maker(p, o)' =>
                           MadeFor(o)' = {} /\ \A q \in Requests : Maker(q, o)' => q = p
    BY DEF OneMaker
  <2>1. \A q \in Requests : Maker(q, o)' => Maker(q, o)
    BY DEF Maker
  <2>2. /\ \A i, j \in MadeFor(o) : i = j
        /\ \A p \in Requests : Maker(p, o) =>
             MadeFor(o) = {} /\ \A q \in Requests : Maker(q, o) => q = p
    BY DEF ProvInv, OneMaker
  <2>3. MadeFor(o)' \subseteq MadeFor(o)
    OBVIOUS
  <2>4. QED
    BY <2>1, <2>2, <2>3
<1>7. QED
  BY <1>1, <1>3, <1>4, <1>5, <1>6 DEF ProvInv

(* The provider loses, or settles, one account.                             *)
LEMMA ProviderChanges ==
  ASSUME Types, NEW i \in Ids, NEW state \in {"there", "gone"},
         provider' = [provider EXCEPT ![i].state = state],
         state = "there" => provider[i].state = "promised"
  PROVE  /\ provider' \in [Ids -> Provided]
         /\ \A j \in Ids : provider'[j].marker = provider[j].marker
         /\ \A j \in Ids : provider'[j].state = Nothing => provider[j].state = Nothing
         /\ \A o \in Operations : MadeFor(o)' \subseteq MadeFor(o)
<1>1. provider \in [Ids -> Provided] /\ provider[i] \in Provided
  BY DEF Types
<1>2. [provider[i] EXCEPT !.state = state] \in Provided
  BY <1>1 DEF Provided
<1>3. /\ provider' \in [Ids -> Provided]
      /\ provider'[i].state = state /\ provider'[i].marker = provider[i].marker
      /\ \A j \in Ids : j # i => provider'[j] = provider[j]
  BY <1>1, <1>2 DEF Provided
<1>4. QED
  BY <1>3 DEF MadeFor, Nothing

LEMMA TakingSteps ==
  ASSUME ProvInv,
         \/ \E r \in Requests : DeleteProvided(r) \/ DeleteFails(r) \/ Unbind(r)
         \/ \E a \in Accounts : DeleteAccount(a)
         \/ TurnCredential
         \/ \E i \in Ids : Settle(i)
  PROVE  ProvInv'
<1> USE DEF history
<1>0. /\ Types /\ MaxProvided \in Nat /\ MaxFaults \in Nat /\ AccountOf \in [Operations -> Accounts]
      /\ account \in [Accounts -> Account] /\ op \in [Operations -> Operation]
      /\ \A r \in Requests : RequestOK(r)
  BY Assumed DEF ProvInv, Types
<1>1. faults \in 0..MaxFaults /\ (Fault => faults' \in 0..MaxFaults)
  BY <1>0 DEF Types, Fault
<1>2. provider' = provider => \A o \in Operations : MadeFor(o)' \subseteq MadeFor(o)
  BY DEF MadeFor
<1>3. ASSUME NEW r \in Requests, DeleteProvided(r) PROVE ProvInv'
  <2>1. req[r].id \in Ids /\ req[r].account \in Accounts
    BY <1>0, <1>3 DEF DeleteProvided, At, RequestOK, Disconnecting
  <2>2. PICK i \in Ids : i = req[r].id
    BY <2>1
  <2>3. /\ provider' \in [Ids -> Provided]
        /\ \A j \in Ids : provider'[j].marker = provider[j].marker
        /\ \A j \in Ids : provider'[j].state = Nothing => provider[j].state = Nothing
        /\ \A o \in Operations : MadeFor(o)' \subseteq MadeFor(o)
    <3>1. provider' = [provider EXCEPT ![i].state = "gone"]
      BY <1>3, <2>2 DEF DeleteProvided
    <3>2. QED
      BY <1>0, <3>1, ProviderChanges
  <2>4. /\ Only(r) /\ req'[r].step = "unbinding" /\ req'[r].id = req[r].id
        /\ req'[r].account = req[r].account
    BY <1>0, <1>3, Went DEF DeleteProvided, Steps
  <2>5. UNCHANGED <<account, op, secret, faults, hurried, released>>
    BY <1>3 DEF DeleteProvided
  <2>6. Types'
    BY <1>0, <2>3, <2>4, <2>5 DEF Types, Only
  <2>7. QED
    BY <2>1, <2>3, <2>4, <2>5, <2>6, TakesAway DEF Only
<1>4. ASSUME NEW r \in Requests, DeleteFails(r) PROVE ProvInv'
  <2>1. req[r].id \in Ids
    BY <1>0, <1>4 DEF DeleteFails, At, RequestOK, Disconnecting
  <2>2. PICK i \in Ids : i = req[r].id
    BY <2>1
  <2>3. /\ provider' \in [Ids -> Provided]
        /\ \A j \in Ids : provider'[j].marker = provider[j].marker
        /\ \A j \in Ids : provider'[j].state = Nothing => provider[j].state = Nothing
        /\ \A o \in Operations : MadeFor(o)' \subseteq MadeFor(o)
    <3>1. CASE provider' = [provider EXCEPT ![i].state = "gone"]
      BY <1>0, <3>1, ProviderChanges
    <3>2. CASE provider' = provider
      BY <1>0, <1>2, <3>2 DEF Types
    <3>3. QED
      BY <1>4, <2>2, <3>1, <3>2 DEF DeleteFails
  <2>4. Only(r) /\ req'[r].step = "idle"
    BY <1>0, <1>4, Stopped DEF DeleteFails
  <2>5. UNCHANGED <<account, op, secret, hurried, released>> /\ faults' \in 0..MaxFaults
    BY <1>1, <1>4 DEF DeleteFails
  <2>6. Types'
    BY <1>0, <2>3, <2>4, <2>5 DEF Types, Only
  <2>7. QED
    BY <2>3, <2>4, <2>5, <2>6, TakesAway DEF Only
<1>5. ASSUME NEW r \in Requests, Unbind(r) PROVE ProvInv'
  <2>1. req[r].account \in Accounts
    BY <1>0, <1>5 DEF Unbind, At, RequestOK, Disconnecting
  <2>2. PICK a \in Accounts : a = req[r].account
    BY <2>1
  <2>3. /\ account' = [account EXCEPT ![a].bound = None]
        /\ released' = released \cup {a}
        /\ UNCHANGED <<op, provider, secret, faults, hurried>>
    BY <1>5, <2>2 DEF Unbind
  <2>4. account[a] \in Account /\ [account[a] EXCEPT !.bound = None] \in Account
    BY <1>0 DEF Account, None
  <2>5. /\ account' \in [Accounts -> Account] /\ account'[a].bound = None
        /\ account'[a].exists = account[a].exists
        /\ \A b \in Accounts : b # a => account'[b] = account[b]
    BY <1>0, <2>3, <2>4 DEF Account
  <2>6. Only(r) /\ req'[r].step = "idle"
    BY <1>0, <1>5, Stopped DEF Unbind
  <2>7. Types'
    BY <1>0, <2>3, <2>5, <2>6 DEF Types, Only
  <2>8. \A b \in Accounts :
           \/ account'[b] = account[b]
           \/ /\ account'[b].bound = None
              /\ account'[b].exists = account[b].exists /\ b \in released'
    BY <2>3, <2>5
  <2>9. QED
    BY <1>2, <2>3, <2>6, <2>7, <2>8, TakesAway DEF Only
<1>6. ASSUME NEW a \in Accounts, DeleteAccount(a) PROVE ProvInv'
  <2>1. /\ account' = [account EXCEPT ![a] = [exists |-> FALSE, bound |-> None]]
        /\ op' = [o \in Operations |-> IF AccountOf[o] = a THEN NoOperation ELSE op[o]]
        /\ UNCHANGED <<provider, secret, req, faults, hurried, released>>
    BY <1>6 DEF DeleteAccount
  <2>2. [exists |-> FALSE, bound |-> None] \in Account /\ NoOperation \in Operation
    BY <1>0 DEF Account, None, NoOperation, Operation
  <2>3. /\ account' \in [Accounts -> Account] /\ op' \in [Operations -> Operation]
        /\ account'[a].bound = None /\ ~account'[a].exists
        /\ \A b \in Accounts : b # a => account'[b] = account[b]
        /\ \A o \in Operations : op'[o] = IF AccountOf[o] = a THEN NoOperation ELSE op[o]
    BY <1>0, <2>1, <2>2
  <2>4. Types'
    BY <1>0, <2>1, <2>3 DEF Types
  <2>5. QED
    BY <1>2, <2>1, <2>3, <2>4, TakesAway
<1>7. CASE TurnCredential
  <2>1. UNCHANGED <<account, op, provider, req, faults, hurried, released>> /\ secret' \in BOOLEAN
    BY <1>7 DEF TurnCredential
  <2>2. Types'
    BY <1>0, <2>1 DEF Types
  <2>3. QED
    BY <1>2, <2>1, <2>2, TakesAway
<1>8. ASSUME NEW i \in Ids, Settle(i) PROVE ProvInv'
  <2>1. PICK state \in {"there", "gone"} : provider' = [provider EXCEPT ![i].state = state]
    BY <1>8 DEF Settle
  <2>2. UNCHANGED <<account, op, secret, req, faults, hurried, released>>
        /\ provider[i].state = "promised"
    BY <1>8 DEF Settle
  <2>3. /\ provider' \in [Ids -> Provided]
        /\ \A j \in Ids : provider'[j].marker = provider[j].marker
        /\ \A j \in Ids : provider'[j].state = Nothing => provider[j].state = Nothing
        /\ \A o \in Operations : MadeFor(o)' \subseteq MadeFor(o)
    BY <1>0, <2>1, <2>2, ProviderChanges
  <2>4. Types'
    BY <1>0, <2>2, <2>3 DEF Types
  <2>5. QED
    BY <2>2, <2>3, <2>4, TakesAway
<1>9. QED
  BY <1>3, <1>4, <1>5, <1>6, <1>7, <1>8

-----------------------------------------------------------------------------
(* Steps that make something: a row of an operation, a provider account.    *)

LEMMA ReserveStep ==
  ASSUME ProvInv, NEW r \in Requests, Reserve(r)
  PROVE  ProvInv'
<1> USE DEF history
<1> SUFFICES ASSUME NEW o, o = req[r].op PROVE ProvInv'
  OBVIOUS
<1>0. /\ Types /\ RequestOK(r) /\ op \in [Operations -> Operation] /\ op[o] \in Operation
      /\ o \in Operations /\ Connecting(r) /\ req[r].step = "reserving"
      /\ UNCHANGED <<account, provider, secret, faults, hurried, released>>
  BY DEF ProvInv, Types, Reserve, At, RequestOK, Connecting
<1>1. CASE /\ op[o].status = Nothing /\ account[AccountOf[o]].exists
           /\ op' = [op EXCEPT ![o].status = "PENDING"] /\ Goto(r, "revealing")
  <2>1. [op[o] EXCEPT !.status = "PENDING"] \in Operation
    BY <1>0 DEF Operation, Statuses
  <2>2. /\ op' \in [Operations -> Operation]
        /\ op'[o].status = "PENDING" /\ op'[o].id = op[o].id
        /\ \A p \in Operations : p # o => op'[p] = op[p]
    BY <1>0, <1>1, <2>1 DEF Operation
  <2>3. /\ Only(r) /\ req'[r].step = "revealing" /\ req'[r].op = o
    BY <1>0, <1>1, Went DEF Steps
  <2>4. /\ \A i \in Ids : provider[i].marker # o
        /\ \A q \in Requests : Connecting(q) /\ req[q].op = o => req[q].step = "reserving"
    BY <1>0, <1>1 DEF ProvInv, Unreserved
  <2>5. Types'
    BY <1>0, <2>2, <2>3 DEF Types, Only
  <2>6. Markers'
    <3>1. \A p \in Operations : op'[p].id = op[p].id
      BY <2>2
    <3>2. QED
      BY <1>0, <3>1 DEF ProvInv, Markers
  <2>7. ASSUME NEW q \in Requests PROVE RequestOK(q)'
    <3>1. CASE q = r
      BY <1>0, <2>3, <3>1 DEF RequestOK, Connecting, Disconnecting, Knows, Completing
    <3>2. CASE q # r
      BY <1>0, <2>3, <3>2
         DEF ProvInv, Only, RequestOK, Connecting, Disconnecting, Knows, Completing, BoundBy
    <3>3. QED
      BY <3>1, <3>2
  <2>8. Unreserved'
    <3> SUFFICES ASSUME NEW p \in Operations, op'[p].status = Nothing,
                           account[AccountOf[p]].exists
                 PROVE  /\ \A i \in Ids : provider[i].marker # p
                        /\ \A q \in Requests :
                             Connecting(q)' /\ req'[q].op = p => req'[q].step = "reserving"
      BY <1>0 DEF Unreserved
    <3>1. p # o /\ op[p].status = Nothing
      BY <2>2 DEF Nothing
    <3>2. /\ \A i \in Ids : provider[i].marker # p
          /\ \A q \in Requests : Connecting(q) /\ req[q].op = p => req[q].step = "reserving"
      BY <3>1 DEF ProvInv, Unreserved
    <3>3. QED
      BY <2>3, <3>1, <3>2 DEF Only, Connecting
  <2>9. Completed'
    BY <1>0, <1>1, <2>2 DEF ProvInv, Completed, BoundBy
  <2>10. OneMaker'
    <3>1. \A p : MadeFor(p)' = MadeFor(p)
      BY <1>0 DEF MadeFor
    <3>2. MadeFor(o) = {} /\ \A q \in Requests : Maker(q, o)' => q = r
      BY <2>3, <2>4 DEF MadeFor, Maker, Only, Connecting
    <3>3. \A p \in Operations : p # o => \A q \in Requests : Maker(q, p)' => Maker(q, p)
      BY <2>3 DEF Maker, Only
    <3>4. \A p \in Operations \ hurried :
            /\ \A i, j \in MadeFor(p) : i = j
            /\ \A s \in Requests : Maker(s, p) =>
                 MadeFor(p) = {} /\ \A q \in Requests : Maker(q, p) => q = s
      BY DEF ProvInv, OneMaker
    <3>5. \A p \in Operations \ hurried :
            /\ \A i, j \in MadeFor(p) : i = j
            /\ \A s \in Requests : Maker(s, p)' =>
                 MadeFor(p) = {} /\ \A q \in Requests : Maker(q, p)' => q = s
      BY <3>2, <3>3, <3>4
    <3>6. QED
      BY <1>0, <3>1, <3>5 DEF OneMaker
  <2>11. QED
    BY <2>5, <2>6, <2>7, <2>8, <2>9, <2>10 DEF ProvInv
<1>2. CASE Stop(r) /\ UNCHANGED op
  <2>1. Only(r) /\ req'[r].step = "idle"
    BY <1>0, <1>2, Stopped
  <2>2. RequestOK(r)'
    BY <2>1 DEF RequestOK, Connecting, Disconnecting, Knows, Completing
  <2>3. QED
    BY <1>0, <1>2, <2>1, <2>2, Quiet DEF Types, Maker, Connecting
<1>3. CASE op[o].status # Nothing /\ Goto(r, "looking up") /\ UNCHANGED op
  <2>1. Only(r) /\ req'[r].step = "looking up" /\ req'[r].op = o
    BY <1>0, <1>3, Went DEF Steps
  <2>2. RequestOK(r)'
    BY <1>0, <2>1 DEF RequestOK, Connecting, Disconnecting, Knows, Completing
  <2>3. QED
    BY <1>0, <1>3, <2>1, <2>2, Quiet DEF Types, Maker
<1>4. QED
  BY <1>1, <1>2, <1>3 DEF Reserve, Reconciled

(* Request r has the provider make account i for its operation.             *)
LEMMA Makes ==
  ASSUME ProvInv, NEW r \in Requests, req[r].step = "creating", Only(r),
         NEW o, o = req[r].op, NEW i \in Ids, NEW state \in {"promised", "there"},
         provider[i].state = Nothing,
         provider' = [provider EXCEPT ![i] = [state |-> state, marker |-> o]],
         UNCHANGED <<account, op, secret, hurried, released>>, faults' \in 0..MaxFaults,
         RequestOK(r)', req'[r].op = o,
         req'[r].step \notin {"reserving", "revealing", "creating"}
  PROVE  ProvInv'
<1>0. /\ Types /\ RequestOK(r) /\ o \in Operations /\ Connecting(r)
      /\ provider \in [Ids -> Provided] /\ provider[i].marker = Nothing
      /\ Nothing \notin Operations
  BY Assumed DEF ProvInv, Types, RequestOK, Connecting, Markers
<1>1. [state |-> state, marker |-> o] \in Provided
  BY <1>0 DEF Provided
<1>2. /\ provider' \in [Ids -> Provided]
      /\ provider'[i].state = state /\ provider'[i].marker = o
      /\ \A j \in Ids : j # i => provider'[j] = provider[j]
  BY <1>0, <1>1
<1>3. \A j \in Ids, p \in Operations : provider[j].marker = p => provider'[j].marker = p
  BY <1>0, <1>2
<1>4. Types'
  BY <1>0, <1>2 DEF Types, Only
<1>5. Markers'
  <2>1. \A j \in Ids : provider'[j].state = Nothing => provider'[j].marker = Nothing
    BY <1>2 DEF ProvInv, Markers, Nothing
  <2>2. \A p \in Operations : op[p].id # None => provider'[op[p].id].marker = p
    <3>1. \A p \in Operations : op[p].id # None => op[p].id \in Ids /\ provider[op[p].id].marker = p
      BY Assumed DEF ProvInv, Types, Operation, Markers, Ids, None
    <3>2. QED
      BY <1>3, <3>1
  <2>3. \A a \in Accounts : account[a].bound # None =>
          \E p \in Operations : AccountOf[p] = a /\ provider'[account[a].bound].marker = p
    <3>1. \A a \in Accounts : account[a].bound # None =>
            account[a].bound \in Ids
      BY Assumed DEF ProvInv, Types, Account, Ids, None
    <3>2. QED
      BY <1>3, <3>1 DEF ProvInv, Markers
  <2>4. QED
    BY <2>1, <2>2, <2>3 DEF Markers
<1>6. ASSUME NEW q \in Requests PROVE RequestOK(q)'
  <2>1. CASE q = r
    BY <2>1
  <2>2. CASE q # r
    <3>1. req'[q] = req[q] /\ RequestOK(q)
      BY <2>2 DEF Only, ProvInv
    <3>2. Knows(q) => req[q].op \in Operations
      BY <3>1 DEF RequestOK, Knows, Completing, Connecting
    <3>3. Knows(q) => provider'[req[q].id].marker = req[q].op
      BY <1>3, <3>1, <3>2 DEF RequestOK
    <3>4. QED
      BY <3>1, <3>3 DEF RequestOK, Connecting, Disconnecting, Knows, Completing, BoundBy
  <2>3. QED
    BY <2>1, <2>2
<1>7. Unreserved'
  <2> SUFFICES ASSUME NEW p \in Operations, op[p].status = Nothing, account[AccountOf[p]].exists
               PROVE  /\ \A j \in Ids : provider'[j].marker # p
                      /\ \A q \in Requests : Connecting(q)' /\ req'[q].op = p => req'[q].step = "reserving"
    BY DEF Unreserved
  <2>1. /\ \A j \in Ids : provider[j].marker # p
        /\ \A q \in Requests : Connecting(q) /\ req[q].op = p => req[q].step = "reserving"
    BY DEF ProvInv, Unreserved
  <2>2. p # o
    BY <1>0, <2>1
  <2>3. QED
    BY <1>2, <2>1, <2>2 DEF Only, Connecting
<1>8. Completed'
  BY DEF ProvInv, Completed, BoundBy
<1>9. OneMaker'
  <2> SUFFICES ASSUME NEW p \in Operations \ hurried
               PROVE  /\ \A j, k \in MadeFor(p)' : j = k
                      /\ \A s \in Requests : Maker(s, p)' =>
                           MadeFor(p)' = {} /\ \A q \in Requests : Maker(q, p)' => q = s
    BY DEF OneMaker
  <2>1. /\ \A j, k \in MadeFor(p) : j = k
        /\ \A s \in Requests : Maker(s, p) =>
             MadeFor(p) = {} /\ \A q \in Requests : Maker(q, p) => q = s
    BY DEF ProvInv, OneMaker
  <2>2. \A q \in Requests : Maker(q, p)' => q # r /\ Maker(q, p)
    BY DEF Maker, Only
  <2>3. CASE p = o
    <3>1. Maker(r, o) /\ \A j \in MadeFor(o)' : j = i \/ j \in MadeFor(o)
      BY <1>2 DEF Maker, MadeFor
    <3>2. QED
      BY <2>1, <2>2, <2>3, <3>1
  <2>4. CASE p # o
    <3>1. MadeFor(p)' = MadeFor(p)
      BY <1>0, <1>2, <2>4 DEF MadeFor
    <3>2. QED
      BY <2>1, <2>2, <3>1
  <2>5. QED
    BY <2>3, <2>4
<1>10. QED
  BY <1>4, <1>5, <1>6, <1>7, <1>8, <1>9 DEF ProvInv

LEMMA CreatingSteps ==
  ASSUME ProvInv, NEW r \in Requests, CreateAccount(r) \/ CreateFails(r)
  PROVE  ProvInv'
<1> USE DEF history
<1> SUFFICES ASSUME NEW o, o = req[r].op PROVE ProvInv'
  OBVIOUS
<1>0. /\ Types /\ RequestOK(r) /\ o \in Operations /\ Connecting(r) /\ req[r].step = "creating"
      /\ req[r] \in Request /\ provider \in [Ids -> Provided] /\ MaxProvided \in Nat
      /\ UNCHANGED <<account, op, secret, hurried, released>>
  BY Assumed DEF ProvInv, Types, RequestOK, Connecting, CreateAccount, CreateFails, At
<1>1. faults \in 0..MaxFaults /\ (Fault => faults' \in 0..MaxFaults)
  BY <1>0, Assumed DEF Types, Fault
<1>2. ASSUME NEW state, Made(o, state)
      PROVE  \E i \in Ids : /\ provider[i].state = Nothing
                                 /\ provider' = [provider EXCEPT ![i] = [state |-> state, marker |-> o]]
                                 /\ provider'[i].marker = o
                                 /\ \A j \in Ids : provider'[j] # provider[j] => j = i
  <2>1. PICK i \in Ids : /\ provider[i].state = Nothing
                              /\ provider' = [provider EXCEPT ![i] = [state |-> state, marker |-> o]]
    BY <1>2 DEF Made
  <2> DEFINE x == [state |-> state, marker |-> o]
  <2>2. x.marker = o
    OBVIOUS
  <2>3. provider' = [provider EXCEPT ![i] = x]
    BY <2>1
  <2> HIDE DEF x
  <2>4. provider'[i] = x /\ \A j \in Ids : j # i => provider'[j] = provider[j]
    BY <1>0, <2>3
  <2>5. provider'[i].marker = o /\ \A j \in Ids : provider'[j] # provider[j] => j = i
    BY <2>2, <2>4
  <2>6. QED
    BY <2>1, <2>5
<1>3. ASSUME Made(o, "there"), NEW j \in Ids, provider'[j] # provider[j], Owns(r, j, FALSE),
             faults' = faults
      PROVE  ProvInv'
  <2>1. PICK i \in Ids : /\ provider[i].state = Nothing
                              /\ provider' = [provider EXCEPT ![i] = [state |-> "there", marker |-> o]]
                              /\ provider'[i].marker = o /\ j = i
    BY <1>2, <1>3
  <2>2. Only(r) /\ req'[r].step = "accepting" /\ req'[r].op = o /\ req'[r].id = i
    BY <1>0, <1>3, <2>1, Owned
  <2>3. RequestOK(r)'
    BY <1>0, <2>1, <2>2 DEF RequestOK, Connecting, Disconnecting, Knows, Completing
  <2>4. QED
    BY <1>0, <1>1, <1>3, <2>1, <2>2, <2>3, Makes
<1>4. ASSUME Made(o, "promised"), faults' = faults,
             req' = [req EXCEPT ![r] = [@ EXCEPT !.step = "polling", !.polls = MaxPolls]]
      PROVE  ProvInv'
  <2>1. PICK i \in Ids : /\ provider[i].state = Nothing
                              /\ provider' = [provider EXCEPT ![i] = [state |-> "promised", marker |-> o]]
    BY <1>2, <1>4
  <2> DEFINE x == [req[r] EXCEPT !.step = "polling", !.polls = MaxPolls]
  <2>2. x \in Request /\ x.step = "polling" /\ x.op = o
    <3>1. MaxPolls \in 0..MaxPolls
      BY Assumed
    <3>2. QED
      BY <1>0, <3>1 DEF Request, Steps
  <2>3. req' = [req EXCEPT ![r] = x]
    BY <1>0, <1>4 DEF Types
  <2> HIDE DEF x
  <2>4. Only(r) /\ req'[r] = x
    BY <1>0, <2>2, <2>3 DEF Types, Only
  <2>5. RequestOK(r)'
    BY <1>0, <2>2, <2>4 DEF RequestOK, Connecting, Disconnecting, Knows, Completing
  <2>6. QED
    BY <1>0, <1>1, <1>4, <2>1, <2>2, <2>4, <2>5, Makes
<1>5. ASSUME NEW status \in {"FAILED", "AMBIGUOUS"}, Ends(r, status), faults' \in 0..MaxFaults,
             \/ UNCHANGED provider
             \/ Made(o, "there") \/ Made(o, "promised")
      PROVE  ProvInv'
  <2>1. Only(r) /\ req'[r].step = "marking" /\ req'[r].op = o /\ req'[r].status = status
    BY <1>0, <1>5, Ended DEF Statuses
  <2>2. RequestOK(r)'
    BY <1>0, <2>1 DEF RequestOK, Connecting, Disconnecting, Knows, Completing
  <2>3. CASE UNCHANGED provider
    BY <1>0, <1>5, <2>1, <2>2, <2>3, Quiet DEF Types, Maker
  <2>4. ASSUME NEW state \in {"promised", "there"}, Made(o, state) PROVE ProvInv'
    <3>1. PICK i \in Ids : /\ provider[i].state = Nothing
                                /\ provider' = [provider EXCEPT ![i] = [state |-> state, marker |-> o]]
      BY <1>2, <2>4
    <3>2. QED
      BY <1>0, <1>5, <2>1, <2>2, <3>1, Makes
  <2>5. QED
    BY <1>5, <2>3, <2>4
<1>6. CASE CreateAccount(r)
  BY <1>1, <1>3, <1>4, <1>5, <1>6 DEF CreateAccount
<1>7. CASE CreateFails(r)
  BY <1>1, <1>5, <1>7 DEF CreateFails
<1>8. QED
  BY <1>6, <1>7

-----------------------------------------------------------------------------
LEMMA InitProvInv == Init => ProvInv
<1> SUFFICES ASSUME Init PROVE ProvInv
  OBVIOUS
<1>1. /\ 0 \in 0..MaxProvided /\ 0 \in 0..MaxPolls /\ 0 \in 0..MaxFaults
      /\ AccountOf \in [Operations -> Accounts]
  BY Assumed
<1>2. /\ [exists |-> TRUE, bound |-> None] \in Account /\ NoOperation \in Operation
      /\ NotProvided \in Provided /\ Idle \in Request
  BY <1>1 DEF Account, None, NoOperation, Operation,
              NotProvided, Provided, Idle, Request, Steps, Statuses
<1>3. Types
  BY <1>1, <1>2 DEF Init, Types
<1>4. Markers
  BY DEF Init, Markers, NotProvided, NoOperation
<1>5. \A r \in Requests : RequestOK(r)
  BY DEF Init, RequestOK, Connecting, Disconnecting, Knows, Completing, Idle
<1>6. Unreserved
  BY Assumed DEF Init, Unreserved, NotProvided, Connecting, Idle
<1>7. Completed
  BY <1>1 DEF Init, Completed, NoOperation, Nothing
<1>8. OneMaker
  BY DEF Init, OneMaker, MadeFor, Maker, NotProvided, Idle, Nothing
<1>9. QED
  BY <1>3, <1>4, <1>5, <1>6, <1>7, <1>8 DEF ProvInv

LEMMA NextKeepsProvInv == ProvInv /\ [Next]_vars => ProvInv'
<1> SUFFICES ASSUME ProvInv, [Next]_vars PROVE ProvInv'
  OBVIOUS
<1>1. CASE UNCHANGED vars
  <2>1. UNCHANGED <<account, op, provider, secret, req, faults, hurried, released>>
    BY <1>1 DEF vars, history
  <2>2. QED
    BY <2>1 DEF ProvInv, Types, Markers, RequestOK, Unreserved, Completed, OneMaker, BoundBy,
                Connecting, Disconnecting, Knows, Completing, MadeFor, Maker
<1>2. CASE Next
  BY <1>2, QuietSteps, RecordingSteps, TakingSteps, ReserveStep, CreatingSteps DEF Next
<1>3. QED
  BY <1>1, <1>2

(* Whatever fails, is retried or dies on the way: the record of an          *)
(* operation, the provider's accounts and the bindings stay in step, and    *)
(* who is about to create is alone.                                         *)
THEOREM ProvisioningInvariant ==
  Spec => []ProvInv
BY InitProvInv, NextKeepsProvInv, PTL DEF Spec

(* An operation only ever records a provider account made for it, and an    *)
(* account is bound by one of its own (provisioning_operations).            *)
THEOREM ProvisioningTypes ==
  Spec => []TypeOK
<1>1. ProvInv => TypeOK
  BY DEF ProvInv, Types, Markers, TypeOK
<1>2. QED
  BY <1>1, ProvisioningInvariant, PTL

(* However often a connect is repeated, the provider holds at most one      *)
(* account for the operation, unless a request looked for one, found none   *)
(* and went on while one was still being made, by another request or by the *)
(* provider, with or without a request alive (provision, reconcile).        *)
THEOREM OneAccountHolds ==
  Spec => []OneAccountPerMarker
<1>1. ProvInv => OneAccountPerMarker
  <2> SUFFICES ASSUME ProvInv, NEW o \in Operations \ hurried
               PROVE  Cardinality(MadeFor(o)) <= 1
    BY DEF OneAccountPerMarker
  <2>1. \A i, j \in MadeFor(o) : i = j
    BY DEF ProvInv, OneMaker
  <2>2. CASE MadeFor(o) = {}
    BY <2>2, FS_EmptySet
  <2>3. CASE MadeFor(o) # {}
    <3>1. PICK i : MadeFor(o) = {i}
      BY <2>1, <2>3
    <3>2. Cardinality({i}) = 1
      BY FS_Singleton
    <3>3. QED
      BY <3>1, <3>2
  <2>4. QED
    BY <2>2, <2>3
<1>2. QED
  BY <1>1, ProvisioningInvariant, PTL

(* An operation that says COMPLETED is the one its account is bound by,     *)
(* unless the account was disconnected (completeBinding).                   *)
THEOREM CompletedHolds ==
  Spec => []CompletedIsBound
<1>1. ProvInv => CompletedIsBound
  BY DEF ProvInv, Completed, BoundBy, CompletedIsBound, Nothing
<1>2. QED
  BY <1>1, ProvisioningInvariant, PTL

(* Two trading accounts never share a provider account: the marker names    *)
(* the operation, and the operation its account (what the unique index on   *)
(* metaapi_account_id demands of bindMetaApiAccount).                       *)
THEOREM BindingsAreExclusive ==
  Spec => [](\A a, b \in Accounts :
               account[a].bound # None /\ account[a].bound = account[b].bound => a = b)
<1>1. ProvInv => \A a, b \in Accounts :
        account[a].bound # None /\ account[a].bound = account[b].bound => a = b
  <2> SUFFICES ASSUME ProvInv, NEW a \in Accounts, NEW b \in Accounts,
                      account[a].bound # None, account[a].bound = account[b].bound
               PROVE  a = b
    OBVIOUS
  <2>1. PICK o \in Operations : AccountOf[o] = a /\ provider[account[a].bound].marker = o
    BY DEF ProvInv, Markers
  <2>2. PICK q \in Operations : AccountOf[q] = b /\ provider[account[b].bound].marker = q
    BY DEF ProvInv, Markers
  <2>3. QED
    BY <2>1, <2>2
<1>2. QED
  BY <1>1, ProvisioningInvariant, PTL

(* A binding is never replaced by another: it is given up first             *)
(* (bindMetaApiAccount's compare-and-set).                                  *)
THEOREM BindingsAreKept ==
  Spec => BindingIsNeverReplaced
<1>1. ProvInv /\ [Next]_vars =>
           [\A a \in Accounts :
              account[a].bound # None =>
                account'[a].bound \in {None, account[a].bound}]_vars
  <2> SUFFICES ASSUME ProvInv, [Next]_vars, NEW a \in Accounts
               PROVE  account'[a].bound \in {None, account[a].bound}
                      \/ account[a].bound = None
    OBVIOUS
  <2>1. account \in [Accounts -> Account]
    BY DEF ProvInv, Types
  <2>2. \A r \in Requests : Binds(r) =>
        account'[a].bound = account[a].bound \/ account[a].bound = None
    BY <2>1 DEF Binds, Bindable, Account
  <2>3. account' = account => account'[a].bound = account[a].bound
    OBVIOUS
  <2>4. \A r \in Requests : Unbind(r) =>
        account'[a].bound \in {None, account[a].bound}
    BY <2>1 DEF Unbind, Account
  <2>5. \A b \in Accounts : DeleteAccount(b) =>
        account'[a].bound \in {None, account[a].bound}
    BY <2>1 DEF DeleteAccount, Account
  <2>6. QED
    BY <2>2, <2>3, <2>4, <2>5, ZenonT(40)
       DEF Next, vars, Connect, Disconnect, Reserve, LookUp,
           LookUpFails, Reveal, CreateAccount,
           CreateFails, Poll, PollFails, Accept,
           Bind, BindFails, Converge, MarkStatus,
           DeleteProvided, DeleteFails, Crash, TurnCredential, Settle
<1>2. QED
  BY <1>1, ProvisioningInvariant, PTL DEF Spec, BindingIsNeverReplaced

=============================================================================
