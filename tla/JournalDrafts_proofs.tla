------------------------- MODULE JournalDrafts_proofs -------------------------
(***************************************************************************)
(* Proofs about JournalDrafts, for every set of messages and runs.         *)
(***************************************************************************)
EXTENDS JournalDrafts, FiniteSetTheorems, TLAPS

ClaimSteps == {"creating trade", "reopening", "binding"}

(* What a run may rely on: while its draft is not adrift, the draft is      *)
(* CONFIRMING in its name, and has no trade before it makes one.            *)
RunOK(h) ==
  LET r == run[h]
      d == run[h].draft
  IN  /\ r.step # "idle" => d \in Messages
      /\ r.step \notin {"idle", "creating draft"} => Exists(d)
      /\ r.step = "releasing" => r.state \in OpenStates
      /\ r.step = "binding" => r.trade # NoTrade
      /\ r.step \in ClaimSteps /\ d \notin adrift => Claimed(d) /\ holder[d] = h
      /\ r.step \in {"creating trade", "reopening"} /\ d \notin adrift => TradesOf(d) = {}
      /\ r.step = "releasing" /\ Claimed(d) /\ holder[d] = h /\ d \notin adrift
           => TradesOf(d) = {}

(* The run a claim is in the name of is still at work on it.                *)
HolderOK(d) ==
  Claimed(d) /\ holder[d] \in Handlers =>
    /\ run[holder[d]].draft = d
    /\ run[holder[d]].step \in ClaimSteps \cup {"releasing"}

(* The inductive invariant.                                                 *)
IInv ==
  /\ TypeOK
  /\ OneTradeUnlessAdrift
  /\ UnsavedMeansNoTrade
  /\ \A h \in Handlers : RunOK(h)
  /\ \A d \in Messages : HolderOK(d)

Run == [step : Steps, draft : Messages \cup {NoMessage}, filled : SUBSET Fields,
        state : States, trade : Nat]

-----------------------------------------------------------------------------
LEMMA IdleIsRun == Idle \in Run /\ Idle.step = "idle"
BY DEF Idle, Run, Steps, States, OpenStates, NoTrade

LEMMA InitIInv == Init => IInv
<1> SUFFICES ASSUME Init PROVE IInv
  OBVIOUS
<1>1. TypeOK
  <2>1. NoRow \in Row
    BY DEF NoRow, Row, NoDraft, NoTrade
  <2>2. IsFiniteSet(trades)
    BY FS_EmptySet DEF Init
  <2>3. QED
    BY <2>1, <2>2, IdleIsRun DEF Init, TypeOK, Exists, NoRow, NoDraft, Run
<1>2. OneTradeUnlessAdrift /\ UnsavedMeansNoTrade
  BY DEF Init, OneTradeUnlessAdrift, UnsavedMeansNoTrade, AtMostOneTrade, TradesOf
<1>3. ASSUME NEW h \in Handlers PROVE RunOK(h)
  BY IdleIsRun DEF Init, RunOK, ClaimSteps
<1>4. ASSUME NEW d \in Messages PROVE HolderOK(d)
  BY NobodyIsNoHandler DEF Init, HolderOK, Nobody
<1>5. QED
  BY <1>1, <1>2, <1>3, <1>4 DEF IInv

(* The rows a step can write.                                               *)
LEMMA NewDraftIsRow ==
  ASSUME NEW m \in Messages
  PROVE  NewDraft(m) \in Row /\ NewDraft(m).trade = NoTrade /\ NewDraft(m).state \in OpenStates
<1>1. Cardinality({d \in Messages : Exists(d)}) \in Nat
  <2>1. IsFiniteSet({d \in Messages : Exists(d)})
    BY MessagesAreFinite, FS_Subset
  <2>2. QED
    BY <2>1, FS_CardinalityType
<1>2. Parsed[m] \in SUBSET Fields
  BY ParsedFillsFields DEF Fields
<1>3. QED
  BY <1>1, <1>2 DEF NewDraft, Row, OpenState, OpenStates, States, NoTrade

LEMMA UpdatedIsRow ==
  ASSUME NEW d \in Messages, draft[d] \in Row, NEW state \in States, NEW filled \in SUBSET Fields
  PROVE  /\ Updated(d, state, filled) \in Row
         /\ Updated(d, state, filled).state = state
         /\ Updated(d, state, filled).trade = draft[d].trade
BY DEF Updated, Row

(* A run whose draft a step leaves alone, in all it relies on.              *)
LEMMA RunPersists ==
  ASSUME IInv, NEW g \in Handlers, run'[g] = run[g],
         run[g].step # "idle" => \A d \in {run[g].draft} :
           /\ Exists(d) => Exists(d)'
           /\ d \notin adrift' => d \notin adrift
           /\ d \notin adrift' => TradesOf(d)' = TradesOf(d) /\ holder'[d] = holder[d]
           /\ d \notin adrift' /\ Claimed(d) => Claimed(d)'
           /\ d \notin adrift' /\ Claimed(d)' => Claimed(d)
  PROVE  RunOK(g)'
<1>1. RunOK(g)
  BY DEF IInv
<1>2. CASE run[g].step = "idle"
  BY <1>2 DEF RunOK, ClaimSteps
<1>3. CASE run[g].step # "idle"
  BY <1>1, <1>3 DEF RunOK, ClaimSteps
<1>4. QED
  BY <1>2, <1>3

(* A write that takes a draft without a trade out of the claim, to a saved  *)
(* or an unsaved state.                                                     *)
LEMMA PutKeepsIInv ==
  ASSUME IInv, NEW h \in Handlers, NEW d \in Messages, run[h].draft = d, Exists(d),
         draft[d].trade = NoTrade,
         NEW row \in Row, row.state \notin {"CONFIRMING", NoDraft},
         row.state = "CONFIRMED" <=> row.trade # NoTrade,
         draft' = [draft EXCEPT ![d] = row], NoteOverrun(h, d),
         NEW r \in Run, run' = [run EXCEPT ![h] = r],
         \/ r.step = "idle"
         \/ r.step = "releasing" /\ r.draft = d /\ r.state \in OpenStates,
         row.state # "CONFIRMED" /\ Claimed(d) /\ holder[d] = h /\ d \notin adrift => TradesOf(d) = {},
         UNCHANGED <<trades, crashes, holder>>
  PROVE  IInv'
<1>1. /\ draft'[d] = row /\ \A e \in Messages \ {d} : draft'[e] = draft[e]
      /\ ~Claimed(d)' /\ Exists(d)' /\ adrift \subseteq adrift' /\ adrift' \subseteq adrift \cup {d}
      /\ d \notin adrift' => ~Claimed(d) \/ holder[d] = h
      /\ run'[h] = r /\ \A g \in Handlers \ {h} : run'[g] = run[g]
  BY DEF IInv, TypeOK, NoteOverrun, Overruns, Claimed, Exists
<1>2. \A e \in Messages : TradesOf(e)' = TradesOf(e)
  BY DEF TradesOf
<1>3. TypeOK'
  <2>1. draft' \in [Messages -> Row] /\ run' \in [Handlers -> Run] /\ adrift' \subseteq Messages
    BY <1>1 DEF IInv, TypeOK, Run
  <2>2. ASSUME NEW e \in Messages, Exists(e)'
        PROVE  (draft'[e].state = "CONFIRMED" <=> draft'[e].trade # NoTrade)
    BY <1>1, <2>2 DEF IInv, TypeOK, Exists, OpenStates
  <2>3. QED
    BY <2>1, <2>2 DEF IInv, TypeOK, Run
<1>4. OneTradeUnlessAdrift'
  BY <1>1, <1>2 DEF IInv, OneTradeUnlessAdrift, AtMostOneTrade
<1>5. UnsavedMeansNoTrade'
  <2>1. row.state # "CONFIRMED" /\ d \notin adrift' => TradesOf(d) = {}
    BY <1>1 DEF IInv, UnsavedMeansNoTrade, Claimed, TypeOK, Exists
  <2>2. QED
    BY <1>1, <1>2, <2>1 DEF IInv, UnsavedMeansNoTrade
<1>6. ASSUME NEW g \in Handlers PROVE RunOK(g)'
  <2>1. CASE g = h
    BY <1>1, <2>1 DEF RunOK, ClaimSteps
  <2>2. CASE g # h
    <3>1. CASE run[g].step = "idle"
      BY <1>1, <2>2, <3>1 DEF RunOK, ClaimSteps
    <3>2. CASE run[g].step # "idle" /\ run[g].draft = d
      <4>1. RunOK(g) /\ run'[g] = run[g]
        BY <1>1, <2>2 DEF IInv
      <4>2. run[g].step \in ClaimSteps => d \in adrift'
        BY <1>1, <2>2, <3>2, <4>1 DEF RunOK
      <4>3. run'[g].draft = d /\ run'[g].step = run[g].step
        BY <3>2, <4>1
      <4>4. QED
        BY <1>1, <3>2, <4>1, <4>2, <4>3 DEF RunOK, ClaimSteps
    <3>3. CASE run[g].step # "idle" /\ run[g].draft # d
      <4>1. run[g].draft \in Messages /\ RunOK(g)
        BY <3>3 DEF IInv, RunOK
      <4>2. QED
        BY <1>1, <1>2, <2>2, <3>3, <4>1, RunPersists DEF Exists, Claimed
    <3>4. QED
      BY <3>1, <3>2, <3>3
  <2>3. QED
    BY <2>1, <2>2
<1>7. ASSUME NEW e \in Messages PROVE HolderOK(e)'
  <2>1. CASE e = d
    BY <1>1, <2>1 DEF HolderOK
  <2>2. CASE e # d
    <3>1. holder[e] # h \/ ~Claimed(e)
      BY <2>2 DEF IInv, HolderOK
    <3>2. QED
      BY <1>1, <2>2, <3>1 DEF IInv, HolderOK, Claimed, Exists
  <2>3. QED
    BY <2>1, <2>2
<1>8. QED
  BY <1>3, <1>4, <1>5, <1>6, <1>7 DEF IInv

(* A write that takes a draft without a trade to a state outside the claim. *)
LEMMA WriteKeepsIInv ==
  ASSUME IInv, NEW h \in Handlers, NEW d \in Messages, run[h].draft = d, Exists(d),
         draft[d].trade = NoTrade,
         NEW row \in Row, row.trade = NoTrade,
         row.state \in OpenStates \cup {"CANCELLED", "EXPIRED"},
         draft' = [draft EXCEPT ![d] = row], NoteOverrun(h, d),
         NEW r \in Run, run' = [run EXCEPT ![h] = r],
         \/ r.step = "idle"
         \/ r.step = "releasing" /\ r.draft = d /\ r.state \in OpenStates,
         Claimed(d) /\ holder[d] = h /\ d \notin adrift => TradesOf(d) = {},
         UNCHANGED <<trades, crashes, holder>>
  PROVE  IInv'
<1>1. row.state \notin {"CONFIRMING", NoDraft, "CONFIRMED"}
  BY DEF OpenStates, NoDraft
<1>2. QED
  BY <1>1, PutKeepsIInv

(* updateDraft, by a run that holds no claim or is giving its own back.     *)
LEMMA UpdateKeepsIInv ==
  ASSUME IInv, NEW h \in Handlers, NEW d \in Messages, run[h].draft = d, Exists(d),
         NEW state \in OpenStates \cup {"CANCELLED", "EXPIRED"}, NEW filled \in SUBSET Fields,
         UpdateDraft(h, d, state, filled), ~Refused(d),
         NEW r \in Run, run' = [run EXCEPT ![h] = r],
         \/ r.step = "idle"
         \/ r.step = "releasing" /\ r.draft = d /\ r.state \in OpenStates,
         Claimed(d) /\ holder[d] = h /\ d \notin adrift => TradesOf(d) = {},
         UNCHANGED <<trades, crashes, holder>>
  PROVE  IInv'
<1>1. draft[d] \in Row /\ state \in States
  BY DEF IInv, TypeOK, States
<1>2. /\ Updated(d, state, filled) \in Row
      /\ Updated(d, state, filled).state = state
      /\ Updated(d, state, filled).trade = NoTrade
  BY <1>1, UpdatedIsRow DEF Refused
<1>3. draft' = [draft EXCEPT ![d] = Updated(d, state, filled)] /\ NoteOverrun(h, d)
  BY DEF UpdateDraft
<1>4. QED
  BY <1>2, <1>3, WriteKeepsIInv DEF Refused

(* A claim a step leaves alone, and its run.                                *)
LEMMA HolderPersists ==
  ASSUME IInv, NEW d \in Messages,
         Claimed(d)' => /\ Claimed(d) /\ holder'[d] = holder[d]
                        /\ holder[d] \in Handlers => run'[holder[d]] = run[holder[d]]
  PROVE  HolderOK(d)'
<1>1. HolderOK(d)
  BY DEF IInv
<1>2. QED
  BY <1>1 DEF HolderOK

(* A step that changes nothing but the run that takes it.                   *)
LEMMA LocalKeepsIInv ==
  ASSUME IInv, NEW h \in Handlers, NEW r \in Run, run' = [run EXCEPT ![h] = r],
         UNCHANGED <<draft, trades, holder, adrift>>, crashes' \in Nat,
         RunOK(h)',
         \A d \in Messages : Claimed(d) /\ holder[d] = h =>
           r.draft = d /\ r.step \in ClaimSteps \cup {"releasing"}
  PROVE  IInv'
<1>1. run'[h] = r /\ \A g \in Handlers \ {h} : run'[g] = run[g]
  BY DEF IInv, TypeOK
<1>2. TypeOK'
  <2>1. run' \in [Handlers -> Run]
    BY DEF IInv, TypeOK, Run
  <2>2. QED
    BY <2>1 DEF IInv, TypeOK, Run, Exists
<1>3. OneTradeUnlessAdrift' /\ UnsavedMeansNoTrade'
  BY DEF IInv, OneTradeUnlessAdrift, UnsavedMeansNoTrade, AtMostOneTrade, TradesOf
<1>4. ASSUME NEW g \in Handlers PROVE RunOK(g)'
  <2>1. CASE g # h
    BY <1>1, <2>1, RunPersists DEF Exists, TradesOf, Claimed
  <2>2. QED
    BY <2>1
<1>5. ASSUME NEW d \in Messages PROVE HolderOK(d)'
  BY <1>1 DEF IInv, HolderOK, Claimed, Exists
<1>6. QED
  BY <1>2, <1>3, <1>4, <1>5 DEF IInv

(* A run outside the claim holds none.                                      *)
LEMMA NotHolding ==
  ASSUME IInv, NEW h \in Handlers, NEW d \in Messages,
         run[h].step \notin ClaimSteps \cup {"releasing"}
  PROVE  ~(Claimed(d) /\ holder[d] = h)
BY DEF IInv, HolderOK

(* Steps that a run outside the claim takes without writing.                *)
LEMMA ReadKeepsIInv ==
  ASSUME IInv, NEW h \in Handlers, run[h].step \notin ClaimSteps \cup {"releasing"},
         NEW r \in Run, run' = [run EXCEPT ![h] = r],
         r.step \notin ClaimSteps \cup {"releasing"},
         r.step # "idle" => r.draft \in Messages,
         r.step \notin {"idle", "creating draft"} => Exists(r.draft),
         UNCHANGED <<draft, trades, crashes, holder, adrift>>
  PROVE  IInv'
<1>1. run'[h] = r
  BY DEF IInv, TypeOK
<1>2. RunOK(h)'
  BY <1>1 DEF RunOK, ClaimSteps, Exists
<1>3. \A d \in Messages : ~(Claimed(d) /\ holder[d] = h)
  BY NotHolding
<1>4. crashes' \in Nat
  BY DEF IInv, TypeOK
<1>5. QED
  BY <1>2, <1>3, <1>4, LocalKeepsIInv

(* Run h goes on as r.                                                      *)
GoesOn(h, r) == run' = [run EXCEPT ![h] = r]

(* The records the steps give a run.                                        *)
LEMMA StartRecord ==
  ASSUME NEW h \in Handlers, NEW d \in Messages, NEW step \in Steps, Start(h, step, d)
  PROVE  \E r \in Run : GoesOn(h, r) /\ r.step = step /\ r.draft = d
<1> DEFINE r == [Idle EXCEPT !.step = step, !.draft = d]
<1>1. r \in Run /\ r.step = step /\ r.draft = d
  BY IdleIsRun DEF Run, Idle, States, OpenStates, NoTrade
<1>2. GoesOn(h, r)
  BY DEF Start, GoesOn
<1> HIDE DEF r
<1>3. QED
  BY <1>1, <1>2

LEMMA GotoRecord ==
  ASSUME IInv, NEW h \in Handlers, NEW step \in Steps, Goto(h, step)
  PROVE  \E r \in Run : GoesOn(h, r) /\ r.step = step /\ r.draft = run[h].draft
<1> DEFINE r == [run[h] EXCEPT !.step = step]
<1>1. run[h] \in Run
  BY DEF IInv, TypeOK, Run
<1>2. r \in Run /\ r.step = step /\ r.draft = run[h].draft
  BY <1>1 DEF Run
<1>3. GoesOn(h, r)
  BY DEF Goto, GoesOn
<1> HIDE DEF r
<1>4. QED
  BY <1>2, <1>3

LEMMA BecomeRecord ==
  ASSUME IInv, NEW h \in Handlers, NEW step \in Steps, NEW filled \in SUBSET Fields,
         Become(h, step, filled)
  PROVE  \E r \in Run : GoesOn(h, r) /\ r.step = step /\ r.draft = run[h].draft
<1> DEFINE r == [run[h] EXCEPT !.step = step, !.filled = filled]
<1>1. run[h] \in Run
  BY DEF IInv, TypeOK, Run
<1>2. r \in Run /\ r.step = step /\ r.draft = run[h].draft
  BY <1>1 DEF Run
<1>3. GoesOn(h, r)
  BY DEF Become, GoesOn
<1> HIDE DEF r
<1>4. QED
  BY <1>2, <1>3

LEMMA ReleasingRecord ==
  ASSUME IInv, NEW h \in Handlers, NEW state \in OpenStates, Releasing(h, state)
  PROVE  \E r \in Run : /\ GoesOn(h, r)
                        /\ r.step = "releasing" /\ r.draft = run[h].draft /\ r.state = state
<1> DEFINE r == [run[h] EXCEPT !.step = "releasing", !.state = state]
<1>1. run[h] \in Run
  BY DEF IInv, TypeOK, Run
<1>2. r \in Run /\ r.step = "releasing" /\ r.draft = run[h].draft /\ r.state = state
  BY <1>1 DEF Run, Steps, States
<1>3. GoesOn(h, r)
  BY DEF Releasing, GoesOn
<1> HIDE DEF r
<1>4. QED
  BY <1>2, <1>3

-----------------------------------------------------------------------------
LEMMA PressKeepsIInv ==
  ASSUME IInv, NEW h \in Handlers, NEW d \in Messages, ReplyTo(h, d) \/ PressConfirm(h, d) \/ PressCancel(h, d)
  PROVE  IInv'
<1>1. PICK step \in {"reading answer", "reading confirm", "reading cancel"} :
         /\ At(h, "idle") /\ Exists(d) /\ Start(h, step, d)
         /\ UNCHANGED <<draft, trades, crashes, holder, adrift>>
  BY DEF ReplyTo, FindOpenDraft, Open, PressConfirm, PressCancel, Press
<1>2. step \in Steps
  BY DEF Steps
<1>3. PICK r \in Run : GoesOn(h, r) /\ r.step = step /\ r.draft = d
  BY <1>1, <1>2, StartRecord, ZenonT(40)
<1>4. run[h].step \notin ClaimSteps \cup {"releasing"} /\ r.step \notin ClaimSteps \cup {"releasing"}
  BY <1>1, <1>3 DEF At, ClaimSteps
<1>5. Exists(r.draft) /\ r.draft \in Messages
  BY <1>1, <1>3
<1>6. /\ r \in Run /\ run' = [run EXCEPT ![h] = r]
      /\ r.step # "idle" => r.draft \in Messages
      /\ r.step \notin {"idle", "creating draft"} => Exists(r.draft)
      /\ UNCHANGED <<draft, trades, crashes, holder, adrift>>
  BY <1>1, <1>3, <1>5 DEF GoesOn
<1>7. QED
  BY <1>4, <1>6, ReadKeepsIInv

(* expireStale touches open drafts only, so no claim and no trade.          *)
LEMMA OpenDraftKeepsIInv ==
  ASSUME IInv, NEW h \in Handlers, NEW m \in Messages, OpenDraft(h, m)
  PROVE  IInv'
<1>1. PICK r \in Run : GoesOn(h, r) /\ r.step = "creating draft" /\ r.draft = m
  <2>1. Start(h, "creating draft", m) /\ "creating draft" \in Steps
    BY DEF OpenDraft, Steps
  <2>2. QED
    BY <2>1, StartRecord, ZenonT(40)
<1>2. run' = [run EXCEPT ![h] = r] /\ UNCHANGED <<trades, crashes, holder, adrift>>
  BY <1>1 DEF OpenDraft, GoesOn
<1>3. ASSUME NEW d \in Messages
      PROVE  /\ draft'[d] \in Row
             /\ Exists(d)' = Exists(d) /\ Claimed(d)' = Claimed(d)
             /\ draft'[d].trade = draft[d].trade
             /\ draft'[d].state = "CONFIRMED" <=> draft[d].state = "CONFIRMED"
  <2>1. draft'[d] = Swept(draft[d]) /\ draft[d] \in Row
    BY DEF OpenDraft, IInv, TypeOK
  <2>2. CASE Expires(draft[d])
    BY <2>1, <2>2 DEF Swept, Expires, Row, States, OpenStates, Exists, Claimed, NoDraft
  <2>3. CASE ~Expires(draft[d])
    BY <2>1, <2>3 DEF Swept, Exists, Claimed
  <2>4. QED
    BY <2>2, <2>3
<1>4. draft' \in [Messages -> Row]
  BY <1>3 DEF OpenDraft
<1>5. run'[h] = r /\ \A g \in Handlers \ {h} : run'[g] = run[g]
  BY <1>2 DEF IInv, TypeOK
<1>6. TypeOK'
  <2>1. run' \in [Handlers -> Run]
    BY <1>1, <1>2 DEF IInv, TypeOK, Run
  <2>2. QED
    BY <1>2, <1>3, <1>4, <2>1 DEF IInv, TypeOK, Run
<1>7. OneTradeUnlessAdrift'
  BY <1>2 DEF IInv, OneTradeUnlessAdrift, AtMostOneTrade, TradesOf
<1>8. UnsavedMeansNoTrade'
  <2>1. ASSUME NEW d \in Messages \ adrift, TradesOf(d) # {}
        PROVE  draft'[d].state \in {"CONFIRMING", "CONFIRMED"}
    <3>1. draft[d].state \in {"CONFIRMING", "CONFIRMED"}
      BY <2>1 DEF IInv, UnsavedMeansNoTrade
    <3>2. QED
      BY <1>3, <3>1 DEF Claimed, Exists, NoDraft
  <2>2. QED
    BY <1>2, <2>1 DEF UnsavedMeansNoTrade, TradesOf
<1>9. ASSUME NEW g \in Handlers PROVE RunOK(g)'
  <2>1. CASE g = h
    BY <1>1, <1>5, <2>1 DEF RunOK, ClaimSteps
  <2>2. CASE g # h
    <3>1. run[g].step # "idle" => run[g].draft \in Messages
      BY DEF IInv, RunOK
    <3>2. QED
      BY <1>2, <1>3, <1>5, <2>2, <3>1, RunPersists DEF TradesOf
  <2>3. QED
    BY <2>1, <2>2
<1>10. ASSUME NEW d \in Messages PROVE HolderOK(d)'
  <2>1. ~(Claimed(d) /\ holder[d] = h)
    BY NotHolding DEF OpenDraft, At, ClaimSteps
  <2>2. Claimed(d)' => Claimed(d) /\ holder'[d] = holder[d]
    BY <1>2, <1>3
  <2>3. QED
    BY <1>5, <2>1, <2>2, HolderPersists
<1>11. QED
  BY <1>6, <1>7, <1>8, <1>9, <1>10 DEF IInv

LEMMA CreateDraftKeepsIInv ==
  ASSUME IInv, NEW h \in Handlers, CreateDraft(h)
  PROVE  IInv'
<1> DEFINE m == run[h].draft
<1>1. /\ m \in Messages /\ run' = [run EXCEPT ![h] = Idle]
      /\ draft' = [draft EXCEPT ![m] = Inserted(m)]
      /\ UNCHANGED <<trades, crashes, holder, adrift>>
      /\ run[h].step = "creating draft"
  BY DEF CreateDraft, Stop, At, IInv, RunOK
<1>2. CASE Exists(m)
  <2>1. draft' = draft
    BY <1>1, <1>2 DEF Inserted, IInv, TypeOK
  <2>2. QED
    BY <1>1, <2>1, IdleIsRun, ReadKeepsIInv DEF ClaimSteps
<1>3. CASE ~Exists(m)
  <2>1. ~Claimed(m) /\ draft[m].state = NoDraft
    BY <1>3 DEF Claimed, Exists
  <2>2. /\ draft'[m] = NewDraft(m) /\ \A d \in Messages \ {m} : draft'[d] = draft[d]
        /\ NewDraft(m) \in Row /\ NewDraft(m).trade = NoTrade /\ NewDraft(m).state \in OpenStates
    BY <1>1, <1>3, NewDraftIsRow DEF Inserted, IInv, TypeOK
  <2>3. run'[h] = Idle /\ \A g \in Handlers \ {h} : run'[g] = run[g]
    BY <1>1 DEF IInv, TypeOK
  <2>4. TypeOK'
    <3>1. draft' \in [Messages -> Row] /\ run' \in [Handlers -> Run]
      BY <1>1, <1>3, <2>2, IdleIsRun DEF Inserted, IInv, TypeOK, Run
    <3>2. ASSUME NEW d \in Messages, Exists(d)'
          PROVE  draft'[d].state = "CONFIRMED" <=> draft'[d].trade # NoTrade
      BY <2>2, <3>2 DEF IInv, TypeOK, Exists, OpenStates
    <3>3. QED
      BY <1>1, <3>1, <3>2 DEF IInv, TypeOK, Run
  <2>5. OneTradeUnlessAdrift'
    BY <1>1 DEF IInv, OneTradeUnlessAdrift, AtMostOneTrade, TradesOf
  <2>6. UnsavedMeansNoTrade'
    <3>1. m \notin adrift => TradesOf(m) = {}
      BY <1>1, <2>1 DEF IInv, UnsavedMeansNoTrade, NoDraft
    <3>2. QED
      BY <1>1, <2>2, <3>1, ZenonT(40) DEF IInv, UnsavedMeansNoTrade, TradesOf
  <2>7. ASSUME NEW g \in Handlers PROVE RunOK(g)'
    <3>1. CASE g = h
      BY <2>3, <3>1, IdleIsRun DEF RunOK, ClaimSteps
    <3>2. CASE g # h /\ run[g].step # "idle" /\ run[g].draft = m
      <4>1. RunOK(g) /\ run'[g] = run[g]
        BY <2>3, <3>2 DEF IInv
      <4>2. run[g].step = "creating draft"
        BY <1>3, <3>2, <4>1 DEF RunOK
      <4>3. QED
        BY <1>1, <4>1, <4>2, <3>2 DEF RunOK, ClaimSteps
    <3>3. CASE g # h /\ ~(run[g].step # "idle" /\ run[g].draft = m)
      <4>1. run[g].step # "idle" => run[g].draft \in Messages \ {m}
        BY <3>3 DEF IInv, RunOK
      <4>2. QED
        BY <1>1, <2>2, <2>3, <3>3, <4>1, RunPersists, ZenonT(40) DEF TradesOf, Exists, Claimed
    <3>4. QED
      BY <3>1, <3>2, <3>3
  <2>8. ASSUME NEW d \in Messages PROVE HolderOK(d)'
    <3>1. ~(Claimed(d) /\ holder[d] = h)
      BY <1>1, NotHolding DEF ClaimSteps
    <3>2. Claimed(d)' => d # m /\ Claimed(d)
      BY <2>2 DEF Claimed, Exists, OpenStates
    <3>3. QED
      BY <1>1, <2>3, <3>1, <3>2, HolderPersists
  <2>9. QED
    BY <2>4, <2>5, <2>6, <2>7, <2>8 DEF IInv
<1>4. QED
  BY <1>2, <1>3

(* The steps that only read: requireOwnedDraft and what follows it.         *)
LEMMA ReadsKeepIInv ==
  ASSUME IInv, NEW h \in Handlers,
         FindsExpired(h) \/ ReadForAnswer(h) \/ ReadForConfirm(h) \/ ReadForCancel(h)
  PROVE  IInv'
<1> DEFINE d == run[h].draft
<1>1. /\ run[h].step \in {"reading answer", "reading confirm", "reading cancel"}
      /\ UNCHANGED <<draft, trades, crashes, holder, adrift>>
  BY DEF FindsExpired, ReadForAnswer, ReadForConfirm, ReadForCancel, At
<1>2. d \in Messages /\ Exists(d) /\ draft[d].filled \in SUBSET Fields
  BY <1>1 DEF IInv, RunOK, TypeOK, Row
<1>3. draft[d].filled \cup NextField(draft[d].filled) \in SUBSET Fields
  BY <1>2 DEF NextField, Missing
<1>4. PICK r \in Run :
         /\ GoesOn(h, r)
         /\ r.step \in {"idle", "expiring", "writing answer", "claiming", "cancelling"}
         /\ r.step # "idle" => r.draft = d
  <2>1. CASE FindsExpired(h)
    <3>1. Goto(h, "expiring") /\ "expiring" \in Steps
      BY <2>1 DEF FindsExpired, Steps
    <3>2. \E r \in Run : GoesOn(h, r) /\ r.step = "expiring" /\ r.draft = d
      BY <3>1, GotoRecord
    <3>3. QED
      BY <3>2
  <2>2. CASE Stop(h)
    BY <2>2, IdleIsRun DEF Stop, GoesOn
  <2>3. CASE ReadForAnswer(h) /\ ~Stop(h)
    <3>1. /\ Become(h, "writing answer", draft[d].filled \cup NextField(draft[d].filled))
          /\ "writing answer" \in Steps
      BY <2>3 DEF ReadForAnswer, Steps
    <3>2. \E r \in Run : GoesOn(h, r) /\ r.step = "writing answer" /\ r.draft = d
      BY <1>3, <3>1, BecomeRecord
    <3>3. QED
      BY <3>2
  <2>4. CASE ReadForConfirm(h) /\ ~Stop(h)
    <3>1. Become(h, "claiming", draft[d].filled) /\ "claiming" \in Steps
      BY <2>4 DEF ReadForConfirm, Steps
    <3>2. \E r \in Run : GoesOn(h, r) /\ r.step = "claiming" /\ r.draft = d
      BY <1>2, <3>1, BecomeRecord
    <3>3. QED
      BY <3>2
  <2>5. CASE ReadForCancel(h) /\ ~Stop(h)
    <3>1. Goto(h, "cancelling") /\ "cancelling" \in Steps
      BY <2>5 DEF ReadForCancel, Steps
    <3>2. \E r \in Run : GoesOn(h, r) /\ r.step = "cancelling" /\ r.draft = d
      BY <3>1, GotoRecord
    <3>3. QED
      BY <3>2
  <2>6. QED
    BY <2>1, <2>2, <2>3, <2>4, <2>5
<1>5. r.step # "idle" => r.draft \in Messages /\ Exists(r.draft)
  <2>1. r.step # "idle" => r.draft = d
    BY <1>4
  <2>2. QED
    BY <1>2, <2>1
<1>6. run[h].step \notin ClaimSteps \cup {"releasing"}
  <2>1. run[h].step \in {"reading answer", "reading confirm", "reading cancel"}
    BY <1>1
  <2>2. QED
    BY <2>1 DEF ClaimSteps
<1>7. r.step \notin ClaimSteps \cup {"releasing"}
  <2>1. r.step \in {"idle", "expiring", "writing answer", "claiming", "cancelling"}
    BY <1>4
  <2>2. QED
    BY <2>1 DEF ClaimSteps
<1>8. run' = [run EXCEPT ![h] = r] /\ UNCHANGED <<draft, trades, crashes, holder, adrift>>
  BY <1>1, <1>4 DEF GoesOn
<1>9. QED
  BY <1>5, <1>6, <1>7, <1>8, ReadKeepsIInv

(* The unconditional updates: answer, expiry and cancellation.  Nobody who  *)
(* takes these steps holds a claim.                                         *)
LEMMA WritesKeepIInv ==
  ASSUME IInv, NEW h \in Handlers, WriteAnswer(h) \/ Expire(h) \/ CancelDraft(h)
  PROVE  IInv'
<1> DEFINE d == run[h].draft
<1>1. /\ run[h].step \in {"writing answer", "expiring", "cancelling"} /\ Stop(h)
      /\ UNCHANGED <<trades, crashes, holder>>
  BY DEF WriteAnswer, Expire, CancelDraft, At
<1>2. /\ d \in Messages /\ Exists(d) /\ run[h].filled \in SUBSET Fields
      /\ draft[d].filled \in SUBSET Fields
  BY <1>1 DEF IInv, RunOK, TypeOK, Row
<1>3. run' = [run EXCEPT ![h] = Idle]
  BY <1>1 DEF Stop
<1>4. run[h].step \notin ClaimSteps \cup {"releasing"}
  BY <1>1 DEF ClaimSteps
<1>5. ~(Claimed(d) /\ holder[d] = h)
  BY <1>2, <1>4, NotHolding
<1>6. PICK state \in OpenStates \cup {"CANCELLED", "EXPIRED"}, filled \in SUBSET Fields :
         UpdateDraft(h, d, state, filled)
  BY <1>2 DEF WriteAnswer, Expire, CancelDraft, OpenState, OpenStates
<1>7. CASE Refused(d)
  <2>1. UNCHANGED <<draft, adrift>>
    BY <1>6, <1>7 DEF UpdateDraft
  <2>2. QED
    BY <1>1, <1>3, <1>4, <2>1, IdleIsRun, ReadKeepsIInv DEF ClaimSteps
<1>8. CASE ~Refused(d)
  BY <1>1, <1>2, <1>3, <1>5, <1>6, <1>8, IdleIsRun, UpdateKeepsIInv
<1>9. QED
  BY <1>7, <1>8

(* A refused confirmation gives its own claim back.                         *)
LEMMA ReopenKeepsIInv ==
  ASSUME IInv, NEW h \in Handlers, Reopen(h)
  PROVE  IInv'
<1> DEFINE d == run[h].draft
<1>1. /\ run[h].step = "reopening" /\ UpdateDraft(h, d, "NEEDS_DETAIL", run[h].filled)
      /\ UNCHANGED <<trades, crashes, holder>>
      /\ IF Refused(d) THEN Stop(h) ELSE Releasing(h, "NEEDS_DETAIL")
  BY DEF Reopen, At
<1>2. d \in Messages /\ Exists(d) /\ run[h].filled \in SUBSET Fields
  BY <1>1 DEF IInv, RunOK, TypeOK
<1>3. d \notin adrift => TradesOf(d) = {}
  BY <1>1 DEF IInv, RunOK
<1>4. CASE Refused(d)
  <2>1. run' = [run EXCEPT ![h] = Idle] /\ UNCHANGED <<draft, adrift>>
    BY <1>1, <1>4 DEF Stop, UpdateDraft
  <2>2. RunOK(h)'
    BY <2>1, IdleIsRun DEF RunOK, ClaimSteps, IInv, TypeOK
  <2>3. ASSUME NEW e \in Messages PROVE ~(Claimed(e) /\ holder[e] = h)
    <3>1. draft[d].state = "CONFIRMED"
      BY <1>2, <1>4 DEF IInv, TypeOK, Refused
    <3>2. QED
      BY <3>1 DEF IInv, HolderOK, Claimed
  <2>4. QED
    BY <1>1, <2>1, <2>2, <2>3, IdleIsRun, LocalKeepsIInv DEF IInv, TypeOK
<1>5. CASE ~Refused(d)
  <2>1. PICK r \in Run : GoesOn(h, r) /\ r.step = "releasing" /\ r.draft = d /\ r.state = "NEEDS_DETAIL"
    <3>1. Releasing(h, "NEEDS_DETAIL") /\ "NEEDS_DETAIL" \in OpenStates
      BY <1>1, <1>5 DEF OpenStates
    <3>2. QED
      BY <3>1, ReleasingRecord
  <2>2. /\ "NEEDS_DETAIL" \in OpenStates \cup {"CANCELLED", "EXPIRED"}
        /\ r.step = "releasing" /\ r.draft = d /\ r.state \in OpenStates
        /\ run' = [run EXCEPT ![h] = r]
    BY <2>1 DEF OpenStates, GoesOn
  <2>3. QED
    BY <1>1, <1>2, <1>3, <1>5, <2>2, UpdateKeepsIInv
<1>6. QED
  BY <1>4, <1>5

LEMMA ReleaseKeepsIInv ==
  ASSUME IInv, NEW h \in Handlers, ReleaseClaim(h)
  PROVE  IInv'
<1> DEFINE d == run[h].draft
           row == [draft[d] EXCEPT !.state = run[h].state]
<1>1. /\ run[h].step = "releasing" /\ run' = [run EXCEPT ![h] = Idle]
      /\ UNCHANGED <<trades, crashes, holder>>
  BY DEF ReleaseClaim, At, Stop
<1>2. d \in Messages /\ Exists(d) /\ run[h].state \in OpenStates /\ draft[d] \in Row
  BY <1>1 DEF IInv, RunOK, TypeOK
<1>3. CASE Claimed(d)
  <2>1. draft' = [draft EXCEPT ![d] = row] /\ NoteOverrun(h, d)
    BY <1>3 DEF ReleaseClaim, Claimed
  <2>2. draft[d].trade = NoTrade
    BY <1>2, <1>3 DEF IInv, TypeOK, Claimed
  <2>3. row \in Row /\ row.trade = NoTrade /\ row.state \in OpenStates \cup {"CANCELLED", "EXPIRED"}
    BY <1>2, <2>2 DEF Row, States
  <2>4. Claimed(d) /\ holder[d] = h /\ d \notin adrift => TradesOf(d) = {}
    BY <1>1 DEF IInv, RunOK
  <2> HIDE DEF row
  <2>5. QED
    BY <1>1, <1>2, <2>1, <2>2, <2>3, <2>4, IdleIsRun, WriteKeepsIInv
<1>4. CASE ~Claimed(d)
  <2>1. UNCHANGED <<draft, adrift>>
    BY <1>2, <1>4 DEF ReleaseClaim, Claimed
  <2>2. RunOK(h)'
    BY <1>1, IdleIsRun DEF RunOK, ClaimSteps, IInv, TypeOK
  <2>3. ASSUME NEW e \in Messages PROVE ~(Claimed(e) /\ holder[e] = h)
    BY <1>4 DEF IInv, HolderOK
  <2>4. QED
    BY <1>1, <2>1, <2>2, <2>3, IdleIsRun, LocalKeepsIInv DEF IInv, TypeOK
<1>5. QED
  BY <1>3, <1>4

(* The claim takes an open draft, so one without a trade.                   *)
LEMMA ClaimKeepsIInv ==
  ASSUME IInv, NEW h \in Handlers, ClaimDraft(h)
  PROVE  IInv'
<1>1. run[h].step = "claiming" /\ UNCHANGED <<trades, crashes, adrift>>
  BY DEF ClaimDraft, At
<1>2. PICK d \in Messages : run[h].draft = d /\ Exists(d) /\ draft[d] \in Row
  BY <1>1 DEF IInv, RunOK, TypeOK
<1> DEFINE row == [draft[d] EXCEPT !.state = "CONFIRMING"]
<1>3. CASE ~Claimable(d)
  <2>1. run' = [run EXCEPT ![h] = Idle] /\ UNCHANGED <<draft, holder>>
    BY <1>2, <1>3 DEF ClaimDraft, Stop
  <2>2. QED
    BY <1>1, <2>1, IdleIsRun, ReadKeepsIInv DEF ClaimSteps
<1>4. CASE Claimable(d)
  <2>1. /\ draft' = [draft EXCEPT ![d] = row] /\ holder' = [holder EXCEPT ![d] = h]
        /\ Goto(h, "creating trade") /\ "creating trade" \in Steps
    BY <1>2, <1>4 DEF ClaimDraft, Steps
  <2>2. PICK r \in Run : GoesOn(h, r) /\ r.step = "creating trade" /\ r.draft = d
    BY <1>2, <2>1, GotoRecord
  <2>3. row \in Row /\ row.state = "CONFIRMING" /\ row.trade = NoTrade
    <3>1. draft[d].trade = NoTrade
      BY <1>2, <1>4 DEF IInv, TypeOK, Claimable, OpenStates
    <3>2. QED
      BY <1>2, <3>1 DEF Row, States
  <2> HIDE DEF row
  <2>4. /\ draft'[d] = row /\ \A e \in Messages \ {d} : draft'[e] = draft[e]
        /\ holder'[d] = h /\ \A e \in Messages \ {d} : holder'[e] = holder[e]
        /\ run'[h] = r /\ \A g \in Handlers \ {h} : run'[g] = run[g]
    BY <1>2, <2>1, <2>2 DEF IInv, TypeOK, GoesOn
  <2>5. Claimed(d)' /\ Exists(d)' /\ ~Claimed(d)
    BY <1>2, <1>4, <2>3, <2>4 DEF Claimed, Exists, NoDraft, Claimable, OpenStates
  <2>6. \A e \in Messages : TradesOf(e)' = TradesOf(e)
    BY <1>1 DEF TradesOf
  <2>7. d \notin adrift => TradesOf(d) = {}
    BY <1>2, <1>4 DEF IInv, UnsavedMeansNoTrade, Claimable, OpenStates
  <2>8. TypeOK'
    <3>1. draft' \in [Messages -> Row] /\ run' \in [Handlers -> Run]
      BY <2>1, <2>2, <2>3 DEF IInv, TypeOK, GoesOn, Run
    <3>2. holder' \in [Messages -> Handlers \cup {Nobody}]
      BY <2>1 DEF IInv, TypeOK
    <3>3. ASSUME NEW e \in Messages, Exists(e)'
          PROVE  draft'[e].state = "CONFIRMED" <=> draft'[e].trade # NoTrade
      BY <2>3, <2>4, <3>3 DEF IInv, TypeOK, Exists
    <3>4. QED
      BY <1>1, <3>1, <3>2, <3>3 DEF IInv, TypeOK, Run
  <2>9. OneTradeUnlessAdrift' /\ UnsavedMeansNoTrade'
    BY <1>1, <2>3, <2>4, <2>6 DEF IInv, OneTradeUnlessAdrift, UnsavedMeansNoTrade, AtMostOneTrade
  <2>10. ASSUME NEW g \in Handlers PROVE RunOK(g)'
    <3>1. CASE g = h
      BY <1>1, <1>2, <2>2, <2>4, <2>5, <2>6, <2>7, <3>1 DEF RunOK, ClaimSteps
    <3>2. CASE g # h /\ run[g].step # "idle" /\ run[g].draft = d
      <4>1. RunOK(g) /\ run'[g] = run[g]
        BY <2>4, <3>2 DEF IInv
      <4>2. run[g].step \in ClaimSteps => d \in adrift
        BY <2>5, <3>2, <4>1 DEF RunOK
      <4>3. run'[g].draft = d /\ run'[g].step = run[g].step /\ adrift' = adrift
        BY <1>1, <3>2, <4>1
      <4>4. run[g].step = "releasing" /\ holder'[d] = g => FALSE
        BY <2>4, <3>2
      <4>5. QED
        BY <2>5, <3>2, <4>1, <4>2, <4>3, <4>4 DEF RunOK, ClaimSteps
    <3>3. CASE g # h /\ ~(run[g].step # "idle" /\ run[g].draft = d)
      <4>1. run[g].step # "idle" => run[g].draft \in Messages \ {d}
        BY <3>3 DEF IInv, RunOK
      <4>2. QED
        BY <1>1, <2>4, <2>6, <3>3, <4>1, RunPersists DEF Exists, Claimed
    <3>4. QED
      BY <3>1, <3>2, <3>3
  <2>11. ASSUME NEW e \in Messages PROVE HolderOK(e)'
    <3>1. CASE e = d
      BY <2>2, <2>4, <3>1 DEF HolderOK, ClaimSteps
    <3>2. CASE e # d
      <4>1. ~(Claimed(e) /\ holder[e] = h)
        BY <1>1, NotHolding DEF ClaimSteps
      <4>2. QED
        BY <2>4, <3>2, <4>1, HolderPersists DEF Claimed, Exists
    <3>3. QED
      BY <3>1, <3>2
  <2>12. QED
    BY <2>8, <2>9, <2>10, <2>11 DEF IInv
<1>5. QED
  BY <1>3, <1>4

(* The trade is the first one, unless the draft is adrift.                  *)
LEMMA CreateTradeKeepsIInv ==
  ASSUME IInv, NEW h \in Handlers, CreateTrade(h)
  PROVE  IInv'
<1>0. PICK d : d = run[h].draft
  OBVIOUS
<1> DEFINE id == Cardinality(trades) + 1
           t == [id |-> id, draft |-> d]
           r == [run[h] EXCEPT !.step = "binding", !.trade = id]
<1>1. /\ run[h].step = "creating trade" /\ trades' = trades \cup {t}
      /\ run' = [run EXCEPT ![h] = r] /\ UNCHANGED <<draft, crashes, holder, adrift>>
  BY <1>0 DEF CreateTrade, At
<1>2. d \in Messages /\ Exists(d) /\ run[h] \in Run /\ RunOK(h)
  BY <1>0, <1>1 DEF IInv, RunOK, TypeOK, Run
<1>3. id \in Nat \ {NoTrade}
  BY FS_CardinalityType DEF IInv, TypeOK, NoTrade
<1> HIDE DEF id
<1>4. r \in Run /\ r.step = "binding" /\ r.draft = d /\ r.trade = id /\ t.draft = d
  BY <1>0, <1>2, <1>3 DEF Run, Steps
<1>5. t \in [id : Nat \ {NoTrade}, draft : Messages]
  BY <1>2, <1>3
<1> HIDE DEF t, r
<1>6. run'[h] = r /\ \A g \in Handlers \ {h} : run'[g] = run[g]
  BY <1>1 DEF IInv, TypeOK
<1>7. /\ TradesOf(d)' = TradesOf(d) \cup {t}
      /\ \A e \in Messages \ {d} : TradesOf(e)' = TradesOf(e)
  BY <1>1, <1>4 DEF TradesOf
<1>8. d \notin adrift => TradesOf(d) = {} /\ Claimed(d) /\ holder[d] = h
  BY <1>0, <1>1, <1>2 DEF RunOK, ClaimSteps
<1>9. TypeOK'
  <2>1. IsFiniteSet(trades')
    BY <1>1, FS_AddElement DEF IInv, TypeOK
  <2>2. run' \in [Handlers -> Run]
    BY <1>1, <1>4 DEF IInv, TypeOK, Run
  <2>3. QED
    BY <1>1, <1>5, <2>1, <2>2 DEF IInv, TypeOK, Run, Exists
<1>10. OneTradeUnlessAdrift'
  <2> SUFFICES ASSUME NEW e \in Messages \ adrift, NEW u \in TradesOf(e)', NEW v \in TradesOf(e)'
               PROVE  u = v
    BY <1>1 DEF OneTradeUnlessAdrift, AtMostOneTrade
  <2>1. CASE e = d
    BY <1>1, <1>8, <2>1 DEF TradesOf
  <2>2. CASE e # d
    <3>1. u \in TradesOf(e) /\ v \in TradesOf(e)
      BY <1>1, <1>4, <2>2 DEF TradesOf
    <3>2. QED
      BY <3>1 DEF IInv, OneTradeUnlessAdrift, AtMostOneTrade
  <2>3. QED
    BY <2>1, <2>2
<1>11. UnsavedMeansNoTrade'
  BY <1>1, <1>7, <1>8 DEF IInv, UnsavedMeansNoTrade, Claimed
<1>12. ASSUME NEW g \in Handlers PROVE RunOK(g)'
  <2>1. CASE g = h
    <3>1. run'[g].step = "binding" /\ run'[g].draft = d /\ run'[g].trade # NoTrade
      BY <1>3, <1>4, <1>6, <2>1
    <3>2. /\ d \in Messages /\ Exists(d)' /\ adrift' = adrift
          /\ d \notin adrift => Claimed(d)' /\ holder'[d] = g
      BY <1>1, <1>2, <1>8, <2>1 DEF Exists, Claimed
    <3>3. QED
      BY <3>1, <3>2 DEF RunOK, ClaimSteps, Exists, Claimed
  <2>2. CASE g # h /\ run[g].step # "idle" /\ run[g].draft = d
    <3>1. RunOK(g) /\ run'[g] = run[g]
      BY <1>6, <2>2 DEF IInv
    <3>2. run[g].step \in ClaimSteps \/ (run[g].step = "releasing" /\ holder[d] = g) => d \in adrift
      BY <1>8, <2>2, <3>1 DEF RunOK
    <3>3. run'[g].draft = d /\ run'[g].step = run[g].step /\ run'[g].state = run[g].state
          /\ run'[g].trade = run[g].trade
      BY <2>2, <3>1
    <3>4. UNCHANGED <<draft, holder, adrift>>
      BY <1>1
    <3>5. QED
      BY <2>2, <3>1, <3>2, <3>3, <3>4 DEF RunOK, ClaimSteps, Exists, Claimed
  <2>3. CASE g # h /\ ~(run[g].step # "idle" /\ run[g].draft = d)
    <3>1. run[g].step # "idle" => run[g].draft \in Messages \ {d}
      BY <2>3 DEF IInv, RunOK
    <3>2. QED
      BY <1>1, <1>6, <1>7, <2>3, <3>1, RunPersists DEF Exists, Claimed
  <2>4. QED
    BY <2>1, <2>2, <2>3
<1>13. ASSUME NEW e \in Messages PROVE HolderOK(e)'
  <2>1. CASE holder[e] = h
    <3>1. Claimed(e) => run[h].draft = e
      BY <2>1 DEF IInv, HolderOK
    <3>2. run'[h].step = "binding" /\ run'[h].draft = run[h].draft
      BY <1>0, <1>4, <1>6
    <3>3. draft' = draft /\ holder' = holder
      BY <1>1
    <3>4. QED
      BY <2>1, <3>1, <3>2, <3>3 DEF HolderOK, ClaimSteps, Claimed, Exists
  <2>2. CASE holder[e] # h
    BY <1>1, <1>6, <2>2, HolderPersists DEF Claimed, Exists
  <2>3. QED
    BY <2>1, <2>2
<1>14. QED
  BY <1>9, <1>10, <1>11, <1>12, <1>13 DEF IInv

(* A refusal, with a field to ask for again or without one.                 *)
LEMMA RefusedFieldKeepsIInv ==
  ASSUME IInv, NEW h \in Handlers, RefusedField(h)
  PROVE  IInv'
<1>1. PICK f \in Fields : Become(h, "reopening", run[h].filled \ {f})
  BY DEF RefusedField
<1>2. run[h].filled \ {f} \in SUBSET Fields /\ "reopening" \in Steps
  BY DEF IInv, TypeOK, Steps
<1>3. PICK r \in Run : GoesOn(h, r) /\ r.step = "reopening" /\ r.draft = run[h].draft
  BY <1>1, <1>2, BecomeRecord
<1>4. run[h].step = "creating trade" /\ UNCHANGED <<draft, trades, crashes, holder, adrift>>
  BY DEF RefusedField, At
<1>5. run' = [run EXCEPT ![h] = r] /\ run'[h] = r
  BY <1>3 DEF GoesOn, IInv, TypeOK
<1>6. RunOK(h)'
  <2>1. RunOK(h)
    BY DEF IInv
  <2>2. run'[h].step = "reopening" /\ run'[h].draft = run[h].draft
    BY <1>3, <1>5
  <2>3. QED
    BY <1>4, <2>1, <2>2 DEF RunOK, ClaimSteps, Exists, Claimed, TradesOf
<1>7. \A d \in Messages : Claimed(d) /\ holder[d] = h =>
        r.draft = d /\ r.step \in ClaimSteps \cup {"releasing"}
  BY <1>3 DEF IInv, HolderOK, ClaimSteps
<1>8. crashes' \in Nat
  BY <1>4 DEF IInv, TypeOK
<1>9. QED
  BY <1>4, <1>5, <1>6, <1>7, <1>8, LocalKeepsIInv

LEMMA RefusedEntryKeepsIInv ==
  ASSUME IInv, NEW h \in Handlers, RefusedEntry(h)
  PROVE  IInv'
<1>1. Releasing(h, "AWAITING_CONFIRMATION") /\ "AWAITING_CONFIRMATION" \in OpenStates
  BY DEF RefusedEntry, OpenStates
<1>2. PICK r \in Run : /\ GoesOn(h, r) /\ r.step = "releasing" /\ r.draft = run[h].draft
                       /\ r.state = "AWAITING_CONFIRMATION"
  BY <1>1, ReleasingRecord
<1>3. run[h].step = "creating trade" /\ UNCHANGED <<draft, trades, crashes, holder, adrift>>
  BY DEF RefusedEntry, At
<1>4. run' = [run EXCEPT ![h] = r] /\ run'[h] = r
  BY <1>2 DEF GoesOn, IInv, TypeOK
<1>5. RunOK(h)'
  <2>1. RunOK(h)
    BY DEF IInv
  <2>2. /\ run'[h].step = "releasing" /\ run'[h].draft = run[h].draft
        /\ run'[h].state \in OpenStates
    BY <1>1, <1>2, <1>4
  <2>3. QED
    BY <1>3, <2>1, <2>2 DEF RunOK, ClaimSteps, Exists, Claimed, TradesOf
<1>6. \A d \in Messages : Claimed(d) /\ holder[d] = h =>
        r.draft = d /\ r.step \in ClaimSteps \cup {"releasing"}
  BY <1>2 DEF IInv, HolderOK
<1>7. crashes' \in Nat
  BY <1>3 DEF IInv, TypeOK
<1>8. QED
  BY <1>3, <1>4, <1>5, <1>6, <1>7, LocalKeepsIInv

(* A trade whose answer is lost sets its draft adrift.                      *)
LEMMA TradeUnheardKeepsIInv ==
  ASSUME IInv, NEW h \in Handlers, TradeUnheard(h)
  PROVE  IInv'
<1>0. PICK d : d = run[h].draft
  OBVIOUS
<1> DEFINE id == Cardinality(trades) + 1
           t == [id |-> id, draft |-> d]
<1>1. /\ run[h].step = "creating trade" /\ trades' = trades \cup {t}
      /\ adrift' = adrift \cup {d} /\ UNCHANGED <<draft, crashes, holder>>
      /\ Releasing(h, "AWAITING_CONFIRMATION") /\ "AWAITING_CONFIRMATION" \in OpenStates
  BY <1>0 DEF TradeUnheard, At, OpenStates
<1>2. PICK r \in Run : /\ GoesOn(h, r) /\ r.step = "releasing" /\ r.draft = d
                       /\ r.state = "AWAITING_CONFIRMATION"
  BY <1>0, <1>1, ReleasingRecord
<1>3. d \in Messages /\ Exists(d) /\ RunOK(h)
  BY <1>0, <1>1 DEF IInv, RunOK
<1>4. id \in Nat \ {NoTrade}
  BY FS_CardinalityType DEF IInv, TypeOK, NoTrade
<1> HIDE DEF id
<1>5. t \in [id : Nat \ {NoTrade}, draft : Messages] /\ t.draft = d
  BY <1>3, <1>4
<1> HIDE DEF t
<1>6. run'[h] = r /\ \A g \in Handlers \ {h} : run'[g] = run[g]
  BY <1>2 DEF GoesOn, IInv, TypeOK
<1>7. \A e \in Messages \ adrift' : e # d /\ e \notin adrift /\ TradesOf(e)' = TradesOf(e)
  BY <1>1, <1>5 DEF TradesOf
<1>8. TypeOK'
  <2>1. IsFiniteSet(trades')
    BY <1>1, FS_AddElement DEF IInv, TypeOK
  <2>2. run' \in [Handlers -> Run]
    BY <1>2 DEF GoesOn, IInv, TypeOK, Run
  <2>3. adrift' \subseteq Messages
    BY <1>1, <1>3 DEF IInv, TypeOK
  <2>4. QED
    BY <1>1, <1>5, <2>1, <2>2, <2>3 DEF IInv, TypeOK, Run, Exists
<1>9. OneTradeUnlessAdrift'
  BY <1>7 DEF IInv, OneTradeUnlessAdrift, AtMostOneTrade
<1>10. UnsavedMeansNoTrade'
  BY <1>1, <1>7 DEF IInv, UnsavedMeansNoTrade
<1>11. ASSUME NEW g \in Handlers PROVE RunOK(g)'
  <2>1. CASE g = h
    <3>1. /\ run'[g].step = "releasing" /\ run'[g].draft = d /\ run'[g].state \in OpenStates
          /\ d \in adrift' /\ Exists(d)'
      BY <1>1, <1>2, <1>3, <1>6, <2>1 DEF Exists
    <3>2. QED
      BY <1>3, <3>1 DEF RunOK, ClaimSteps
  <2>2. CASE g # h
    <3>1. run[g].step # "idle" => run[g].draft \in Messages
      BY DEF IInv, RunOK
    <3>2. QED
      BY <1>1, <1>6, <1>7, <2>2, <3>1, RunPersists DEF Exists, Claimed
  <2>3. QED
    BY <2>1, <2>2
<1>12. ASSUME NEW e \in Messages PROVE HolderOK(e)'
  <2>1. CASE holder[e] = h
    <3>1. Claimed(e) => e = d
      BY <1>0, <2>1 DEF IInv, HolderOK
    <3>2. run'[h].step = "releasing" /\ run'[h].draft = d
      BY <1>2, <1>6
    <3>3. draft' = draft /\ holder' = holder
      BY <1>1
    <3>4. QED
      BY <2>1, <3>1, <3>2, <3>3 DEF HolderOK, ClaimSteps, Claimed, Exists
  <2>2. CASE holder[e] # h
    BY <1>1, <1>6, <2>2, HolderPersists DEF Claimed, Exists
  <2>3. QED
    BY <2>1, <2>2
<1>13. QED
  BY <1>8, <1>9, <1>10, <1>11, <1>12 DEF IInv

(* The binding saves the draft, unless the claim is gone.                   *)
LEMMA BindTradeKeepsIInv ==
  ASSUME IInv, NEW h \in Handlers, BindTrade(h)
  PROVE  IInv'
<1>1. /\ run[h].step = "binding" /\ run' = [run EXCEPT ![h] = Idle]
      /\ UNCHANGED <<trades, crashes, holder>>
  BY DEF BindTrade, At, Stop
<1>2. PICK d \in Messages : run[h].draft = d /\ Exists(d) /\ draft[d] \in Row
  BY <1>1 DEF IInv, RunOK, TypeOK
<1>3. run[h].trade \in Nat /\ run[h].trade # NoTrade
  BY <1>1 DEF IInv, RunOK, TypeOK
<1> DEFINE row == [draft[d] EXCEPT !.state = "CONFIRMED", !.trade = run[h].trade]
<1>4. CASE Claimed(d)
  <2>1. draft' = [draft EXCEPT ![d] = row] /\ NoteOverrun(h, d)
    BY <1>2, <1>4 DEF BindTrade, Claimed
  <2>2. draft[d].trade = NoTrade
    BY <1>2, <1>4 DEF IInv, TypeOK, Claimed
  <2>3. /\ row \in Row /\ row.state = "CONFIRMED" /\ row.trade # NoTrade
        /\ row.state \notin {"CONFIRMING", NoDraft}
    BY <1>2, <1>3 DEF Row, States, NoDraft
  <2> HIDE DEF row
  <2>4. QED
    BY <1>1, <1>2, <2>1, <2>2, <2>3, IdleIsRun, PutKeepsIInv
<1>5. CASE ~Claimed(d)
  <2>1. UNCHANGED <<draft, adrift>>
    BY <1>2, <1>5 DEF BindTrade, Claimed
  <2>2. RunOK(h)'
    BY <1>1, IdleIsRun DEF RunOK, ClaimSteps, IInv, TypeOK
  <2>3. ASSUME NEW e \in Messages PROVE ~(Claimed(e) /\ holder[e] = h)
    BY <1>2, <1>5 DEF IInv, HolderOK
  <2>4. QED
    BY <1>1, <2>1, <2>2, <2>3, IdleIsRun, LocalKeepsIInv DEF IInv, TypeOK
<1>6. QED
  BY <1>4, <1>5

-----------------------------------------------------------------------------
(* Time and crashes.                                                        *)
LEMMA LapseKeepsIInv ==
  ASSUME IInv, NEW d \in Messages, Lapse(d)
  PROVE  IInv'
<1> DEFINE row == [draft[d] EXCEPT !.live = FALSE]
<1>1. draft' = [draft EXCEPT ![d] = row] /\ UNCHANGED <<run, trades, crashes, holder, adrift>>
  BY DEF Lapse
<1>2. row \in Row /\ row.state = draft[d].state /\ row.trade = draft[d].trade
  BY ZenonT(40) DEF IInv, TypeOK, Row
<1> HIDE DEF row
<1>3. /\ draft' \in [Messages -> Row]
      /\ \A e \in Messages : draft'[e].state = draft[e].state /\ draft'[e].trade = draft[e].trade
  BY <1>1, <1>2 DEF IInv, TypeOK
<1>4. TypeOK'
  BY <1>1, <1>3 DEF IInv, TypeOK, Exists
<1>5. OneTradeUnlessAdrift' /\ UnsavedMeansNoTrade'
  BY <1>1, <1>3 DEF IInv, OneTradeUnlessAdrift, UnsavedMeansNoTrade, AtMostOneTrade, TradesOf
<1>6. ASSUME NEW g \in Handlers PROVE RunOK(g)'
  <2>1. run[g].step # "idle" => run[g].draft \in Messages
    BY DEF IInv, RunOK
  <2>2. QED
    BY <1>1, <1>3, <2>1, RunPersists DEF Exists, Claimed, TradesOf
<1>7. ASSUME NEW e \in Messages PROVE HolderOK(e)'
  BY <1>1, <1>3, HolderPersists DEF Exists, Claimed
<1>8. QED
  BY <1>4, <1>5, <1>6, <1>7 DEF IInv

LEMMA CrashKeepsIInv ==
  ASSUME IInv, NEW h \in Handlers, Crash(h)
  PROVE  IInv'
<1>1. /\ run' = [run EXCEPT ![h] = Idle] /\ crashes' = crashes + 1
      /\ holder' = [d \in Messages |-> IF holder[d] = h THEN Nobody ELSE holder[d]]
      /\ UNCHANGED <<draft, trades, adrift>>
  BY DEF Crash, Stop
<1>2. run'[h] = Idle /\ \A g \in Handlers \ {h} : run'[g] = run[g]
  BY <1>1 DEF IInv, TypeOK
<1>3. TypeOK'
  <2>1. run' \in [Handlers -> Run]
    BY <1>1, IdleIsRun DEF IInv, TypeOK, Run
  <2>2. holder' \in [Messages -> Handlers \cup {Nobody}] /\ crashes' \in Nat
    BY <1>1 DEF IInv, TypeOK
  <2>3. QED
    BY <1>1, <2>1, <2>2 DEF IInv, TypeOK, Run, Exists
<1>4. OneTradeUnlessAdrift' /\ UnsavedMeansNoTrade'
  BY <1>1 DEF IInv, OneTradeUnlessAdrift, UnsavedMeansNoTrade, AtMostOneTrade, TradesOf
<1>5. ASSUME NEW g \in Handlers PROVE RunOK(g)'
  <2>1. CASE g = h
    BY <1>2, <2>1, IdleIsRun DEF RunOK, ClaimSteps
  <2>2. CASE g # h /\ run[g].step = "idle"
    BY <1>2, <2>2 DEF RunOK, ClaimSteps
  <2>3. CASE g # h /\ run[g].step # "idle"
    <3>1. RunOK(g) /\ run'[g] = run[g]
      BY <1>2, <2>3 DEF IInv
    <3>2. PICK d \in Messages : d = run[g].draft
      BY <2>3, <3>1 DEF RunOK
    <3>3. holder'[d] = g <=> holder[d] = g
      BY <1>1, <2>3, NobodyIsNoHandler DEF Nobody
    <3>4. UNCHANGED <<draft, trades, adrift>>
      BY <1>1
    <3>5. run'[g].step = run[g].step /\ run'[g].draft = d /\ run'[g].state = run[g].state
          /\ run'[g].trade = run[g].trade /\ run[g].draft = d
      BY <3>1, <3>2
    <3>6. QED
      BY <2>3, <3>1, <3>3, <3>4, <3>5 DEF RunOK, ClaimSteps, Exists, Claimed, TradesOf
  <2>4. QED
    BY <2>1, <2>2, <2>3
<1>6. ASSUME NEW e \in Messages PROVE HolderOK(e)'
  <2>1. CASE holder[e] = h
    BY <1>1, <2>1, NobodyIsNoHandler DEF HolderOK, Nobody
  <2>2. CASE holder[e] # h
    BY <1>1, <1>2, <2>2, HolderPersists DEF Claimed, Exists
  <2>3. QED
    BY <2>1, <2>2
<1>7. QED
  BY <1>3, <1>4, <1>5, <1>6 DEF IInv

LEMMA NextKeepsIInv == IInv /\ [Next]_vars => IInv'
<1> SUFFICES ASSUME IInv, [Next]_vars PROVE IInv'
  OBVIOUS
<1>1. CASE UNCHANGED vars
  <2>1. UNCHANGED <<draft, run, trades, crashes, holder, adrift>>
    BY <1>1 DEF vars
  <2>2. TypeOK'
    BY <2>1 DEF IInv, TypeOK, Exists
  <2>3. OneTradeUnlessAdrift' /\ UnsavedMeansNoTrade'
    BY <2>1 DEF IInv, OneTradeUnlessAdrift, UnsavedMeansNoTrade, AtMostOneTrade, TradesOf
  <2>4. \A h \in Handlers : RunOK(h)'
    BY <2>1 DEF IInv, RunOK, TradesOf, Claimed, Exists
  <2>5. \A d \in Messages : HolderOK(d)'
    BY <2>1, HolderPersists DEF Claimed, Exists
  <2>6. QED
    BY <2>2, <2>3, <2>4, <2>5 DEF IInv
<1>2. ASSUME NEW h \in Handlers, UserActs(h) PROVE IInv'
  BY <1>2, PressKeepsIInv, OpenDraftKeepsIInv DEF UserActs
<1>3. ASSUME NEW h \in Handlers, Continue(h) PROVE IInv'
  BY <1>3, CreateDraftKeepsIInv, ReadsKeepIInv, WritesKeepIInv, ReopenKeepsIInv, ReleaseKeepsIInv,
     ClaimKeepsIInv, CreateTradeKeepsIInv, RefusedFieldKeepsIInv, RefusedEntryKeepsIInv,
     TradeUnheardKeepsIInv, BindTradeKeepsIInv DEF Continue
<1>4. QED
  BY <1>1, <1>2, <1>3, CrashKeepsIInv, LapseKeepsIInv DEF Next

-----------------------------------------------------------------------------
(* What holds in every reachable state, for any set of messages and runs.   *)
LEMMA IInvAlways == Spec => []IInv
BY InitIInv, NextKeepsIInv, PTL DEF Spec

(* Types, and the check of migration 0023: a draft names a trade exactly    *)
(* when it is CONFIRMED.                                                    *)
THEOREM TypeCorrect == Spec => []TypeOK
<1>1. IInv => TypeOK
  BY DEF IInv
<1>2. QED
  BY <1>1, IInvAlways, PTL

(* A draft gives at most one trade, whatever runs confirm, answer, cancel   *)
(* and die, unless another run took its claim away or the answer to the     *)
(* commit of a trade of it was lost.                                        *)
THEOREM OneTradeHolds == Spec => []OneTradeUnlessAdrift
<1>1. IInv => OneTradeUnlessAdrift
  BY DEF IInv
<1>2. QED
  BY <1>1, IInvAlways, PTL

(* A draft that shows as unsaved has no trade, with the same exceptions.    *)
THEOREM UnsavedHolds == Spec => []UnsavedMeansNoTrade
<1>1. IInv => UnsavedMeansNoTrade
  BY DEF IInv
<1>2. QED
  BY <1>1, IInvAlways, PTL

(* A confirmed draft names its trade, so every write is refused or finds    *)
(* itself with nothing to do.                                               *)
THEOREM SavedIsFinalHolds == Spec => SavedIsFinal
<1> DEFINE Kept == \A d \in Messages :
             Exists(d) /\ draft[d].state = "CONFIRMED" =>
               draft'[d] = [draft[d] EXCEPT !.live = draft'[d].live]
<1>1. IInv /\ [Next]_vars => Kept
  <2> SUFFICES ASSUME IInv, [Next]_vars, NEW d \in Messages, Exists(d), draft[d].state = "CONFIRMED"
               PROVE  draft'[d] = [draft[d] EXCEPT !.live = draft'[d].live]
    OBVIOUS
  <2>1. draft[d] \in Row /\ Refused(d) /\ draft \in [Messages -> Row]
    BY DEF IInv, TypeOK, Refused
  <2>2. draft'[d] = draft[d] => draft'[d] = [draft[d] EXCEPT !.live = draft'[d].live]
    BY <2>1 DEF Row
  <2>3. CASE UNCHANGED vars
    BY <2>2, <2>3 DEF vars
  <2>4. ASSUME NEW h \in Handlers, UserActs(h) PROVE draft'[d] = draft[d]
    <3>1. Swept(draft[d]) = draft[d]
      BY DEF Swept, Expires, OpenStates
    <3>2. QED
      BY <2>1, <2>4, <3>1 DEF UserActs, OpenDraft, ReplyTo, PressConfirm, PressCancel, Press
  <2>5. ASSUME NEW h \in Handlers, Continue(h) PROVE draft'[d] = draft[d]
    <3>1. CASE CreateDraft(h)
      BY <2>1, <3>1 DEF CreateDraft, Inserted
    <3>2. CASE FindsExpired(h) \/ ReadForAnswer(h) \/ ReadForConfirm(h) \/ ReadForCancel(h)
               \/ CreateTrade(h) \/ RefusedField(h) \/ RefusedEntry(h) \/ TradeUnheard(h)
      BY <3>2 DEF FindsExpired, ReadForAnswer, ReadForConfirm, ReadForCancel, CreateTrade,
                  RefusedField, RefusedEntry, TradeUnheard
    <3>3. CASE Expire(h) \/ WriteAnswer(h) \/ Reopen(h) \/ CancelDraft(h)
      BY <2>1, <3>3 DEF Expire, WriteAnswer, Reopen, CancelDraft, UpdateDraft
    <3>4. CASE ClaimDraft(h)
      BY <2>1, <3>4 DEF ClaimDraft, Claimable, OpenStates
    <3>5. CASE ReleaseClaim(h) \/ BindTrade(h)
      BY <2>1, <3>5 DEF ReleaseClaim, BindTrade
    <3>6. QED
      BY <2>5, <3>1, <3>2, <3>3, <3>4, <3>5 DEF Continue
  <2>6. ASSUME NEW h \in Handlers, Crash(h) PROVE draft'[d] = draft[d]
    BY <2>6 DEF Crash
  <2>7. ASSUME NEW e \in Messages, Lapse(e)
        PROVE  draft'[d] = [draft[d] EXCEPT !.live = draft'[d].live]
    <3>1. CASE e = d
      BY <2>1, <2>7, <3>1 DEF Lapse, Row
    <3>2. CASE e # d
      BY <2>1, <2>2, <2>7, <3>2 DEF Lapse
    <3>3. QED
      BY <3>1, <3>2
  <2>8. QED
    BY <2>2, <2>3, <2>4, <2>5, <2>6, <2>7 DEF Next
<1>2. IInv /\ [Next]_vars => [Kept]_vars
  BY <1>1
<1>3. QED
  BY <1>2, IInvAlways, PTL DEF Spec, SavedIsFinal
=============================================================================
