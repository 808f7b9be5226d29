------------------------------ MODULE Provisioning ------------------------------
(***************************************************************************)
(* Connecting trading accounts of one user to MetaAPI and disconnecting    *)
(* them (metaapi/provisioningService.ts), with the durable operations of   *)
(* metaapi/pgProvisioningStore.ts and the provider's side of it: a step is *)
(* a statement, a transaction or a call of the provider.                   *)
(*                                                                         *)
(* An operation is the row of one operation key, that is of one broker     *)
(* identity of one account; its marker names the provider accounts made    *)
(* for it.  History: hurried and released.                                 *)
(***************************************************************************)
EXTENDS Integers, FiniteSets

CONSTANTS Accounts,     \* trading accounts
          Operations,   \* broker identities one may connect
          AccountOf,    \* the account of an operation
          Requests,     \* requests served at one time
          MaxPolls,     \* maxPollAttempts
          MaxProvided,  \* provider accounts ever made
          MaxFaults     \* calls that fail, commits whose outcome is lost, processes that die

ASSUME OperationsHaveAccounts == AccountOf \in [Operations -> Accounts]
ASSUME BoundsAreNaturals == {MaxPolls, MaxProvided, MaxFaults} \subseteq Nat

VARIABLES account,   \* table trading_accounts
          op,        \* table provisioning_operations
          provider,  \* MetaAPI's accounts
          secret,    \* the user's credential is stored
          req,       \* the requests
          faults,    \* faults so far
          hurried,   \* history: operations looked up, without a match, while an account
                     \* was still being made for them, by a request or by the provider
          released   \* history: accounts that were disconnected

history == <<hurried, released>>
vars == <<account, op, provider, secret, req, faults, history>>

Ids  == 1..MaxProvided
None == 0
Nothing == "none"
ASSUME NothingIsNoOperation == Nothing \notin Operations

Account == [exists : BOOLEAN, bound : 0..MaxProvided]
Statuses == {"PENDING", "ACCEPTED", "COMPLETED", "AMBIGUOUS", "FAILED"}
Operation == [status : Statuses \cup {Nothing}, id : 0..MaxProvided]
NoOperation == [status |-> Nothing, id |-> None]

(* A provider account is promised (202), there, or gone.                    *)
Provided == [state : {Nothing, "promised", "there", "gone"}, marker : Operations \cup {Nothing}]
NotProvided == [state |-> Nothing, marker |-> Nothing]

(* The steps of a request, named after what comes next.  id: the provider   *)
(* account it is about; found: from a reconciliation; status: to be         *)
(* recorded; account: of a disconnect.                                      *)
Steps == {"idle", "reserving", "looking up", "revealing", "creating", "polling", "accepting",
          "binding", "converging", "marking", "deleting", "unbinding"}
Request == [step : Steps, op : Operations \cup {Nothing}, account : Accounts \cup {Nothing},
            id : 0..MaxProvided, found : BOOLEAN, polls : 0..MaxPolls, status : Statuses]
Idle == [step |-> "idle", op |-> Nothing, account |-> Nothing, id |-> None, found |-> FALSE,
         polls |-> 0, status |-> "FAILED"]

At(r, step) == req[r].step = step
Goto(r, step) == req' = [req EXCEPT ![r].step = step]
Stop(r) == req' = [req EXCEPT ![r] = Idle]
Owns(r, id, found) ==
  req' = [req EXCEPT ![r] = [@ EXCEPT !.step = "accepting", !.id = id, !.found = found]]
Ends(r, status) ==
  req' = [req EXCEPT ![r] = [@ EXCEPT !.step = "marking", !.status = status]]

Fault == faults < MaxFaults /\ faults' = faults + 1

Init ==
  /\ account = [a \in Accounts |-> [exists |-> TRUE, bound |-> None]]
  /\ op = [o \in Operations |-> NoOperation]
  /\ provider = [i \in Ids |-> NotProvided]
  /\ secret = TRUE
  /\ req = [r \in Requests |-> Idle]
  /\ faults = 0
  /\ hurried = {} /\ released = {}

-----------------------------------------------------------------------------
(* Seeded faults carry the prefix Faulty; no action uses them.              *)

(* markStatus: by id; an id that is known is only ever replaced by another. *)
Marked(row, status, id) ==
  IF row.status = Nothing THEN row
  ELSE [status |-> status, id |-> IF id = None THEN row.id ELSE id]

(* What the provider finds under the marker of an operation.                *)
(* fault: the provider's page is not filtered by the exact marker *)
FaultyMatches(o) == {i \in Ids : provider[i].state = "there"}
Matches(o) == {i \in Ids : provider[i].state = "there" /\ provider[i].marker = o}

(* An account is still being made: the provider has accepted its creation   *)
(* and not finished, whether or not a request still waits for it; or        *)
(* another request is about to create, creating, or polling.                *)
Promised(o) == \E i \in Ids : provider[i].state = "promised" /\ provider[i].marker = o
Underway(r, o) ==
  \/ Promised(o)
  \/ \E q \in Requests \ {r} :
       req[q].op = o /\ req[q].step \in {"revealing", "creating", "polling"}

(* The provider makes the next account.                                     *)
Made(o, state) ==
  \E i \in Ids :
    /\ provider[i].state = Nothing
    /\ \A j \in 1..(i - 1) : provider[j].state # Nothing
    /\ provider' = [provider EXCEPT ![i] = [state |-> state, marker |-> o]]

(* fault: only an operation that ended in doubt is looked up *)
FaultyReconciled(o) == op[o].status \in {"AMBIGUOUS", "ACCEPTED"}
Reconciled(o) == op[o].status # Nothing

(* bindMetaApiAccount's condition.                                          *)
(* fault: a reconciliation replaces any binding *)
FaultyBindable(row, id, found) == row.exists /\ (row.bound = None \/ found)
Bindable(row, id, found) == row.exists /\ (row.bound = None \/ (found /\ row.bound = id))
Taken(a, id) == \E b \in Accounts \ {a} : account[b].exists /\ account[b].bound = id

(* fault: losing the race counts as a success *)
FaultyConverged(a, id) == account[a].bound # None
Converged(a, id) == account[a].exists /\ account[a].bound = id

-----------------------------------------------------------------------------
(* connect.                                                                 *)

Connect(r, o) ==
  /\ At(r, "idle")
  /\ LET a == AccountOf[o] IN
       /\ account[a].exists /\ account[a].bound = None
       /\ req' = [req EXCEPT ![r] = [Idle EXCEPT !.step = "reserving", !.op = o]]
  /\ UNCHANGED <<account, op, provider, secret, faults, history>>

(* The unique key gives one caller the row, every other one what it says.   *)
Reserve(r) ==
  /\ At(r, "reserving")
  /\ LET o == req[r].op IN
       \/ /\ op[o].status = Nothing /\ account[AccountOf[o]].exists
          /\ op' = [op EXCEPT ![o].status = "PENDING"]
          /\ Goto(r, "revealing")
       \/ /\ \/ op[o].status = Nothing /\ ~account[AccountOf[o]].exists
             \/ op[o].status = "COMPLETED"
          /\ Stop(r)
          /\ UNCHANGED op
       \/ /\ op[o].status \notin {Nothing, "COMPLETED"}
          /\ Goto(r, IF Reconciled(o) THEN "looking up" ELSE "revealing")
          /\ UNCHANGED op
  /\ UNCHANGED <<account, provider, secret, faults, history>>

(* reconcile: several matches are refused.                                  *)
LookUp(r) ==
  /\ At(r, "looking up")
  /\ LET o == req[r].op IN
       /\ \/ Matches(o) = {} /\ Goto(r, "revealing")
          \/ \E i \in Ids : Matches(o) = {i} /\ Owns(r, i, TRUE)
          \/ Cardinality(Matches(o)) > 1 /\ Stop(r)
       /\ hurried' = IF Matches(o) = {} /\ Underway(r, o) THEN hurried \cup {o} ELSE hurried
  /\ UNCHANGED <<account, op, provider, secret, faults, released>>

LookUpFails(r) ==
  /\ At(r, "looking up")
  /\ Fault
  /\ Stop(r)
  /\ UNCHANGED <<account, op, provider, secret, history>>

Reveal(r) ==
  /\ At(r, "revealing")
  /\ IF secret THEN Goto(r, "creating") ELSE Ends(r, "FAILED")
  /\ UNCHANGED <<account, op, provider, secret, faults, history>>

(* provision: created, accepted (202), or refused.                          *)
CreateAccount(r) ==
  /\ At(r, "creating")
  /\ \/ /\ Made(req[r].op, "there")
        /\ \E i \in Ids : provider'[i] # provider[i] /\ Owns(r, i, FALSE)
     \/ /\ Made(req[r].op, "promised")
        /\ req' = [req EXCEPT ![r] = [@ EXCEPT !.step = "polling", !.polls = MaxPolls]]
     \/ Ends(r, "FAILED") /\ UNCHANGED provider
  /\ UNCHANGED <<account, op, secret, faults, history>>

(* A timeout, a 5xx, an answer that cannot be read: whatever the provider   *)
(* did, the request does not know.                                          *)
CreateFails(r) ==
  /\ At(r, "creating")
  /\ Fault
  /\ \/ Made(req[r].op, "there")
     \/ Made(req[r].op, "promised")
     \/ UNCHANGED provider
  /\ Ends(r, "AMBIGUOUS")
  /\ UNCHANGED <<account, op, secret, history>>

Poll(r) ==
  /\ At(r, "polling")
  /\ LET o == req[r].op IN
       \/ req[r].polls = 0 /\ Ends(r, "AMBIGUOUS")
       \/ /\ req[r].polls > 0
          /\ \/ Matches(o) = {} /\ req' = [req EXCEPT ![r].polls = @ - 1]
             \/ \E i \in Ids : Matches(o) = {i} /\ Owns(r, i, FALSE)
             \/ Cardinality(Matches(o)) > 1 /\ Ends(r, "FAILED")
  /\ UNCHANGED <<account, op, provider, secret, faults, history>>

(* A 5xx leaves the outcome open; a read that gets no answer does not.      *)
PollFails(r) ==
  /\ At(r, "polling") /\ req[r].polls > 0
  /\ Fault
  /\ \E status \in {"AMBIGUOUS", "FAILED"} : Ends(r, status)
  /\ UNCHANGED <<account, op, provider, secret, history>>

-----------------------------------------------------------------------------
(* completeBinding.                                                         *)

Accept(r) ==
  /\ At(r, "accepting")
  /\ op' = [op EXCEPT ![req[r].op] = Marked(@, "ACCEPTED", req[r].id)]
  /\ Goto(r, "binding")
  /\ UNCHANGED <<account, provider, secret, faults, history>>

Binds(r) ==
  LET a == AccountOf[req[r].op] IN
    /\ Bindable(account[a], req[r].id, req[r].found)
    /\ ~Taken(a, req[r].id)
    /\ account' = [account EXCEPT ![a].bound = req[r].id]
    /\ op' = [op EXCEPT ![req[r].op] = Marked(@, "COMPLETED", req[r].id)]

(* The transaction: bound; lost the race; or the provider account is taken. *)
Bind(r) ==
  /\ At(r, "binding")
  /\ LET a == AccountOf[req[r].op] IN
       \/ Binds(r) /\ Stop(r)
       \/ /\ ~Bindable(account[a], req[r].id, req[r].found) \/ Taken(a, req[r].id)
          /\ IF Bindable(account[a], req[r].id, req[r].found)
             THEN Ends(r, "FAILED")
             ELSE Goto(r, "converging")
          /\ UNCHANGED <<account, op>>
  /\ UNCHANGED <<provider, secret, faults, history>>

(* The transaction fails, or its commit took effect unheard.                *)
BindFails(r) ==
  /\ At(r, "binding")
  /\ Fault
  /\ Binds(r) \/ UNCHANGED <<account, op>>
  /\ Ends(r, "AMBIGUOUS")
  /\ UNCHANGED <<provider, secret, history>>

Converge(r) ==
  /\ At(r, "converging")
  /\ Ends(r, IF Converged(AccountOf[req[r].op], req[r].id) THEN "COMPLETED" ELSE "FAILED")
  /\ UNCHANGED <<account, op, provider, secret, faults, history>>

(* The last statement of a request; COMPLETED is answered with connected.   *)
MarkStatus(r) ==
  /\ At(r, "marking")
  /\ op' = [op EXCEPT ![req[r].op] =
              Marked(@, req[r].status, IF req[r].status = "COMPLETED" THEN req[r].id ELSE None)]
  /\ Stop(r)
  /\ UNCHANGED <<account, provider, secret, faults, history>>

-----------------------------------------------------------------------------
(* disconnect.                                                              *)

Disconnect(r, a, step) ==
  /\ At(r, "idle")
  /\ account[a].exists /\ account[a].bound # None
  /\ req' = [req EXCEPT ![r] = [Idle EXCEPT !.step = step, !.account = a, !.id = account[a].bound]]
  /\ UNCHANGED <<account, op, provider, secret, faults, history>>

DeleteProvided(r) ==
  /\ At(r, "deleting")
  /\ provider' = [provider EXCEPT ![req[r].id].state = "gone"]
  /\ Goto(r, "unbinding")
  /\ UNCHANGED <<account, op, secret, faults, history>>

DeleteFails(r) ==
  /\ At(r, "deleting")
  /\ Fault
  /\ provider' \in {provider, [provider EXCEPT ![req[r].id].state = "gone"]}
  /\ Stop(r)
  /\ UNCHANGED <<account, op, secret, history>>

(* Whatever is bound by now.                                                *)
Unbind(r) ==
  /\ At(r, "unbinding")
  /\ LET a == req[r].account IN
       /\ account' = [account EXCEPT ![a].bound = None]
       /\ released' = released \cup {a}
  /\ Stop(r)
  /\ UNCHANGED <<op, provider, secret, faults, hurried>>

-----------------------------------------------------------------------------
(* deleteForUser takes the operations of the account with it.               *)
DeleteAccount(a) ==
  /\ account[a].exists
  /\ account' = [account EXCEPT ![a] = [exists |-> FALSE, bound |-> None]]
  /\ op' = [o \in Operations |-> IF AccountOf[o] = a THEN NoOperation ELSE op[o]]
  /\ UNCHANGED <<provider, secret, req, faults, hurried, released>>

(* The user deletes the credential, or stores it again.                     *)
TurnCredential ==
  /\ secret' = ~secret
  /\ UNCHANGED <<account, op, provider, req, faults, history>>

(* External: the provider finishes, or gives up, what it accepted.          *)
Settle(i) ==
  /\ provider[i].state = "promised"
  /\ \E state \in {"there", "gone"} : provider' = [provider EXCEPT ![i].state = state]
  /\ UNCHANGED <<account, op, secret, req, faults, history>>

Crash(r) ==
  /\ ~At(r, "idle")
  /\ Fault
  /\ Stop(r)
  /\ UNCHANGED <<account, op, provider, secret, history>>

Next ==
  \/ \E r \in Requests :
       \/ \E o \in Operations : Connect(r, o)
       \/ \E a \in Accounts, step \in {"deleting", "unbinding"} : Disconnect(r, a, step)
       \/ Reserve(r) \/ LookUp(r) \/ LookUpFails(r) \/ Reveal(r)
       \/ CreateAccount(r) \/ CreateFails(r) \/ Poll(r) \/ PollFails(r)
       \/ Accept(r) \/ Bind(r) \/ BindFails(r) \/ Converge(r) \/ MarkStatus(r)
       \/ DeleteProvided(r) \/ DeleteFails(r) \/ Unbind(r) \/ Crash(r)
  \/ \E a \in Accounts : DeleteAccount(a)
  \/ TurnCredential
  \/ \E i \in Ids : Settle(i)

Spec == Init /\ [][Next]_vars

-----------------------------------------------------------------------------
(* Properties.                                                              *)

(* Every variable has its type; an operation only ever records a provider   *)
(* account that was made for it, and an account is bound by one of its own. *)
TypeOK ==
  /\ account \in [Accounts -> Account]
  /\ op \in [Operations -> Operation]
  /\ provider \in [Ids -> Provided]
  /\ secret \in BOOLEAN
  /\ req \in [Requests -> Request]
  /\ faults \in 0..MaxFaults
  /\ hurried \subseteq Operations /\ released \subseteq Accounts
  /\ \A o \in Operations : op[o].id # None => provider[op[o].id].marker = o
  /\ \A a \in Accounts : account[a].bound # None =>
       \E o \in Operations : AccountOf[o] = a /\ provider[account[a].bound].marker = o

(* However often a connect is repeated, fails, crashes or loses its answer, *)
(* the provider holds at most one account for the operation (the marker and *)
(* the reconciliation of connect), unless a request looked for one, found   *)
(* none, and went on to create while one was still being made: by another   *)
(* request, or by the provider alone, which had accepted it and not         *)
(* finished within the polls.  The second case needs no other request: the  *)
(* comment on the polling budget says that a retry reconciles, and the code *)
(* makes a second account.                                                  *)
MadeFor(o) == {i \in Ids : provider[i].marker = o /\ provider[i].state \in {"promised", "there"}}
OneAccountPerMarker ==
  \A o \in Operations \ hurried : Cardinality(MadeFor(o)) <= 1

(* A binding is never replaced by another: it is given up first             *)
(* (bindMetaApiAccount's compare-and-set).                                  *)
BindingIsNeverReplaced ==
  [][\A a \in Accounts :
       account[a].bound # None => account'[a].bound \in {None, account[a].bound}]_vars

(* An operation that says COMPLETED is the one its account is bound by,     *)
(* unless the account was disconnected (completeBinding).                   *)
CompletedIsBound ==
  \A o \in Operations :
    op[o].status = "COMPLETED" =>
      account[AccountOf[o]].bound = op[o].id \/ AccountOf[o] \in released
=============================================================================
