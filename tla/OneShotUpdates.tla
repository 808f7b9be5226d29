---------------------------- MODULE OneShotUpdates ----------------------------
(***************************************************************************)
(* What the update stream promises, without requests, queues or crashes:   *)
(* an update is claimed once, started once, acted on at most once and      *)
(* settled only then.  TelegramUpdates implements it.                      *)
(***************************************************************************)
EXTENDS Naturals

CONSTANT Updates

VARIABLES stage,   \* how far each update has come
          acted    \* how often the bot acted on it

vars == <<stage, acted>>

Init ==
  /\ stage = [u \in Updates |-> "new"]
  /\ acted = [u \in Updates |-> 0]

Move(u, from, to) == stage[u] = from /\ stage' = [stage EXCEPT ![u] = to]

Claim(u)  == Move(u, "new", "claimed") /\ UNCHANGED acted
Start(u)  == Move(u, "claimed", "started") /\ UNCHANGED acted
Act(u)    == Move(u, "started", "acted") /\ acted' = [acted EXCEPT ![u] = @ + 1]
Settle(u) == Move(u, "acted", "settled") /\ UNCHANGED acted

Next == \E u \in Updates : Claim(u) \/ Start(u) \/ Act(u) \/ Settle(u)

Spec == Init /\ [][Next]_vars
=============================================================================
