-------------------------- MODULE AuthSessions_proofs --------------------------
(***************************************************************************)
(* Proofs about the sessions of an account, for any number of requests,    *)
(* sessions, links, orders and crashes: their type invariant, that a       *)
(* refresh token has one successor, that a reset link is spent once, that  *)
(* sessions that must end do, and that a recovery locks out who knew an    *)
(* earlier password.                                                       *)
(***************************************************************************)
EXTENDS AuthSessions, TLAPS

(* What a request at each of its steps knows to be so: its session was      *)
(* opened, its link was mailed, the address of a login it admits is         *)
(* verified; and, unless an order overtook a login, which password it is    *)
(* about.                                                                   *)
RequestFits(r) ==
  /\ req[r].step \in {"reading holder", "rotating", "revoking"} =>
       req[r].session \in Sessions /\ session[req[r].session].state # "none"
  /\ req[r].step \in {"resetting", "consuming"} => req[r].link \in Links /\ req[r].link =< minted
  /\ req[r].step = "resetting" => req[r].kind = "reset"
  /\ req[r].step = "opening" \/ (req[r].step = "rehashing" /\ req[r].ok) => account.verified
  /\ req[r].step \in {"changing", "assigning", "switching"} => req[r].secret = 0
  /\ ~overtaken /\ req[r].step \in {"rehashing", "opening"} => req[r].secret = account.password
  /\ ~overtaken /\ req[r].step \in {"consuming", "revoking all"} => req[r].secret =< account.password
RequestsFit == \A r \in Requests : RequestFits(r)

(* Nothing happens before the account, its sessions and its links exist.    *)
RowsFit ==
  /\ \A s \in Sessions : session[s].state = "none" => session[s].turn = 0
  /\ \A l \in Links : minted < l => link[l].kind = "none" /\ redeemed[l] = 0
  /\ ~account.exists =>
       /\ ~account.verified /\ account.password = 0
       /\ \A r \in Requests : req[r].step = "idle"
       /\ \A l \in Links : link[l].kind = "none"

(* A session is past every turn that was exchanged.                         *)
TurnsArePast == \A x \in exchanges : x[2] < session[x[1]].turn /\ x[3] = x[2] + 1

(* An unshared link that set its password is spent or about to be, and only *)
(* one request is about to use one that did not.                            *)
Spent(l) == link[l].kind = "none" \/ link[l].used
Uses(r, l) == req[r].step = "resetting" /\ req[r].link = l
Spends(r, l) == req[r].step = "consuming" /\ req[r].link = l
Redemptions ==
  \A l \in Links \ shared :
    /\ redeemed[l] =< 1
    /\ redeemed[l] = 1 => Spent(l) \/ \E r \in Requests : Spends(r, l)
    /\ \A r \in Requests : Uses(r, l) =>
         redeemed[l] = 0 /\ \A q \in Requests : Uses(q, l) => q = r

(* Sessions are ended by a request that gets to revokeAllSessionsForUser.   *)
Pursues(r) ==
  req[r].step = "revoking all" \/ (req[r].step = "consuming" /\ req[r].kind = "reset")
DueArePursued ==
  \A s \in Sessions : session[s].state = "live" /\ session[s].due =>
    0 < crashes \/ \E r \in Requests : Pursues(r)

(* Passwords are numbered upwards, and no earlier one holds a session.      *)
PasswordsFit ==
  ~overtaken =>
    /\ recovered =< account.password /\ account.password =< orders
    /\ \A s \in Sessions : session[s].state = "live" => recovered =< session[s].secret

IInv ==
  /\ TypeOK /\ RequestsFit /\ RowsFit /\ TurnsArePast /\ Redemptions /\ DueArePursued
  /\ PasswordsFit

-----------------------------------------------------------------------------
(* Operators.                                                               *)

LEMMA Bounds ==
  /\ MaxSessions \in Nat /\ MaxTurns \in Nat /\ MaxLinks \in Nat
  /\ MaxOrders \in Nat /\ MaxCrashes \in Nat
  BY BoundsAreNaturals

LEMMA IdleIsRequest ==
  /\ Idle \in Request
  /\ Idle.step = "idle" /\ Idle.secret = 0 /\ Idle.link = None /\ Idle.kind = "reset"
  BY Bounds DEF Idle, Request, Steps, Roles, None

LEMMA NoSessionIsSession ==
  NoSession \in Session /\ NoSession.state = "none" /\ NoSession.turn = 0
  BY DEF NoSession, Session

LEMMA NoLinkIsLink == NoLink \in Link /\ NoLink.kind = "none"
  BY DEF NoLink, Link

LEMMA RegisteredIsAccount ==
  /\ Registered \in Account /\ Registered.exists /\ ~Registered.verified /\ Registered.password = 0
  /\ NoAccount \in Account /\ ~NoAccount.exists /\ ~NoAccount.verified /\ NoAccount.password = 0
  /\ Imported \in Account /\ Imported.exists /\ Imported.password = 0
  BY DEF Registered, NoAccount, Imported, Account, Roles

(* A step of one request.                                                   *)
Others(r) == \A q \in Requests : q # r => req'[q] = req[q]

LEMMA PutFacts ==
  ASSUME req \in [Requests -> Request], NEW r \in Requests, NEW n \in Request,
         req' = [req EXCEPT ![r] = n]
  PROVE  req' \in [Requests -> Request] /\ req'[r] = n /\ Others(r)
  BY DEF Others

LEMMA StopFacts ==
  ASSUME req \in [Requests -> Request], NEW r \in Requests, Stop(r)
  PROVE  req' \in [Requests -> Request] /\ req'[r] = Idle /\ Others(r)
  BY PutFacts, IdleIsRequest DEF Stop

LEMMA GotoFacts ==
  ASSUME req \in [Requests -> Request], NEW r \in Requests, NEW s \in Steps, Goto(r, s)
  PROVE  /\ req' \in [Requests -> Request] /\ Others(r)
         /\ req'[r].step = s /\ req'[r].session = req[r].session /\ req'[r].link = req[r].link
         /\ req'[r].kind = req[r].kind /\ req'[r].secret = req[r].secret /\ req'[r].ok = req[r].ok
  BY DEF Goto, Others, Request

(* A revoked session is what it was, or no longer live.                     *)
LEMMA RevokedFacts ==
  ASSUME NEW row \in Session
  PROVE  /\ Revoked(row) \in Session
         /\ Revoked(row).turn = row.turn /\ Revoked(row).due = row.due /\ Revoked(row).secret = row.secret
         /\ Revoked(row).state # "live"
         /\ Revoked(row).state = "none" <=> row.state = "none"
         /\ row.state = "none" => Revoked(row) = row
  BY DEF Revoked, Session

-----------------------------------------------------------------------------
(* The parts of the invariant, over a step that moves one request.          *)

LEMMA RequestsKept ==
  ASSUME TypeOK, RequestsFit, NEW r \in Requests, Others(r),
         \A s \in Sessions : session[s].state # "none" => session'[s].state # "none",
         minted' \in Nat, minted =< minted', account' \in Account,
         account.verified => account'.verified,
         account'.password = account.password, overtaken' = overtaken,
         RequestFits(r)'
  PROVE  RequestsFit'
<1>1. minted \in Nat /\ \A l \in Links : l \in Nat
  BY Bounds DEF TypeOK, Links
<1>2. ASSUME NEW q \in Requests, q # r PROVE RequestFits(q)'
  <2>1. req'[q] = req[q] /\ RequestFits(q)
    BY <1>2 DEF Others, RequestsFit
  <2>2. account.verified \in BOOLEAN /\ account'.verified \in BOOLEAN
    BY DEF TypeOK, Account
  <2>3. req'[q].step \in {"resetting", "consuming"} => req'[q].link \in Links /\ req'[q].link =< minted'
    <3> SUFFICES ASSUME req[q].step \in {"resetting", "consuming"}
                 PROVE  req[q].link \in Links /\ req[q].link =< minted'
      BY <2>1
    <3>1. req[q].link \in Links /\ req[q].link =< minted
      BY <2>1 DEF RequestFits
    <3>2. req[q].link \in Nat
      BY <1>1, <3>1
    <3> QED
      BY <1>1, <3>1, <3>2
  <2> QED
    BY <2>1, <2>2, <2>3 DEF RequestFits
<1> QED
  BY <1>2 DEF RequestsFit

LEMMA RedemptionsKept ==
  ASSUME TypeOK, Redemptions, NEW r \in Requests, Others(r),
         redeemed' = redeemed, shared \subseteq shared', shared' \subseteq Links,
         \A l \in Links : Spent(l) => Spent(l)' \/ redeemed[l] = 0,
         \A l \in Links \ shared' : Spends(r, l) => Spends(r, l)' \/ Spent(l)',
         \A l \in Links \ shared' : Uses(r, l)' =>
           redeemed[l] = 0 /\ \A q \in Requests \ {r} : ~Uses(q, l)
  PROVE  Redemptions'
<1> SUFFICES ASSUME NEW l \in Links, l \notin shared'
             PROVE  /\ redeemed[l] =< 1
                    /\ redeemed[l] = 1 => Spent(l)' \/ \E q \in Requests : Spends(q, l)'
                    /\ \A q \in Requests : Uses(q, l)' =>
                         redeemed[l] = 0 /\ \A p \in Requests : Uses(p, l)' => p = q
  BY DEF Redemptions
<1>1. l \in Links \ shared
  OBVIOUS
<1>2. \A q \in Requests : q # r => (Uses(q, l)' <=> Uses(q, l)) /\ (Spends(q, l)' <=> Spends(q, l))
  BY DEF Others, Uses, Spends
<1>3. redeemed[l] =< 1
  BY <1>1 DEF Redemptions
<1>4. redeemed[l] = 1 => Spent(l)' \/ \E q \in Requests : Spends(q, l)'
  BY <1>1, <1>2 DEF Redemptions
<1>5. ASSUME NEW q \in Requests, Uses(q, l)'
      PROVE  redeemed[l] = 0 /\ \A p \in Requests : Uses(p, l)' => p = q
  <2>1. CASE q = r
    BY <1>2, <1>5, <2>1
  <2>2. CASE q # r
    <3>1. Uses(q, l)
      BY <1>2, <1>5, <2>2
    <3>2. ~Uses(r, l)'
      BY <2>2, <3>1
    <3> QED
      BY <1>1, <1>2, <2>2, <3>1, <3>2 DEF Redemptions
  <2> QED
    BY <2>1, <2>2
<1> QED
  BY <1>3, <1>4, <1>5

LEMMA DueKept ==
  ASSUME DueArePursued, NEW r \in Requests, Others(r),
         crashes \in Nat, crashes' \in Nat, crashes =< crashes',
         \A s \in Sessions : session'[s].state = "live" /\ session'[s].due =>
           session[s].state = "live" /\ session[s].due,
         Pursues(r) => Pursues(r)' \/ 0 < crashes'
  PROVE  DueArePursued'
<1> SUFFICES ASSUME NEW s \in Sessions, session'[s].state = "live", session'[s].due
             PROVE  0 < crashes' \/ \E q \in Requests : Pursues(q)'
  BY DEF DueArePursued
<1>1. 0 < crashes \/ \E q \in Requests : Pursues(q)
  BY DEF DueArePursued
<1>2. CASE 0 < crashes
  BY <1>2
<1>3. CASE \E q \in Requests : Pursues(q)
  <2>1. PICK q \in Requests : Pursues(q)
    BY <1>3
  <2>2. CASE q = r
    BY <2>1, <2>2
  <2>3. CASE q # r
    BY <2>1, <2>3 DEF Others, Pursues
  <2> QED
    BY <2>2, <2>3
<1> QED
  BY <1>1, <1>2, <1>3

(* A step that writes no table: the request begins, goes on, stops or dies. *)
LEMMA QuietKeepsIInv ==
  ASSUME IInv, NEW r \in Requests, req' \in [Requests -> Request], Others(r), account.exists,
         UNCHANGED <<account, session, link, minted, orders>>,
         UNCHANGED <<exchanges, redeemed, recovered, overtaken>>,
         crashes' \in 0..MaxCrashes, crashes =< crashes',
         shared \subseteq shared', shared' \subseteq Links,
         RequestFits(r)',
         \A l \in Links \ shared' : ~Spends(r, l),
         \A l \in Links \ shared' : Uses(r, l)' =>
           redeemed[l] = 0 /\ \A q \in Requests \ {r} : ~Uses(q, l),
         Pursues(r) => Pursues(r)' \/ 0 < crashes'
  PROVE  IInv'
<1>1. TypeOK'
  BY DEF IInv, TypeOK
<1>2. RequestsFit'
  BY RequestsKept, Bounds DEF IInv, TypeOK
<1>3. RowsFit'
  BY DEF IInv, RowsFit
<1>4. TurnsArePast' /\ PasswordsFit'
  BY DEF IInv, TurnsArePast, PasswordsFit
<1>5. \A l \in Links : Spent(l) <=> Spent(l)'
  BY DEF Spent
<1>6. Redemptions'
  BY <1>5, RedemptionsKept DEF IInv
<1>7. DueArePursued'
  BY DueKept, Bounds DEF IInv, TypeOK
<1> QED
  BY <1>1, <1>2, <1>3, <1>4, <1>6, <1>7 DEF IInv

-----------------------------------------------------------------------------
(* Requests begin.                                                          *)

LEMMA BeginFacts ==
  ASSUME TypeOK, NEW r \in Requests, NEW n \in Request, Begin(r, n)
  PROVE  /\ req' \in [Requests -> Request] /\ Others(r) /\ req'[r] = n
         /\ req[r].step = "idle"
  BY PutFacts DEF Begin, At, TypeOK

LEMMA AskKeepsIInv ==
  ASSUME IInv, NEW r \in Requests, req' \in [Requests -> Request], Others(r), account.exists,
         UNCHANGED <<account, session, link, minted, orders, crashes, history>>,
         req[r].step = "idle", req'[r].step # "resetting", RequestFits(r)'
  PROVE  IInv'
<1>1. UNCHANGED <<exchanges, redeemed, shared, recovered, overtaken>>
  BY DEF history
<1>2. ~Pursues(r) /\ \A l \in Links : ~Spends(r, l) /\ ~Uses(r, l)'
  BY DEF Pursues, Spends, Uses
<1>3. crashes' \in 0..MaxCrashes /\ crashes =< crashes' /\ shared' \subseteq Links
  BY <1>1, Bounds DEF IInv, TypeOK
<1> QED
  BY <1>1, <1>2, <1>3, QuietKeepsIInv

(* The account exists wherever something of it does.                        *)
LEMMA SomethingExists ==
  ASSUME IInv
  PROVE  /\ account.verified \/ (\E l \in Links : link[l].kind # "none") => account.exists
         /\ (\E s \in Sessions : session[s].state # "none") => account.exists
         /\ (\E r \in Requests : req[r].step # "idle") => account.exists
  BY DEF IInv, RowsFit, TypeOK

LEMMA AskingKeepsIInv ==
  ASSUME IInv, NEW r \in Requests,
         Resend(r) \/ ForgotPassword(r) \/ ChangePassword(r)
         \/ (\E a \in Actors : SetStatus(r, a) \/ GrantVerification(r, a)
                               \/ \E role \in NewRoles : SetRole(r, a, role))
  PROVE  IInv'
<1> USE DEF IInv
<1>1. ASSUME NEW n \in Request, Begin(r, n), account.exists,
             UNCHANGED <<account, session, link, minted, orders, crashes, history>>,
             n.step \in {"replacing", "changing", "switching", "granting", "assigning"},
             n.secret = 0
      PROVE  IInv'
  <2>1. req' \in [Requests -> Request] /\ Others(r) /\ req[r].step = "idle" /\ req'[r] = n
    BY <1>1, BeginFacts
  <2>2. RequestFits(r)'
    BY <1>1, <2>1 DEF RequestFits
  <2> QED
    BY <1>1, <2>1, <2>2, AskKeepsIInv
<1>2. CASE Resend(r)
  <2>1. [Idle EXCEPT !.step = "replacing", !.kind = "verify"] \in Request
        /\ [Idle EXCEPT !.step = "replacing", !.kind = "verify"].step = "replacing"
        /\ [Idle EXCEPT !.step = "replacing", !.kind = "verify"].secret = 0
    BY IdleIsRequest DEF Request, Steps
  <2> QED
    BY <1>1, <1>2, <2>1 DEF Resend
<1>3. CASE ForgotPassword(r)
  <2>1. [Idle EXCEPT !.step = "replacing", !.kind = "reset"] \in Request
        /\ [Idle EXCEPT !.step = "replacing", !.kind = "reset"].step = "replacing"
        /\ [Idle EXCEPT !.step = "replacing", !.kind = "reset"].secret = 0
    BY IdleIsRequest DEF Request, Steps
  <2> QED
    BY <1>1, <1>3, <2>1 DEF ForgotPassword
<1>4. CASE ChangePassword(r)
  <2>1. [Idle EXCEPT !.step = "changing"] \in Request
        /\ [Idle EXCEPT !.step = "changing"].step = "changing"
        /\ [Idle EXCEPT !.step = "changing"].secret = 0
    BY IdleIsRequest DEF Request, Steps
  <2> QED
    BY <1>1, <1>4, <2>1 DEF ChangePassword
<1>5. ASSUME NEW a \in Actors, SetStatus(r, a) PROVE IInv'
  <2>1. [Idle EXCEPT !.step = "switching", !.ok = ~account.active] \in Request
        /\ [Idle EXCEPT !.step = "switching", !.ok = ~account.active].step = "switching"
        /\ [Idle EXCEPT !.step = "switching", !.ok = ~account.active].secret = 0
    BY IdleIsRequest DEF Request, Steps
  <2> QED
    BY <1>1, <1>5, <2>1 DEF SetStatus, Target, Reachable
<1>6. ASSUME NEW a \in Actors, GrantVerification(r, a) PROVE IInv'
  <2>1. [Idle EXCEPT !.step = "granting"] \in Request
        /\ [Idle EXCEPT !.step = "granting"].step = "granting"
        /\ [Idle EXCEPT !.step = "granting"].secret = 0
    BY IdleIsRequest DEF Request, Steps
  <2> QED
    BY <1>1, <1>6, <2>1 DEF GrantVerification, Reachable
<1>7. ASSUME NEW a \in Actors, NEW role \in NewRoles, SetRole(r, a, role) PROVE IInv'
  <2>1. [Idle EXCEPT !.step = "assigning", !.role = role] \in Request
        /\ [Idle EXCEPT !.step = "assigning", !.role = role].step = "assigning"
        /\ [Idle EXCEPT !.step = "assigning", !.role = role].secret = 0
    BY IdleIsRequest, RolesAreKnown DEF Request, Steps, Roles
  <2> QED
    BY <1>1, <1>7, <2>1 DEF SetRole, Target, Reachable
<1> QED
  BY <1>2, <1>3, <1>4, <1>5, <1>6, <1>7

LEMMA EndingKeepsIInv ==
  ASSUME IInv, NEW r \in Requests, NEW a \in Actors, NEW s \in {None} \cup Sessions,
         EndSessions(r, a, s)
  PROVE  IInv'
<1>1. s \in 0..MaxSessions
  BY Bounds DEF None, Sessions
<1> DEFINE n == [Idle EXCEPT !.step = "ending", !.session = s]
<1>2. n \in Request /\ n.step = "ending"
  BY <1>1, IdleIsRequest DEF Request, Steps
<1>3. Begin(r, n) /\ account.exists
  BY DEF EndSessions, Target, Reachable
<1> HIDE DEF n
<1>4. req' \in [Requests -> Request] /\ Others(r) /\ req[r].step = "idle" /\ req'[r].step = "ending"
  BY <1>2, <1>3, BeginFacts DEF IInv
<1>5. RequestFits(r)'
  BY <1>4 DEF RequestFits
<1> QED
  BY <1>3, <1>4, <1>5, AskKeepsIInv DEF EndSessions

LEMMA LoginKeepsIInv ==
  ASSUME IInv, NEW r \in Requests, Login(r)
  PROVE  IInv'
<1> DEFINE n == [Idle EXCEPT !.step = IF account.legacy THEN "rehashing" ELSE "opening",
                             !.secret = account.password, !.ok = Admitted]
<1>1. account \in Account /\ account.password \in Nat /\ Admitted \in BOOLEAN
  BY DEF IInv, TypeOK, Account, Admitted
<1>2. /\ n \in Request /\ n.secret = account.password /\ n.ok = Admitted
      /\ n.step = IF account.legacy THEN "rehashing" ELSE "opening"
  BY <1>1, IdleIsRequest DEF Request, Steps
<1>3. Begin(r, n) /\ account.exists /\ (account.legacy \/ Admitted)
  BY DEF Login
<1> HIDE DEF n
<1>4. /\ req' \in [Requests -> Request] /\ Others(r) /\ req[r].step = "idle"
      /\ req'[r].secret = account.password /\ req'[r].ok = Admitted
      /\ req'[r].step = IF account.legacy THEN "rehashing" ELSE "opening"
  BY <1>2, <1>3, BeginFacts DEF IInv
<1>5. Admitted => account.verified
  BY DEF Admitted
<1>6. account' = account
  BY DEF Login
<1>7. RequestFits(r)'
  <2>1. req'[r].step \in {"rehashing", "opening"} /\ (req'[r].step = "opening" => Admitted)
    BY <1>3, <1>4
  <2>2. req'[r].step = "opening" \/ (req'[r].step = "rehashing" /\ req'[r].ok) => account'.verified
    BY <1>4, <1>5, <1>6, <2>1
  <2> QED
    BY <1>4, <1>6, <2>1, <2>2 DEF RequestFits
<1>8. req'[r].step # "resetting"
  BY <1>4
<1> QED
  BY <1>3, <1>4, <1>7, <1>8, AskKeepsIInv DEF Login

LEMMA ReadingKeepsIInv ==
  ASSUME IInv, NEW r \in Requests, NEW s \in Sessions, ReadSession(r, s) \/ Logout(r, s)
  PROVE  IInv'
<1> USE DEF IInv
<1>1. session[s].state # "none" /\ session[s].turn \in Nat /\ s \in 0..MaxSessions
  BY Bounds DEF TypeOK, Session, Sessions, ReadSession, Logout
<1>2. account.exists
  BY <1>1, SomethingExists
<1>3. ASSUME NEW n \in Request, Begin(r, n), n.session = s, n.step \in {"reading holder", "revoking"},
             UNCHANGED <<account, session, link, minted, orders, crashes, history>>
      PROVE  IInv'
  <2>1. /\ req' \in [Requests -> Request] /\ Others(r) /\ req[r].step = "idle"
        /\ req'[r].session = s /\ req'[r].step \in {"reading holder", "revoking"}
    BY <1>3, BeginFacts
  <2>2. session'[s].state # "none"
    BY <1>1, <1>3
  <2>3. RequestFits(r)'
    BY <2>1, <2>2 DEF RequestFits
  <2> QED
    BY <1>2, <1>3, <2>1, <2>3, AskKeepsIInv
<1>4. CASE ReadSession(r, s)
  <2> DEFINE n == [Idle EXCEPT !.step = "reading holder", !.session = s, !.turn = session[s].turn]
  <2>1. n \in Request /\ n.session = s /\ n.step = "reading holder"
    BY <1>1, IdleIsRequest DEF Request, Steps
  <2>2. Begin(r, n)
    BY <1>4 DEF ReadSession
  <2> QED
    BY <1>3, <1>4, <2>1, <2>2 DEF ReadSession
<1>5. CASE Logout(r, s)
  <2> DEFINE n == [Idle EXCEPT !.step = "revoking", !.session = s]
  <2>1. n \in Request /\ n.session = s /\ n.step = "revoking"
    BY <1>1, IdleIsRequest DEF Request, Steps
  <2>2. Begin(r, n)
    BY <1>5 DEF Logout
  <2> QED
    BY <1>3, <1>5, <2>1, <2>2 DEF Logout
<1> QED
  BY <1>4, <1>5

(* A link that was mailed is one of those numbered so far.                  *)
LEMMA MintedLink ==
  ASSUME IInv, NEW l \in Links, link[l].kind # "none"
  PROVE  l =< minted /\ l \in 0..MaxLinks /\ account.exists
<1>1. l \in Nat /\ l \in 0..MaxLinks /\ minted \in Nat /\ ~(minted < l)
  BY Bounds DEF IInv, TypeOK, Links, RowsFit
<1> QED
  BY <1>1, SomethingExists

LEMMA OpenVerificationKeepsIInv ==
  ASSUME IInv, NEW r \in Requests, NEW l \in Links, OpenVerification(r, l)
  PROVE  IInv'
<1>1. link[l].kind # "none"
  BY DEF OpenVerification, Redeemable
<1>2. l =< minted /\ l \in 0..MaxLinks /\ account.exists
  BY <1>1, MintedLink
<1> DEFINE n == [Idle EXCEPT !.step = "consuming", !.kind = "verify", !.link = l]
<1>3. n \in Request /\ n.step = "consuming" /\ n.link = l /\ n.secret = 0
  BY <1>2, IdleIsRequest DEF Request, Steps
<1>4. Begin(r, n)
  BY DEF OpenVerification
<1> HIDE DEF n
<1>5. /\ req' \in [Requests -> Request] /\ Others(r) /\ req[r].step = "idle"
      /\ req'[r].step = "consuming" /\ req'[r].link = l /\ req'[r].secret = 0
  BY <1>3, <1>4, BeginFacts DEF IInv
<1>6. account'.password \in Nat /\ minted' = minted
  BY DEF OpenVerification, IInv, TypeOK, Account
<1>7. RequestFits(r)'
  BY <1>2, <1>5, <1>6 DEF RequestFits
<1> QED
  BY <1>2, <1>5, <1>7, AskKeepsIInv DEF OpenVerification

LEMMA OpenResetKeepsIInv ==
  ASSUME IInv, NEW r \in Requests, NEW l \in Links, OpenReset(r, l)
  PROVE  IInv'
<1>1. link[l].kind # "none" /\ ~link[l].used
  BY DEF OpenReset, Redeemable
<1>2. l =< minted /\ l \in 0..MaxLinks /\ account.exists
  BY <1>1, MintedLink
<1> DEFINE n == [Idle EXCEPT !.step = "resetting", !.link = l]
<1>3. n \in Request /\ n.step = "resetting" /\ n.link = l /\ n.kind = "reset"
  BY <1>2, IdleIsRequest DEF Request, Steps
<1>4. Begin(r, n)
  BY DEF OpenReset
<1> HIDE DEF n
<1>5. /\ req' \in [Requests -> Request] /\ Others(r) /\ req[r].step = "idle"
      /\ req'[r].step = "resetting" /\ req'[r].link = l /\ req'[r].kind = "reset"
  BY <1>3, <1>4, BeginFacts DEF IInv
<1>6. minted' = minted
  BY DEF OpenReset
<1>7. RequestFits(r)'
  BY <1>2, <1>5, <1>6 DEF RequestFits
<1>8. shared \subseteq shared' /\ shared' \subseteq Links
  BY DEF OpenReset, IInv, TypeOK
<1>9. ASSUME NEW k \in Links \ shared', Uses(r, k)'
      PROVE  redeemed[k] = 0 /\ \A q \in Requests \ {r} : ~Uses(q, k)
  <2>1. k = l /\ Holders(l) = {}
    BY <1>5, <1>9 DEF Uses, OpenReset
  <2>2. \A q \in Requests : ~Uses(q, l) /\ ~Spends(q, l)
    BY <2>1 DEF Holders, Uses, Spends
  <2>3. ~Spent(l) /\ redeemed[l] \in Nat
    BY <1>1 DEF Spent, IInv, TypeOK
  <2>4. redeemed[l] =< 1 /\ redeemed[l] # 1
    BY <1>8, <1>9, <2>1, <2>2, <2>3 DEF IInv, Redemptions
  <2> QED
    BY <2>1, <2>2, <2>3, <2>4
<1>10. (\A k \in Links \ shared' : ~Spends(r, k)) /\ ~Pursues(r)
  BY <1>5 DEF Spends, Pursues
<1>11. crashes' \in 0..MaxCrashes /\ crashes =< crashes'
  BY Bounds DEF OpenReset, IInv, TypeOK
<1> QED
  BY <1>2, <1>5, <1>7, <1>8, <1>9, <1>10, <1>11, QuietKeepsIInv DEF OpenReset

LEMMA RegisterKeepsIInv ==
  ASSUME IInv, NEW r \in Requests, Register(r)
  PROVE  IInv'
<1> DEFINE n == [Idle EXCEPT !.step = "creating", !.kind = "verify"]
<1>1. n \in Request /\ n.step = "creating"
  BY IdleIsRequest DEF Request, Steps
<1>2. Begin(r, n) /\ UNCHANGED <<session, link, minted, orders, crashes>>
      /\ UNCHANGED <<exchanges, redeemed, shared, recovered, overtaken>>
  BY DEF Register, history
<1> HIDE DEF n
<1>3. /\ req' \in [Requests -> Request] /\ Others(r) /\ req'[r].step = "creating"
  BY <1>1, <1>2, BeginFacts DEF IInv
<1>4. /\ ~account.verified /\ \A q \in Requests : req[q].step = "idle"
      /\ \A s \in Sessions : session[s].state = "none"
  BY DEF Register, IInv, RowsFit, TypeOK
<1>5. \A q \in Requests : req'[q].step \in {"idle", "creating"}
  BY <1>3, <1>4 DEF Others
<1>6. /\ account' \in Account /\ account'.exists /\ ~account'.verified /\ account'.password = 0
  BY RegisteredIsAccount DEF Register
<1>7. TypeOK'
  BY <1>2, <1>3, <1>4, <1>6 DEF IInv, TypeOK
<1>8. RequestsFit'
  BY <1>5 DEF RequestsFit, RequestFits
<1>9. RowsFit'
  BY <1>2, <1>6 DEF IInv, RowsFit
<1>10. TurnsArePast'
  BY <1>2 DEF IInv, TurnsArePast
<1>11. \A l \in Links : /\ Spent(l)' <=> Spent(l)
                        /\ \A q \in Requests : ~Spends(q, l) /\ ~Uses(q, l)'
  BY <1>2, <1>4, <1>5 DEF Spent, Spends, Uses
<1>12. Redemptions'
  BY <1>2, <1>11 DEF IInv, Redemptions
<1>13. DueArePursued'
  BY <1>2, <1>4 DEF DueArePursued
<1>14. PasswordsFit'
  <2>1. orders \in Nat /\ (~overtaken => recovered =< 0)
    BY DEF Register, IInv, TypeOK, RowsFit, PasswordsFit
  <2> QED
    BY <1>2, <1>4, <1>6, <2>1 DEF PasswordsFit
<1> QED
  BY <1>7, <1>8, <1>9, <1>10, <1>12, <1>13, <1>14 DEF IInv

-----------------------------------------------------------------------------
(* The links.                                                               *)

LEMMA LinksKeepIInv ==
  ASSUME IInv, req' \in [Requests -> Request], account.exists,
         UNCHANGED <<account, session, orders, crashes, history>>,
         link' \in [Links -> Link], minted' \in 0..MaxLinks, minted =< minted',
         \A l \in Links : minted' < l => link'[l].kind = "none",
         RequestsFit', Redemptions', DueArePursued'
  PROVE  IInv'
<1>1. UNCHANGED <<exchanges, redeemed, shared, recovered, overtaken>>
  BY DEF history
<1>2. TypeOK'
  BY <1>1 DEF IInv, TypeOK
<1>3. RowsFit'
  <2>1. ASSUME NEW l \in Links, minted' < l PROVE redeemed'[l] = 0
    <3>1. l \in Nat /\ minted \in Nat /\ minted' \in Nat
      BY Bounds DEF Links, IInv, TypeOK
    <3>2. minted < l
      BY <2>1, <3>1
    <3> QED
      BY <1>1, <3>2 DEF IInv, RowsFit
  <2> QED
    BY <2>1 DEF IInv, RowsFit
<1>4. TurnsArePast' /\ PasswordsFit'
  BY <1>1 DEF IInv, TurnsArePast, PasswordsFit
<1> QED
  BY <1>2, <1>3, <1>4 DEF IInv

LEMMA DeleteLinksKeepsIInv ==
  ASSUME IInv, NEW r \in Requests, DeleteLinks(r)
  PROVE  IInv'
<1>1. /\ req' \in [Requests -> Request] /\ Others(r) /\ req[r].step = "replacing"
      /\ req'[r].step = "creating"
  BY GotoFacts DEF DeleteLinks, At, IInv, TypeOK, Steps
<1>2. UNCHANGED <<account, session, minted, orders, crashes, history>> /\ account.exists
  BY <1>1, SomethingExists DEF DeleteLinks
<1>3. UNCHANGED <<exchanges, redeemed, shared, recovered, overtaken>>
  BY <1>2 DEF history
<1>4. link' \in [Links -> Link] /\ \A l \in Links : link'[l] \in {NoLink, link[l]}
  BY NoLinkIsLink DEF DeleteLinks, IInv, TypeOK
<1>5. \A l \in Links : Spent(l) => Spent(l)'
  BY <1>4, NoLinkIsLink DEF Spent
<1>6. RequestsFit'
  <2>1. RequestFits(r)'
    BY <1>1 DEF RequestFits
  <2> QED
    BY <1>1, <1>2, <1>3, <2>1, RequestsKept, Bounds DEF IInv, TypeOK
<1>7. Redemptions'
  <2>1. \A l \in Links : ~Spends(r, l) /\ ~Uses(r, l)'
    BY <1>1 DEF Spends, Uses
  <2> QED
    BY <1>1, <1>3, <1>5, <2>1, RedemptionsKept DEF IInv, TypeOK
<1>8. DueArePursued'
  <2>1. ~Pursues(r) /\ crashes \in Nat
    BY <1>1, Bounds DEF Pursues, IInv, TypeOK
  <2> QED
    BY <1>1, <1>2, <2>1, DueKept DEF IInv
<1>9. \A l \in Links : minted' < l => link'[l].kind = "none"
  BY <1>2, <1>4, NoLinkIsLink DEF IInv, RowsFit
<1>10. minted' \in 0..MaxLinks /\ minted =< minted'
  BY <1>2, Bounds DEF IInv, TypeOK
<1> QED
  BY <1>1, <1>2, <1>4, <1>6, <1>7, <1>8, <1>9, <1>10, LinksKeepIInv

LEMMA CreateLinkKeepsIInv ==
  ASSUME IInv, NEW r \in Requests, CreateLink(r)
  PROVE  IInv'
<1>1. /\ req' \in [Requests -> Request] /\ Others(r) /\ req[r].step = "creating"
      /\ req'[r].step = "idle"
  BY StopFacts, IdleIsRequest DEF CreateLink, At, IInv, TypeOK
<1>2. UNCHANGED <<account, session, orders, crashes, history>> /\ account.exists
  BY <1>1, SomethingExists DEF CreateLink
<1>3. UNCHANGED <<exchanges, redeemed, shared, recovered, overtaken>>
  BY <1>2 DEF history
<1>4. minted \in Nat /\ minted' = minted + 1 /\ minted' \in 0..MaxLinks /\ minted' \in Links
  BY Bounds DEF CreateLink, IInv, TypeOK, Links
<1> DEFINE new == [NoLink EXCEPT !.kind = req[r].kind]
<1>5. new \in Link
  BY NoLinkIsLink DEF Link, Request, IInv, TypeOK
<1>6. link' = [link EXCEPT ![minted'] = new]
  BY DEF CreateLink
<1>7. link' \in [Links -> Link] /\ \A l \in Links : l # minted' => link'[l] = link[l]
  BY <1>4, <1>5, <1>6 DEF IInv, TypeOK
<1>8. \A l \in Links : Spent(l) => Spent(l)' \/ redeemed[l] = 0
  BY <1>4, <1>7 DEF Spent, IInv, RowsFit
<1>9. RequestsFit'
  <2>1. RequestFits(r)'
    BY <1>1 DEF RequestFits
  <2> QED
    BY <1>1, <1>2, <1>3, <1>4, <2>1, RequestsKept DEF IInv, TypeOK
<1>10. Redemptions'
  <2>1. \A l \in Links : ~Spends(r, l) /\ ~Uses(r, l)'
    BY <1>1 DEF Spends, Uses
  <2> QED
    BY <1>1, <1>3, <1>8, <2>1, RedemptionsKept DEF IInv, TypeOK
<1>11. DueArePursued'
  <2>1. ~Pursues(r) /\ crashes \in Nat
    BY <1>1, Bounds DEF Pursues, IInv, TypeOK
  <2> QED
    BY <1>1, <1>2, <2>1, DueKept DEF IInv
<1>12. ASSUME NEW l \in Links, minted' < l PROVE link'[l].kind = "none"
  <2>1. l \in Nat /\ l # minted' /\ minted < l
    BY <1>4, <1>12 DEF Links
  <2> QED
    BY <1>7, <2>1 DEF IInv, RowsFit
<1> QED
  BY <1>1, <1>2, <1>4, <1>7, <1>9, <1>10, <1>11, <1>12, LinksKeepIInv

LEMMA ConsumeLinkKeepsIInv ==
  ASSUME IInv, NEW r \in Requests, ConsumeLink(r)
  PROVE  IInv'
<1>1. PICK k \in Links : k = req[r].link
  BY DEF ConsumeLink, At, IInv, RequestsFit, RequestFits
<1>2. req[r].kind = "verify" => Goto(r, "verifying")
  BY DEF ConsumeLink
<1>3. /\ req' \in [Requests -> Request] /\ Others(r) /\ req[r].step = "consuming"
      /\ req'[r].step \in {"verifying", "revoking all"}
      /\ req[r].kind = "reset" => req'[r].step = "revoking all"
      /\ req'[r].secret = req[r].secret
  <2>1. req[r].step = "consuming" /\ req[r].kind \in {"reset", "verify"}
    BY DEF ConsumeLink, At, IInv, TypeOK, Request
  <2>2. CASE req[r].kind = "verify"
    BY <1>2, <2>1, <2>2, GotoFacts DEF IInv, TypeOK, Steps
  <2>3. CASE req[r].kind = "reset"
    <3>1. Goto(r, "revoking all")
      BY <2>3 DEF ConsumeLink
    <3> QED
      BY <2>1, <2>3, <3>1, GotoFacts DEF IInv, TypeOK, Steps
  <2> QED
    BY <2>1, <2>2, <2>3
<1>4. UNCHANGED <<account, session, minted, orders, crashes, history>> /\ account.exists
  BY <1>3, SomethingExists DEF ConsumeLink
<1>5. UNCHANGED <<exchanges, redeemed, shared, recovered, overtaken>>
  BY <1>4 DEF history
<1>6. /\ Consumed(link[k]) \in Link
      /\ Consumed(link[k]).kind = link[k].kind
      /\ Consumed(link[k]).kind = "none" \/ Consumed(link[k]).used
  BY DEF Consumed, Link, IInv, TypeOK
<1>7. link' = [link EXCEPT ![k] = Consumed(link[k])]
  BY <1>1 DEF ConsumeLink
<1>8. /\ link' \in [Links -> Link] /\ \A l \in Links : link'[l].kind = link[l].kind
      /\ \A l \in Links : l # k => link'[l] = link[l]
  BY <1>6, <1>7 DEF IInv, TypeOK
<1>9. Spent(k)' /\ \A l \in Links : Spent(l) => Spent(l)'
  BY <1>6, <1>7, <1>8 DEF Spent, IInv, TypeOK
<1>10. RequestsFit'
  <2>1. RequestFits(r)
    BY DEF IInv, RequestsFit
  <2>2. RequestFits(r)'
    BY <1>3, <1>4, <1>5, <2>1 DEF RequestFits
  <2>3. minted' \in Nat /\ minted =< minted' /\ account' \in Account
    BY <1>4, Bounds DEF IInv, TypeOK
  <2> QED
    BY <1>3, <1>4, <1>5, <2>2, <2>3, RequestsKept DEF IInv
<1>11. Redemptions'
  <2>1. \A l \in Links : (Spends(r, l) => Spent(l)') /\ ~Uses(r, l)'
    BY <1>1, <1>3, <1>9 DEF Spends, Uses
  <2> QED
    BY <1>3, <1>5, <1>9, <2>1, RedemptionsKept DEF IInv, TypeOK
<1>12. DueArePursued'
  <2>1. Pursues(r) => Pursues(r)'
    BY <1>3 DEF Pursues
  <2>2. crashes \in Nat /\ crashes' \in Nat /\ crashes =< crashes'
    BY <1>4, Bounds DEF IInv, TypeOK
  <2> QED
    BY <1>3, <1>4, <2>1, <2>2, DueKept DEF IInv
<1>13. \A l \in Links : minted' < l => link'[l].kind = "none"
  BY <1>4, <1>8 DEF IInv, RowsFit
<1>14. minted' \in 0..MaxLinks /\ minted =< minted'
  BY <1>4, Bounds DEF IInv, TypeOK
<1> QED
  BY <1>3, <1>4, <1>8, <1>10, <1>11, <1>12, <1>13, <1>14, LinksKeepIInv

LEMMA AgeLinkKeepsIInv ==
  ASSUME IInv, NEW l \in Links, AgeLink(l)
  PROVE  IInv'
<1>1. UNCHANGED <<account, session, minted, req, orders, crashes, history>> /\ account.exists
  BY SomethingExists DEF AgeLink
<1>2. UNCHANGED <<exchanges, redeemed, shared, recovered, overtaken>>
  BY <1>1 DEF history
<1>3. link' \in [Links -> Link] /\ \A k \in Links : link'[k].kind = link[k].kind
                                                  /\ link'[k].used = link[k].used
  BY DEF AgeLink, IInv, TypeOK, Link
<1>4. RequestsFit'
  BY <1>1, <1>2 DEF IInv, RequestsFit, RequestFits
<1>5. Redemptions'
  BY <1>1, <1>2, <1>3 DEF IInv, Redemptions, Spent, Spends, Uses
<1>6. DueArePursued'
  BY <1>1 DEF IInv, DueArePursued, Pursues
<1>7. \A k \in Links : minted' < k => link'[k].kind = "none"
  BY <1>1, <1>3 DEF IInv, RowsFit
<1>8. req' \in [Requests -> Request] /\ minted' \in 0..MaxLinks /\ minted =< minted'
  BY <1>1, Bounds DEF IInv, TypeOK
<1> QED
  BY <1>1, <1>3, <1>4, <1>5, <1>6, <1>7, <1>8, LinksKeepIInv

-----------------------------------------------------------------------------
(* The sessions.                                                            *)

(* Requests stop; none of them was about to consume a link.                 *)
MayStop == \A q \in Requests : req'[q] = req[q] \/ (req'[q] = Idle /\ req[q].step # "consuming")

LEMMA StoppedRedemptions ==
  ASSUME Redemptions, MayStop, UNCHANGED <<link, redeemed, shared>>
  PROVE  Redemptions'
<1> SUFFICES ASSUME NEW l \in Links, l \notin shared
             PROVE  /\ redeemed[l] =< 1
                    /\ redeemed[l] = 1 => Spent(l)' \/ \E q \in Requests : Spends(q, l)'
                    /\ \A q \in Requests : Uses(q, l)' =>
                         redeemed[l] = 0 /\ \A p \in Requests : Uses(p, l)' => p = q
  BY DEF Redemptions
<1>1. \A q \in Requests : /\ Spends(q, l) => Spends(q, l)'
                          /\ Uses(q, l)' => Uses(q, l)
  BY IdleIsRequest DEF MayStop, Spends, Uses
<1>2. Spent(l)' <=> Spent(l)
  BY DEF Spent
<1> QED
  BY <1>1, <1>2 DEF Redemptions

LEMMA SessionsKeepIInv ==
  ASSUME IInv, req' \in [Requests -> Request], MayStop, account.exists,
         UNCHANGED <<account, link, minted, orders, crashes, redeemed, shared, overtaken>>,
         session' \in [Sessions -> Session], recovered' \in Nat,
         \A s \in Sessions : /\ session'[s].state # "none" => account.verified
                             /\ session'[s].state = "none" => session'[s].turn = 0
                             /\ session[s].state # "none" => session'[s].state # "none",
         exchanges' \subseteq Sessions \X Nat \X Nat, TurnsArePast', DueArePursued',
         ~overtaken => /\ recovered' =< account.password
                       /\ \A s \in Sessions : session'[s].state = "live" => recovered' =< session'[s].secret
  PROVE  IInv'
<1>1. TypeOK'
  BY DEF IInv, TypeOK
<1>2. ASSUME NEW q \in Requests PROVE RequestFits(q)'
  <2>1. CASE req'[q] = req[q]
    <3>1. RequestFits(q)
      BY DEF IInv, RequestsFit
    <3> QED
      BY <2>1, <3>1 DEF RequestFits
  <2>2. CASE req'[q] = Idle
    BY <2>2, IdleIsRequest DEF RequestFits
  <2> QED
    BY <2>1, <2>2 DEF MayStop
<1>3. RequestsFit'
  BY <1>2 DEF RequestsFit
<1>4. RowsFit'
  BY DEF IInv, RowsFit
<1>5. Redemptions'
  BY StoppedRedemptions DEF IInv
<1>6. PasswordsFit'
  BY DEF IInv, PasswordsFit
<1> QED
  BY <1>1, <1>3, <1>4, <1>5, <1>6 DEF IInv

(* A request that pursued nothing stops.                                    *)
LEMMA StoppedFacts ==
  ASSUME IInv, NEW r \in Requests, Stop(r), req[r].step # "idle", req[r].step # "consuming"
  PROVE  /\ req' \in [Requests -> Request] /\ MayStop /\ account.exists
         /\ req[r].step # "revoking all" => ~Pursues(r)
         /\ Others(r)
  BY StopFacts, SomethingExists DEF IInv, TypeOK, Others, MayStop, Pursues

LEMMA StoppedDue ==
  ASSUME IInv, NEW r \in Requests, Others(r), ~Pursues(r), crashes' = crashes,
         \A s \in Sessions : session'[s].state = "live" /\ session'[s].due =>
           session[s].state = "live" /\ session[s].due
  PROVE  DueArePursued'
<1>1. crashes \in Nat
  BY Bounds DEF IInv, TypeOK
<1> QED
  BY <1>1, DueKept DEF IInv

(* One session is written.                                                  *)
LEMMA OneSessionFacts ==
  ASSUME IInv, NEW s \in Sessions, NEW n \in Session, session' = [session EXCEPT ![s] = n]
  PROVE  /\ session' \in [Sessions -> Session] /\ session'[s] = n
         /\ \A t \in Sessions : t # s => session'[t] = session[t]
  BY DEF IInv, TypeOK

LEMMA RotatedFacts ==
  ASSUME NEW row \in Session
  PROVE  /\ Rotated(row) \in Session /\ Rotated(row).state = row.state
         /\ Rotated(row).turn = row.turn + 1
         /\ Rotated(row).secret = row.secret /\ Rotated(row).due = row.due
<1>1. row.turn + 1 \in Nat
  BY DEF Session
<1>2. Rotated(row) = [[row EXCEPT !.turn = row.turn + 1] EXCEPT !.lapsed = FALSE]
  BY DEF Rotated, Session
<1> QED
  BY <1>1, <1>2 DEF Session

LEMMA RotateKeepsIInv ==
  ASSUME IInv, NEW r \in Requests, RotateSession(r)
  PROVE  IInv'
<1>1. PICK s \in Sessions : s = req[r].session /\ session[s].state # "none"
  BY DEF RotateSession, At, IInv, RequestsFit, RequestFits
<1>2. /\ req' \in [Requests -> Request] /\ MayStop /\ account.exists /\ Others(r) /\ ~Pursues(r)
  BY StoppedFacts DEF RotateSession, At
<1>3. /\ UNCHANGED <<account, link, minted, orders, crashes, redeemed, shared, overtaken>>
      /\ recovered' = recovered
  BY DEF RotateSession
<1>4. session[s] \in Session /\ session[s].turn \in Nat /\ account.verified
  BY <1>1 DEF IInv, TypeOK, Session
<1>5. CASE Swappable(r)
  <2> DEFINE n == Rotated(session[s])
  <2>1. /\ n \in Session /\ n.state = session[s].state /\ n.turn = session[s].turn + 1
        /\ n.secret = session[s].secret /\ n.due = session[s].due
    BY <1>4, RotatedFacts
  <2>2. session' = [session EXCEPT ![s] = n]
    BY <1>1, <1>5 DEF RotateSession
  <2>3. exchanges' = exchanges \cup {<<s, session[s].turn, session'[s].turn>>}
    BY <1>1, <1>5 DEF RotateSession, Swappable
  <2> HIDE DEF n
  <2>4. /\ session' \in [Sessions -> Session] /\ session'[s] = n
        /\ \A t \in Sessions : t # s => session'[t] = session[t]
    BY <2>1, <2>2, OneSessionFacts
  <2>5. /\ \A t \in Sessions : /\ session'[t].state = session[t].state
                               /\ session'[t].secret = session[t].secret
                               /\ session'[t].due = session[t].due
    BY <2>1, <2>4
  <2>6. \A t \in Sessions : session'[t].state = "none" => session'[t].turn = 0
    BY <1>1, <2>4, <2>5 DEF IInv, RowsFit
  <2>7. exchanges' \subseteq Sessions \X Nat \X Nat
    BY <1>4, <2>1, <2>3, <2>4 DEF IInv, TypeOK
  <2>8. ASSUME NEW x \in exchanges' PROVE x[2] < session'[x[1]].turn /\ x[3] = x[2] + 1
    <3>1. CASE x \in exchanges
      <4>1. x[1] \in Sessions /\ x[2] \in Nat /\ x[2] < session[x[1]].turn /\ x[3] = x[2] + 1
        BY <3>1 DEF IInv, TypeOK, TurnsArePast
      <4>2. CASE x[1] = s
        BY <1>4, <2>1, <2>4, <4>1, <4>2
      <4>3. CASE x[1] # s
        BY <2>4, <4>1, <4>3
      <4> QED
        BY <4>2, <4>3
    <3>2. CASE x = <<s, session[s].turn, session'[s].turn>>
      BY <1>4, <2>1, <2>4, <3>2
    <3> QED
      BY <2>3, <3>1, <3>2
  <2>9. TurnsArePast'
    BY <2>8 DEF TurnsArePast
  <2>10. DueArePursued'
    BY <1>2, <1>3, <2>5, StoppedDue
  <2>11. recovered' \in Nat
         /\ (~overtaken =>
               /\ recovered' =< account.password
               /\ \A t \in Sessions : session'[t].state = "live" => recovered' =< session'[t].secret)
    BY <1>3, <2>5 DEF IInv, TypeOK, PasswordsFit
  <2>12. \A t \in Sessions : session'[t].state # "none" => account.verified
    BY <1>4
  <2> QED
    BY <1>2, <1>3, <2>4, <2>5, <2>6, <2>7, <2>9, <2>10, <2>11, <2>12, SessionsKeepIInv
<1>6. CASE ~Swappable(r)
  <2>1. UNCHANGED <<session, exchanges>>
    BY <1>1, <1>6 DEF RotateSession
  <2>2. DueArePursued'
    BY <1>2, <1>3, <2>1, StoppedDue
  <2>3. TurnsArePast'
    BY <2>1 DEF IInv, TurnsArePast
  <2> QED
    BY <1>2, <1>3, <1>4, <2>1, <2>2, <2>3, SessionsKeepIInv DEF IInv, TypeOK, RowsFit, PasswordsFit
<1> QED
  BY <1>5, <1>6

(* No turn goes back where no session does.                                 *)
LEMMA TurnsKept ==
  ASSUME IInv, exchanges' = exchanges,
         \A s \in Sessions : session[s].state # "none" => session'[s].turn = session[s].turn
  PROVE  TurnsArePast'
<1> SUFFICES ASSUME NEW x \in exchanges PROVE x[2] < session'[x[1]].turn /\ x[3] = x[2] + 1
  BY DEF TurnsArePast
<1>1. x[1] \in Sessions /\ x[2] \in Nat /\ x[2] < session[x[1]].turn /\ x[3] = x[2] + 1
  BY DEF IInv, TypeOK, TurnsArePast
<1>2. session[x[1]].state # "none"
  <2> SUFFICES ASSUME session[x[1]].state = "none" PROVE FALSE
    OBVIOUS
  <2>1. session[x[1]].turn = 0
    BY <1>1 DEF IInv, RowsFit
  <2> QED
    BY <1>1, <2>1
<1> QED
  BY <1>1, <1>2

LEMMA OpenSessionKeepsIInv ==
  ASSUME IInv, NEW r \in Requests, OpenSession(r)
  PROVE  IInv'
<1>1. /\ UNCHANGED <<account, link, minted, orders, crashes, history>>
      /\ UNCHANGED <<exchanges, redeemed, shared, recovered, overtaken>>
  BY DEF OpenSession, history
<1>2. /\ req' \in [Requests -> Request] /\ MayStop /\ account.exists /\ Others(r) /\ ~Pursues(r)
  BY StoppedFacts DEF OpenSession, At
<1>3. /\ req[r].step = "opening" /\ account.verified /\ req[r].secret \in Nat
      /\ (~overtaken => req[r].secret = account.password)
  BY DEF OpenSession, At, IInv, TypeOK, Request, RequestsFit, RequestFits
<1>4. PICK s \in Sessions : /\ session[s].state = "none"
                             /\ session' = [session EXCEPT ![s] = Opened(req[r].secret)]
  BY DEF OpenSession
<1> DEFINE n == Opened(req[r].secret)
<1>5. n \in Session /\ n.state = "live" /\ n.secret = req[r].secret /\ n.due = FALSE
  BY <1>3, NoSessionIsSession DEF Opened, Session, NoSession
<1>6. session' = [session EXCEPT ![s] = n]
  BY <1>4
<1> HIDE DEF n
<1>7. /\ session' \in [Sessions -> Session] /\ session'[s] = n
      /\ \A t \in Sessions : t # s => session'[t] = session[t]
  BY <1>5, <1>6, OneSessionFacts
<1>8. \A t \in Sessions : /\ session'[t].state # "none" => account.verified
                          /\ session'[t].state = "none" => session'[t].turn = 0
                          /\ session[t].state # "none" => session'[t].state # "none"
  BY <1>3, <1>5, <1>7 DEF IInv, RowsFit
<1>9. TurnsArePast'
  BY <1>1, <1>4, <1>7, TurnsKept
<1>10. DueArePursued'
  BY <1>1, <1>2, <1>5, <1>7, StoppedDue
<1>11. recovered' \in Nat /\ exchanges' \subseteq Sessions \X Nat \X Nat
  BY <1>1 DEF IInv, TypeOK
<1>12. ~overtaken => /\ recovered' =< account.password
                     /\ \A t \in Sessions : session'[t].state = "live" => recovered' =< session'[t].secret
  BY <1>1, <1>3, <1>5, <1>7 DEF IInv, PasswordsFit
<1> QED
  BY <1>1, <1>2, <1>7, <1>8, <1>9, <1>10, <1>11, <1>12, SessionsKeepIInv

(* Sessions are only ended, or expire.                                      *)
LEMMA EndedKeepIInv ==
  ASSUME IInv, req' \in [Requests -> Request], MayStop, account.exists,
         UNCHANGED <<account, link, minted, orders, crashes, exchanges, redeemed, shared, overtaken>>,
         session' \in [Sessions -> Session], recovered' \in Nat,
         \A s \in Sessions : /\ session[s].state = "none" => session'[s] = session[s]
                             /\ session[s].state # "none" =>
                                  /\ session'[s].state # "none" /\ session'[s].turn = session[s].turn
                                  /\ session'[s].secret = session[s].secret
                             /\ session'[s].state = "live" => session[s].state = "live",
         DueArePursued',
         \/ recovered' = recovered
         \/ /\ ~overtaken => recovered' =< account.password
            /\ \A s \in Sessions : session'[s].state # "live"
  PROVE  IInv'
<1>1. TurnsArePast'
  BY TurnsKept
<1>2. exchanges' \subseteq Sessions \X Nat \X Nat
  BY DEF IInv, TypeOK
<1>3. \A s \in Sessions : /\ session'[s].state # "none" => account.verified
                          /\ session'[s].state = "none" => session'[s].turn = 0
                          /\ session[s].state # "none" => session'[s].state # "none"
  BY DEF IInv, TypeOK, RowsFit
<1>4. ~overtaken => /\ recovered' =< account.password
                    /\ \A s \in Sessions : session'[s].state = "live" => recovered' =< session'[s].secret
  BY DEF IInv, PasswordsFit
<1> QED
  BY <1>1, <1>2, <1>3, <1>4, SessionsKeepIInv

LEMMA RevokeSessionKeepsIInv ==
  ASSUME IInv, NEW r \in Requests, RevokeSession(r)
  PROVE  IInv'
<1>1. /\ UNCHANGED <<account, link, minted, orders, crashes>>
      /\ UNCHANGED <<exchanges, redeemed, shared, recovered, overtaken>>
  BY DEF RevokeSession, history
<1>2. /\ req' \in [Requests -> Request] /\ MayStop /\ account.exists /\ Others(r) /\ ~Pursues(r)
  BY StoppedFacts DEF RevokeSession, At
<1>3. PICK s \in Sessions : s = req[r].session /\ session[s].state # "none"
  BY DEF RevokeSession, At, IInv, RequestsFit, RequestFits
<1>4. session[s] \in Session
  BY DEF IInv, TypeOK
<1> DEFINE n == [session[s] EXCEPT !.state = "revoked"]
<1>5. n \in Session /\ n.state = "revoked" /\ n.turn = session[s].turn /\ n.secret = session[s].secret
  BY <1>4 DEF Session
<1>6. session' = [session EXCEPT ![s] = n]
  BY <1>3 DEF RevokeSession
<1> HIDE DEF n
<1>7. /\ session' \in [Sessions -> Session] /\ session'[s] = n
      /\ \A t \in Sessions : t # s => session'[t] = session[t]
  BY <1>5, <1>6, OneSessionFacts
<1>8. DueArePursued'
  BY <1>1, <1>2, <1>5, <1>7, StoppedDue
<1>9. recovered' \in Nat
  BY <1>1 DEF IInv, TypeOK
<1> QED
  BY <1>1, <1>2, <1>3, <1>5, <1>7, <1>8, <1>9, EndedKeepIInv

LEMMA EndedFacts ==
  ASSUME IInv, session' = Ended
  PROVE  /\ session' \in [Sessions -> Session]
         /\ \A s \in Sessions : session'[s] = Revoked(session[s]) /\ session[s] \in Session
         /\ \A s \in Sessions : session'[s].state # "live"
  BY RevokedFacts DEF Ended, IInv, TypeOK

LEMMA RevokeAllKeepsIInv ==
  ASSUME IInv, NEW r \in Requests, RevokeAll(r)
  PROVE  IInv'
<1>1. UNCHANGED <<account, link, minted, orders, crashes, exchanges, redeemed, shared, overtaken>>
  BY DEF RevokeAll
<1>2. req' \in [Requests -> Request] /\ MayStop /\ account.exists
  BY StoppedFacts DEF RevokeAll, At
<1>3. /\ session' \in [Sessions -> Session]
      /\ \A s \in Sessions : session'[s] = Revoked(session[s]) /\ session[s] \in Session
      /\ \A s \in Sessions : session'[s].state # "live"
  BY EndedFacts DEF RevokeAll
<1>4. DueArePursued'
  BY <1>3 DEF DueArePursued
<1>5. /\ req[r].secret \in Nat /\ recovered \in Nat
      /\ ~overtaken => req[r].secret =< account.password /\ recovered =< account.password
  BY DEF RevokeAll, At, IInv, TypeOK, Request, RequestsFit, RequestFits, PasswordsFit
<1>6. recovered' \in {req[r].secret, recovered}
  BY DEF RevokeAll
<1>7. recovered' \in Nat /\ (~overtaken => recovered' =< account.password)
  BY <1>5, <1>6
<1> QED
  BY <1>1, <1>2, <1>3, <1>4, <1>7, RevokedFacts, EndedKeepIInv

LEMMA RevokeUserSessionsKeepsIInv ==
  ASSUME IInv, NEW r \in Requests, RevokeUserSessions(r)
  PROVE  IInv'
<1>1. /\ UNCHANGED <<account, link, minted, orders, crashes>>
      /\ UNCHANGED <<exchanges, redeemed, shared, recovered, overtaken>>
  BY DEF RevokeUserSessions, history
<1>2. /\ req' \in [Requests -> Request] /\ MayStop /\ account.exists /\ Others(r) /\ ~Pursues(r)
  BY StoppedFacts DEF RevokeUserSessions, At
<1>3. recovered' \in Nat
  BY <1>1 DEF IInv, TypeOK
<1>4. CASE req[r].session = None
  <2>1. /\ session' \in [Sessions -> Session]
        /\ \A s \in Sessions : session'[s] = Revoked(session[s]) /\ session[s] \in Session
        /\ \A s \in Sessions : session'[s].state # "live"
    BY <1>4, EndedFacts DEF RevokeUserSessions
  <2>2. DueArePursued'
    BY <2>1 DEF DueArePursued
  <2> QED
    BY <1>1, <1>2, <1>3, <2>1, <2>2, RevokedFacts, EndedKeepIInv
<1>5. CASE req[r].session # None
  <2>1. PICK s \in Sessions : s = req[r].session
    BY <1>5, Bounds DEF IInv, TypeOK, Request, Sessions, None
  <2>2. session[s] \in Session
    BY DEF IInv, TypeOK
  <2>3. Revoked(session[s]) \in Session /\ session' = [session EXCEPT ![s] = Revoked(session[s])]
    BY <1>5, <2>1, <2>2, RevokedFacts DEF RevokeUserSessions
  <2>4. /\ session' \in [Sessions -> Session] /\ session'[s] = Revoked(session[s])
        /\ \A t \in Sessions : t # s => session'[t] = session[t]
    BY <2>3, OneSessionFacts
  <2>5. DueArePursued'
    BY <1>1, <1>2, <2>2, <2>4, RevokedFacts, StoppedDue
  <2> QED
    BY <1>1, <1>2, <1>3, <2>2, <2>4, <2>5, RevokedFacts, EndedKeepIInv
<1> QED
  BY <1>4, <1>5

LEMMA LapseKeepsIInv ==
  ASSUME IInv, NEW s \in Sessions, LapseSession(s)
  PROVE  IInv'
<1>1. /\ UNCHANGED <<account, link, minted, req, orders, crashes>>
      /\ UNCHANGED <<exchanges, redeemed, shared, recovered, overtaken>>
  BY DEF LapseSession, history
<1>2. session[s] \in Session /\ session[s].state = "live" /\ account.exists
  BY SomethingExists DEF LapseSession, IInv, TypeOK
<1> DEFINE n == [session[s] EXCEPT !.lapsed = TRUE]
<1>3. /\ n \in Session /\ n.state = session[s].state /\ n.turn = session[s].turn
      /\ n.secret = session[s].secret /\ n.due = session[s].due
  BY <1>2 DEF Session
<1>4. session' = [session EXCEPT ![s] = n]
  BY DEF LapseSession
<1> HIDE DEF n
<1>5. /\ session' \in [Sessions -> Session] /\ session'[s] = n
      /\ \A t \in Sessions : t # s => session'[t] = session[t]
  BY <1>3, <1>4, OneSessionFacts
<1>6. \A t \in Sessions : session'[t].state = session[t].state /\ session'[t].due = session[t].due
  BY <1>3, <1>5
<1>7. DueArePursued'
  BY <1>1, <1>6 DEF IInv, DueArePursued, Pursues
<1>8. recovered' \in Nat /\ req' \in [Requests -> Request] /\ MayStop
  BY <1>1 DEF IInv, TypeOK, MayStop
<1> QED
  BY <1>1, <1>2, <1>3, <1>5, <1>7, <1>8, EndedKeepIInv

-----------------------------------------------------------------------------
(* The account.                                                             *)

LEMMA ReadHolderKeepsIInv ==
  ASSUME IInv, NEW r \in Requests, ReadHolder(r)
  PROVE  IInv'
<1>1. /\ UNCHANGED <<account, session, link, minted, orders, crashes>>
      /\ UNCHANGED <<exchanges, redeemed, shared, recovered, overtaken>>
      /\ req[r].step = "reading holder"
  BY DEF ReadHolder, history, At
<1>2. account.exists /\ crashes' \in 0..MaxCrashes /\ crashes =< crashes' /\ shared' \subseteq Links
  <2>1. account.exists
    BY <1>1, SomethingExists
  <2>2. crashes' = crashes /\ shared' = shared
    BY DEF ReadHolder, history
  <2>3. crashes' \in 0..MaxCrashes /\ crashes =< crashes' /\ shared' \subseteq Links
    BY <2>2, Bounds DEF IInv, TypeOK
  <2> QED
    BY <2>1, <2>3
<1>3. req[r].session \in Sessions /\ session[req[r].session].state # "none"
  BY <1>1 DEF IInv, RequestsFit, RequestFits
<1>4. ~Pursues(r) /\ \A l \in Links : ~Spends(r, l)
  BY <1>1 DEF Pursues, Spends
<1>5. CASE account.active
  <2>1. /\ req' \in [Requests -> Request] /\ Others(r)
        /\ req'[r].step = "rotating" /\ req'[r].session = req[r].session
    BY <1>5, GotoFacts DEF ReadHolder, IInv, TypeOK, Steps
  <2>2. RequestFits(r)'
    BY <1>1, <1>3, <2>1 DEF RequestFits
  <2>3. \A l \in Links : ~Uses(r, l)'
    BY <2>1 DEF Uses
  <2> QED
    BY <1>1, <1>2, <1>4, <2>1, <2>2, <2>3, QuietKeepsIInv
<1>6. CASE ~account.active
  <2>1. req' \in [Requests -> Request] /\ Others(r) /\ req'[r].step = "idle"
    BY <1>6, StopFacts, IdleIsRequest DEF ReadHolder, IInv, TypeOK
  <2>2. RequestFits(r)'
    BY <2>1 DEF RequestFits
  <2>3. \A l \in Links : ~Uses(r, l)'
    BY <2>1 DEF Uses
  <2> QED
    BY <1>1, <1>2, <1>4, <2>1, <2>2, <2>3, QuietKeepsIInv
<1> QED
  BY <1>5, <1>6

LEMMA CrashKeepsIInv ==
  ASSUME IInv, NEW r \in Requests, Crash(r)
  PROVE  IInv'
<1>1. /\ UNCHANGED <<account, session, link, minted, orders>>
      /\ UNCHANGED <<exchanges, redeemed, recovered, overtaken>>
      /\ req[r].step # "idle"
  BY DEF Crash, At
<1>2. /\ account.exists /\ crashes' \in 0..MaxCrashes /\ crashes =< crashes' /\ 0 < crashes'
  BY <1>1, SomethingExists, Bounds DEF Crash, IInv, TypeOK
<1>3. req' \in [Requests -> Request] /\ Others(r) /\ req'[r].step = "idle"
  BY StopFacts, IdleIsRequest DEF Crash, IInv, TypeOK
<1>4. /\ shared \subseteq shared' /\ shared' \subseteq Links
      /\ \A l \in Links \ shared' : ~Spends(r, l)
  <2>1. At(r, "consuming") => req[r].link \in Links
    BY DEF At, IInv, RequestsFit, RequestFits
  <2> QED
    BY <2>1 DEF Crash, At, IInv, TypeOK, Spends
<1>5. RequestFits(r)'
  BY <1>3 DEF RequestFits
<1>6. \A l \in Links : ~Uses(r, l)'
  BY <1>3 DEF Uses
<1> QED
  BY <1>1, <1>2, <1>3, <1>4, <1>5, <1>6, QuietKeepsIInv

(* Only the account changes, but not its password, unless to what it was.   *)
LEMMA AccountKeepsIInv ==
  ASSUME IInv, NEW r \in Requests, req' \in [Requests -> Request], Others(r), account.exists,
         req[r].step # "consuming", ~Pursues(r), req'[r].step # "resetting", RequestFits(r)',
         UNCHANGED <<session, link, minted, orders, crashes>>,
         UNCHANGED <<exchanges, redeemed, shared, recovered, overtaken>>,
         account' \in Account, account'.exists, account.verified => account'.verified,
         account'.password = account.password \/ overtaken
  PROVE  IInv'
<1>1. TypeOK'
  <2>1. \A s \in Sessions : session'[s].state # "none" => account'.verified
    BY DEF IInv, TypeOK
  <2> QED
    BY <2>1 DEF IInv, TypeOK
<1>2. ASSUME NEW q \in Requests, q # r PROVE RequestFits(q)'
  <2>1. req'[q] = req[q] /\ RequestFits(q)
    BY <1>2 DEF Others, IInv, RequestsFit
  <2>2. account.verified \in BOOLEAN /\ account'.verified \in BOOLEAN
    BY DEF IInv, TypeOK, Account
  <2>3. CASE overtaken
    BY <2>1, <2>2, <2>3 DEF RequestFits
  <2>4. CASE ~overtaken
    BY <2>1, <2>2, <2>4 DEF RequestFits
  <2> QED
    BY <2>3, <2>4
<1>3. RequestsFit'
  BY <1>2 DEF RequestsFit
<1>4. RowsFit' /\ TurnsArePast'
  BY DEF IInv, RowsFit, TurnsArePast
<1>5. \A l \in Links : (Spent(l) <=> Spent(l)') /\ ~Spends(r, l) /\ ~Uses(r, l)'
  BY DEF Spent, Spends, Uses
<1>6. Redemptions'
  BY <1>5, RedemptionsKept DEF IInv, TypeOK
<1>7. DueArePursued'
  BY StoppedDue
<1>8. PasswordsFit'
  BY DEF IInv, PasswordsFit
<1> QED
  BY <1>1, <1>3, <1>4, <1>6, <1>7, <1>8 DEF IInv

LEMMA VerifyingKeepsIInv ==
  ASSUME IInv, NEW r \in Requests, MarkVerified(r) \/ VerifyEmailOnce(r)
  PROVE  IInv'
<1>1. /\ UNCHANGED <<session, link, minted, orders, crashes>>
      /\ UNCHANGED <<exchanges, redeemed, shared, recovered, overtaken>>
      /\ req[r].step \in {"verifying", "granting"} /\ Stop(r)
      /\ account' = [account EXCEPT !.verified = TRUE]
  BY DEF MarkVerified, VerifyEmailOnce, history, At
<1>2. req' \in [Requests -> Request] /\ Others(r) /\ req'[r].step = "idle"
  BY <1>1, StopFacts, IdleIsRequest DEF IInv, TypeOK
<1>3. account.exists /\ account \in Account
  BY <1>1, SomethingExists DEF IInv, TypeOK
<1>4. /\ account' \in Account /\ account'.exists = account.exists /\ account'.verified
      /\ account'.password = account.password
  BY <1>1, <1>3 DEF Account
<1>5. RequestFits(r)'
  BY <1>2 DEF RequestFits
<1>6. ~Pursues(r)
  BY <1>1 DEF Pursues
<1> QED
  BY <1>1, <1>2, <1>3, <1>4, <1>5, <1>6, AccountKeepsIInv

LEMMA RehashKeepsIInv ==
  ASSUME IInv, NEW r \in Requests, Rehash(r)
  PROVE  IInv'
<1>1. /\ UNCHANGED <<session, link, minted, orders, crashes>>
      /\ UNCHANGED <<exchanges, redeemed, shared, recovered, overtaken>>
      /\ req[r].step = "rehashing"
  BY DEF Rehash, history, At
<1>2. /\ account.exists /\ account \in Account /\ req[r].secret \in Nat
      /\ req[r].ok => account.verified
      /\ ~overtaken => req[r].secret = account.password
  BY <1>1, SomethingExists DEF IInv, TypeOK, Request, RequestsFit, RequestFits
<1>3. account' = [[account EXCEPT !.password = req[r].secret] EXCEPT !.legacy = FALSE]
  BY <1>2 DEF Rehash, Account
<1>4. /\ account' \in Account /\ account'.exists = account.exists
      /\ account'.verified = account.verified /\ account'.password = req[r].secret
  BY <1>2, <1>3 DEF Account
<1>5. /\ req' \in [Requests -> Request] /\ Others(r)
      /\ \/ req'[r].step = "idle"
         \/ req[r].ok /\ req'[r].step = "opening" /\ req'[r].secret = req[r].secret
  <2>1. CASE req[r].ok
    BY <2>1, GotoFacts DEF Rehash, IInv, TypeOK, Steps
  <2>2. CASE ~req[r].ok
    BY <2>2, StopFacts, IdleIsRequest DEF Rehash, IInv, TypeOK
  <2> QED
    BY <2>1, <2>2
<1>6. RequestFits(r)'
  <2>1. CASE req'[r].step = "idle"
    BY <2>1 DEF RequestFits
  <2>2. CASE req[r].ok /\ req'[r].step = "opening" /\ req'[r].secret = req[r].secret
    BY <1>2, <1>4, <2>2 DEF RequestFits
  <2> QED
    BY <1>5, <2>1, <2>2
<1>7. ~Pursues(r) /\ req'[r].step # "resetting"
  BY <1>1, <1>5 DEF Pursues
<1>8. account'.password = account.password \/ overtaken
  BY <1>2, <1>4 DEF IInv, TypeOK
<1> QED
  BY <1>1, <1>2, <1>4, <1>5, <1>6, <1>7, <1>8, AccountKeepsIInv

-----------------------------------------------------------------------------
(* The orders.                                                              *)

(* What an order does to the sessions, and what it remembers of the logins. *)
LEMMA OrderFacts ==
  ASSUME IInv, NEW next, Order(next)
  PROVE  /\ account' = next /\ orders' = orders + 1 /\ orders \in Nat /\ orders' \in 0..MaxOrders
         /\ session' \in [Sessions -> Session]
         /\ \A s \in Sessions : /\ session'[s].state = session[s].state
                                /\ session'[s].turn = session[s].turn
                                /\ session'[s].secret = session[s].secret
                                /\ session[s].state = "none" => session'[s].turn = 0
         /\ overtaken' \in BOOLEAN
         /\ ~overtaken' => ~overtaken /\ \A q \in Requests : req[q].step \notin {"rehashing", "opening"}
<1>1. account' = next /\ orders' = orders + 1 /\ orders \in Nat /\ orders' \in 0..MaxOrders
  BY Bounds DEF Order, IInv, TypeOK
<1>2. ASSUME NEW s \in Sessions
      PROVE  /\ session'[s] \in Session
             /\ session'[s].state = session[s].state /\ session'[s].turn = session[s].turn
             /\ session'[s].secret = session[s].secret
             /\ session[s].state = "none" => session'[s].turn = 0
  <2>1. session[s] \in Session /\ session'[s] = [session[s] EXCEPT !.due = session[s].state # "none"]
    BY DEF Order, IInv, TypeOK
  <2>2. /\ session'[s] \in Session
        /\ session'[s].state = session[s].state /\ session'[s].turn = session[s].turn
        /\ session'[s].secret = session[s].secret
    BY <2>1 DEF Session
  <2>3. session[s].state = "none" => session'[s].turn = 0
    BY <2>2 DEF IInv, RowsFit
  <2> QED
    BY <2>2, <2>3
<1>3. session' \in [Sessions -> Session]
  <2>1. session' = [s \in Sessions |-> session'[s]]
    BY DEF Order
  <2> QED
    BY <1>2, <2>1
<1>4. /\ overtaken' \in BOOLEAN
      /\ ~overtaken' => ~overtaken /\ \A q \in Requests : req[q].step \notin {"rehashing", "opening"}
  BY DEF Order, IInv, TypeOK
<1> QED
  BY <1>1, <1>2, <1>3, <1>4

(* The account after an order, and the request that goes on to end all      *)
(* sessions.                                                                *)
LEMMA OrderKeepsIInv ==
  ASSUME IInv, NEW r \in Requests, NEW next \in Account, Order(next),
         req' \in [Requests -> Request], Others(r), req[r].step # "idle", Pursues(r)',
         next.exists = account.exists, next.verified = account.verified,
         next.password \in {account.password, orders + 1},
         UNCHANGED <<link, minted, crashes, exchanges, shared, recovered>>,
         redeemed' \in [Links -> Nat], \A l \in Links : minted < l => redeemed'[l] = 0,
         RequestFits(r)', Redemptions'
  PROVE  IInv'
<1>1. /\ account' = next /\ orders' = orders + 1 /\ orders \in Nat /\ orders' \in 0..MaxOrders
      /\ session' \in [Sessions -> Session]
      /\ \A s \in Sessions : /\ session'[s].state = session[s].state
                             /\ session'[s].turn = session[s].turn
                             /\ session'[s].secret = session[s].secret
                             /\ session[s].state = "none" => session'[s].turn = 0
      /\ overtaken' \in BOOLEAN
      /\ ~overtaken' => ~overtaken /\ \A q \in Requests : req[q].step \notin {"rehashing", "opening"}
  BY OrderFacts
<1>2. account.exists
  BY SomethingExists
<1>3. TypeOK'
  <2>1. \A s \in Sessions : session'[s].state # "none" => account'.verified
    BY <1>1 DEF IInv, TypeOK
  <2> QED
    BY <1>1, <2>1 DEF IInv, TypeOK
<1>4. ~overtaken => account.password =< orders /\ account.password \in Nat
  BY DEF IInv, TypeOK, Account, PasswordsFit
<1>5. ASSUME NEW q \in Requests, q # r PROVE RequestFits(q)'
  <2>1. req'[q] = req[q] /\ RequestFits(q)
    BY <1>5 DEF Others, IInv, RequestsFit
  <2>2. account.verified \in BOOLEAN /\ account'.verified = account.verified
    BY <1>1 DEF IInv, TypeOK, Account
  <2>3. /\ req'[q].step \in {"reading holder", "rotating", "revoking"} =>
             req'[q].session \in Sessions /\ session'[req'[q].session].state # "none"
        /\ req'[q].step \in {"resetting", "consuming"} =>
             req'[q].link \in Links /\ req'[q].link =< minted'
        /\ req'[q].step = "resetting" => req'[q].kind = "reset"
        /\ req'[q].step = "opening" \/ (req'[q].step = "rehashing" /\ req'[q].ok) => account'.verified
        /\ req'[q].step \in {"changing", "assigning", "switching"} => req'[q].secret = 0
    BY <1>1, <2>1, <2>2 DEF RequestFits
  <2>4. ~overtaken' /\ req'[q].step \in {"rehashing", "opening"} => req'[q].secret = account'.password
    BY <1>1, <2>1
  <2>5. ASSUME ~overtaken', req'[q].step \in {"consuming", "revoking all"}
        PROVE  req'[q].secret =< account'.password
    <3>1. req[q].secret =< account.password
      BY <1>1, <2>1, <2>5 DEF RequestFits
    <3>2. req[q].secret \in Nat /\ account.password =< orders /\ account.password \in Nat
      BY <1>1, <1>4, <2>5 DEF IInv, TypeOK, Request
    <3> QED
      BY <1>1, <2>1, <3>1, <3>2
  <2> QED
    BY <2>3, <2>4, <2>5 DEF RequestFits
<1>6. RequestsFit'
  BY <1>5 DEF RequestsFit
<1>7. RowsFit'
  BY <1>1, <1>2 DEF IInv, RowsFit
<1>8. TurnsArePast'
  BY <1>1, TurnsKept
<1>9. DueArePursued'
  BY DEF DueArePursued
<1>10. PasswordsFit'
  <2> SUFFICES ASSUME ~overtaken'
               PROVE  /\ recovered =< next.password /\ next.password =< orders + 1
                      /\ \A s \in Sessions : session[s].state = "live" => recovered =< session[s].secret
    BY <1>1 DEF PasswordsFit
  <2>1. /\ recovered \in Nat /\ recovered =< account.password /\ account.password =< orders
        /\ account.password \in Nat
        /\ \A s \in Sessions : session[s].state = "live" => recovered =< session[s].secret
    BY <1>1, <1>4 DEF IInv, TypeOK, PasswordsFit
  <2> QED
    BY <1>1, <2>1
<1> QED
  BY <1>3, <1>6, <1>7, <1>8, <1>9, <1>10 DEF IInv

(* A request that only had to find out whether to give its order.           *)
LEMMA GivenOrderKeepsIInv ==
  ASSUME IInv, NEW r \in Requests, NEW next \in Account, Order(next), Goto(r, "revoking all"),
         req[r].step \in {"changing", "assigning", "switching"},
         next.exists = account.exists, next.verified = account.verified,
         next.password \in {account.password, orders + 1}, req[r].secret =< next.password,
         UNCHANGED <<link, minted, crashes, exchanges, redeemed, shared, recovered>>
  PROVE  IInv'
<1>1. /\ req' \in [Requests -> Request] /\ Others(r) /\ req'[r].step = "revoking all"
      /\ req'[r].secret = req[r].secret
  BY GotoFacts DEF IInv, TypeOK, Steps
<1>2. Pursues(r)'
  BY <1>1 DEF Pursues
<1>3. account' = next
  BY DEF Order
<1>4. RequestFits(r)'
  BY <1>1, <1>3 DEF RequestFits
<1>5. redeemed' \in [Links -> Nat] /\ \A l \in Links : minted < l => redeemed'[l] = 0
  BY DEF IInv, TypeOK, RowsFit
<1>6. Redemptions'
  <2>1. \A l \in Links : (Spent(l) => Spent(l)') /\ ~Spends(r, l) /\ ~Uses(r, l)'
    BY <1>1 DEF Spent, Spends, Uses
  <2> QED
    BY <1>1, <2>1, RedemptionsKept DEF IInv, TypeOK
<1> QED
  BY <1>1, <1>2, <1>4, <1>5, <1>6, OrderKeepsIInv

LEMMA OrderedKeepsIInv ==
  ASSUME IInv, NEW r \in Requests, UpdatePassword(r) \/ UpdateRole(r) \/ UpdateStatus(r)
  PROVE  IInv'
<1>1. /\ account \in Account /\ account.password \in Nat /\ orders \in Nat
      /\ req[r] \in Request /\ req[r].role \in Roles
  BY Bounds DEF IInv, TypeOK, Account, Request
<1>2. req[r].step \in {"changing", "assigning", "switching"}
  BY DEF UpdatePassword, UpdateRole, UpdateStatus, At
<1>3. req[r].secret = 0
  BY <1>2 DEF IInv, RequestsFit, RequestFits
<1>4. CASE UpdatePassword(r)
  <2>1. PICK new \in Nat : new = orders + 1
    BY <1>1
  <2>2. PICK next : next = [account EXCEPT !.password = new, !.legacy = FALSE]
    OBVIOUS
  <2>3. /\ next \in Account /\ next.password = orders + 1
        /\ next.exists = account.exists /\ next.verified = account.verified
    BY <1>1, <2>1, <2>2 DEF Account
  <2>4. Order(next) /\ Goto(r, "revoking all")
    BY <1>4, <2>1, <2>2 DEF UpdatePassword
  <2>5. req[r].secret =< next.password
    BY <1>1, <1>3, <2>3
  <2> QED
    BY <1>2, <1>4, <2>3, <2>4, <2>5, GivenOrderKeepsIInv DEF UpdatePassword
<1>5. CASE UpdateRole(r)
  <2>1. PICK next : next = [account EXCEPT !.role = req[r].role]
    OBVIOUS
  <2>2. /\ next \in Account /\ next.password = account.password
        /\ next.exists = account.exists /\ next.verified = account.verified
    BY <1>1, <2>1 DEF Account
  <2>3. Order(next) /\ Goto(r, "revoking all")
    BY <1>5, <2>1 DEF UpdateRole
  <2>4. req[r].secret =< next.password
    BY <1>1, <1>3, <2>2
  <2> QED
    BY <1>2, <1>5, <2>2, <2>3, <2>4, GivenOrderKeepsIInv DEF UpdateRole
<1>6. CASE UpdateStatus(r) /\ ~req[r].ok
  <2>1. PICK next : next = [account EXCEPT !.active = FALSE]
    OBVIOUS
  <2>2. /\ next \in Account /\ next.password = account.password
        /\ next.exists = account.exists /\ next.verified = account.verified
    BY <1>1, <2>1 DEF Account
  <2>3. Order(next) /\ Goto(r, "revoking all")
    BY <1>6, <2>1 DEF UpdateStatus
  <2>4. req[r].secret =< next.password
    BY <1>1, <1>3, <2>2
  <2> QED
    BY <1>2, <1>6, <2>2, <2>3, <2>4, GivenOrderKeepsIInv DEF UpdateStatus
<1>7. CASE UpdateStatus(r) /\ req[r].ok
  <2>1. /\ UNCHANGED <<session, link, minted, orders, crashes>>
        /\ UNCHANGED <<exchanges, redeemed, shared, recovered, overtaken>>
        /\ Stop(r) /\ account' = [account EXCEPT !.active = TRUE]
    BY <1>7 DEF UpdateStatus
  <2>2. req' \in [Requests -> Request] /\ Others(r) /\ req'[r].step = "idle"
    BY <2>1, StopFacts, IdleIsRequest DEF IInv, TypeOK
  <2>3. /\ account' \in Account /\ account'.exists = account.exists
        /\ account'.verified = account.verified /\ account'.password = account.password
    BY <1>1, <2>1 DEF Account
  <2>4. account.exists
    BY <1>2, SomethingExists
  <2>5. RequestFits(r)'
    BY <2>2 DEF RequestFits
  <2>6. ~Pursues(r) /\ req[r].step # "consuming"
    BY <1>2 DEF Pursues
  <2> QED
    BY <2>1, <2>2, <2>3, <2>4, <2>5, <2>6, AccountKeepsIInv
<1> QED
  BY <1>4, <1>5, <1>6, <1>7

(* The link that sets the password has set none before, and no other        *)
(* request that is about to use it is left.                                 *)
LEMMA ResetPasswordKeepsIInv ==
  ASSUME IInv, NEW r \in Requests, ResetPassword(r)
  PROVE  IInv'
<1>1. /\ account \in Account /\ orders \in Nat /\ req[r] \in Request /\ req[r].step = "resetting"
  BY Bounds DEF IInv, TypeOK, ResetPassword, At
<1>2. PICK k \in Links : k = req[r].link /\ k =< minted /\ req[r].kind = "reset"
  BY <1>1 DEF IInv, RequestsFit, RequestFits
<1>3. PICK new \in Nat : new = orders + 1
  BY <1>1
<1> DEFINE next == [account EXCEPT !.password = new, !.legacy = FALSE]
           n    == [req[r] EXCEPT !.step = "consuming", !.secret = new]
<1>4. /\ next \in Account /\ next.password = orders + 1
      /\ next.exists = account.exists /\ next.verified = account.verified
  BY <1>1, <1>3 DEF Account
<1>5. Order(next)
  BY <1>3 DEF ResetPassword
<1>6. req' = [req EXCEPT ![r] = n]
  BY <1>3 DEF ResetPassword
<1>7. /\ n \in Request /\ n.step = "consuming" /\ n.secret = orders + 1
      /\ n.link = req[r].link /\ n.kind = req[r].kind
  BY <1>1, <1>3 DEF Request, Steps
<1> HIDE DEF next, n
<1>8. PICK m \in Request : m = n
  BY <1>7
<1>9. /\ req' \in [Requests -> Request] /\ Others(r)
      /\ req'[r].step = "consuming" /\ req'[r].secret = orders + 1
      /\ req'[r].link = req[r].link /\ req'[r].kind = req[r].kind
  BY <1>6, <1>7, <1>8, PutFacts DEF IInv, TypeOK
<1>10. /\ UNCHANGED <<link, minted, crashes, exchanges, shared, recovered>>
       /\ redeemed' = [redeemed EXCEPT ![k] = redeemed[k] + 1]
  BY <1>2 DEF ResetPassword
<1>11. Pursues(r)'
  BY <1>2, <1>9 DEF Pursues
<1>12. account' = next
  BY <1>5 DEF Order
<1>13. RequestFits(r)'
  <2>1. req'[r].link \in Links /\ req'[r].link =< minted'
    BY <1>2, <1>9, <1>10
  <2>2. req'[r].secret =< account'.password
    BY <1>1, <1>4, <1>9, <1>12
  <2> QED
    BY <1>9, <2>1, <2>2 DEF RequestFits
<1>14. /\ redeemed' \in [Links -> Nat] /\ redeemed'[k] = redeemed[k] + 1
       /\ \A l \in Links : l # k => redeemed'[l] = redeemed[l]
  BY <1>10 DEF IInv, TypeOK
<1>15. ASSUME NEW l \in Links, minted < l PROVE redeemed'[l] = 0
  <2>1. l # k
    BY <1>2, <1>15 DEF IInv, TypeOK, Links
  <2> QED
    BY <1>14, <1>15, <2>1 DEF IInv, RowsFit
<1>16. ASSUME NEW l \in Links, l \notin shared
       PROVE  /\ redeemed'[l] =< 1
              /\ redeemed'[l] = 1 => Spent(l)' \/ \E q \in Requests : Spends(q, l)'
              /\ \A q \in Requests : Uses(q, l)' =>
                   redeemed'[l] = 0 /\ \A p \in Requests : Uses(p, l)' => p = q
  <2>1. \A q \in Requests : q # r => (Uses(q, l)' <=> Uses(q, l)) /\ (Spends(q, l)' <=> Spends(q, l))
    BY <1>9 DEF Others, Uses, Spends
  <2>2. ~Uses(r, l)' /\ ~Spends(r, l) /\ (Spent(l)' <=> Spent(l))
    BY <1>1, <1>9, <1>10 DEF Uses, Spends, Spent
  <2>3. /\ redeemed[l] =< 1
        /\ redeemed[l] = 1 => Spent(l) \/ \E q \in Requests : Spends(q, l)
        /\ \A q \in Requests : Uses(q, l) =>
             redeemed[l] = 0 /\ \A p \in Requests : Uses(p, l) => p = q
    BY <1>16 DEF IInv, Redemptions
  <2>4. CASE l = k
    <3>1. Uses(r, l) /\ Spends(r, l)'
      BY <1>1, <1>2, <1>9, <2>4 DEF Uses, Spends
    <3>2. redeemed[l] = 0 /\ \A q \in Requests : ~Uses(q, l)'
      BY <2>1, <2>2, <2>3, <3>1
    <3> QED
      BY <1>14, <2>4, <3>1, <3>2
  <2>5. CASE l # k
    BY <1>14, <2>1, <2>2, <2>3, <2>5
  <2> QED
    BY <2>4, <2>5
<1>17. Redemptions'
  BY <1>10, <1>16 DEF Redemptions
<1>18. req[r].step # "idle"
  BY <1>1
<1> QED
  BY <1>4, <1>5, <1>9, <1>10, <1>11, <1>13, <1>14, <1>15, <1>17, <1>18, OrderKeepsIInv

-----------------------------------------------------------------------------
(* Every behaviour.                                                         *)

LEMMA InitGivesIInv == ASSUME Init PROVE IInv
<1>1. /\ account \in Account /\ account.password = 0
      /\ ~account.exists => ~account.verified
  BY RegisteredIsAccount DEF Init
<1>2. \A r \in Requests : req[r].step = "idle" /\ req[r] \in Request
  BY IdleIsRequest DEF Init
<1>3. \A s \in Sessions : session[s].state = "none" /\ session[s].turn = 0 /\ session[s] \in Session
  BY NoSessionIsSession DEF Init
<1>4. \A l \in Links : link[l].kind = "none" /\ redeemed[l] = 0 /\ link[l] \in Link
  BY NoLinkIsLink DEF Init
<1>5. TypeOK
  <2>1. req \in [Requests -> Request] /\ session \in [Sessions -> Session] /\ link \in [Links -> Link]
    BY IdleIsRequest, NoSessionIsSession, NoLinkIsLink DEF Init
  <2>2. minted \in 0..MaxLinks /\ orders \in 0..MaxOrders /\ crashes \in 0..MaxCrashes
    BY Bounds DEF Init
  <2>3. /\ exchanges \subseteq Sessions \X Nat \X Nat /\ redeemed \in [Links -> Nat]
        /\ shared \subseteq Links /\ recovered \in Nat /\ overtaken \in BOOLEAN
    BY DEF Init
  <2> QED
    BY <1>1, <1>3, <2>1, <2>2, <2>3 DEF TypeOK
<1>6. RequestsFit
  BY <1>2 DEF RequestsFit, RequestFits
<1>7. RowsFit
  BY <1>1, <1>2, <1>3, <1>4 DEF RowsFit
<1>8. TurnsArePast
  BY DEF Init, TurnsArePast
<1>9. Redemptions
  BY <1>2, <1>4 DEF Redemptions, Uses
<1>10. DueArePursued
  BY <1>3 DEF DueArePursued
<1>11. PasswordsFit
  BY <1>1, <1>3 DEF Init, PasswordsFit
<1> QED
  BY <1>5, <1>6, <1>7, <1>8, <1>9, <1>10, <1>11 DEF IInv

LEMMA StutterKeepsIInv == ASSUME IInv, UNCHANGED vars PROVE IInv'
<1>1. /\ UNCHANGED <<account, session, link, minted, req, orders, crashes>>
      /\ UNCHANGED <<exchanges, redeemed, shared, recovered, overtaken>>
  BY DEF vars, history
<1>2. TypeOK' /\ RequestsFit' /\ RowsFit'
  BY <1>1 DEF IInv, TypeOK, RequestsFit, RequestFits, RowsFit
<1>3. TurnsArePast' /\ PasswordsFit'
  BY <1>1 DEF IInv, TurnsArePast, PasswordsFit
<1>4. Redemptions'
  BY <1>1 DEF IInv, Redemptions, Spent, Uses, Spends
<1>5. DueArePursued'
  BY <1>1 DEF IInv, DueArePursued, Pursues
<1> QED
  BY <1>2, <1>3, <1>4, <1>5 DEF IInv

LEMMA NextKeepsIInv == ASSUME IInv, Next PROVE IInv'
<1>1. ASSUME NEW r \in Requests, Ask(r) PROVE IInv'
  <2>1. CASE \E l \in Links : OpenVerification(r, l) \/ OpenReset(r, l)
    BY <2>1, OpenVerificationKeepsIInv, OpenResetKeepsIInv
  <2>2. CASE \E s \in Sessions : ReadSession(r, s) \/ Logout(r, s)
    BY <2>2, ReadingKeepsIInv
  <2>3. ASSUME NEW a \in Actors, NEW s \in {None} \cup {t \in Sessions : session[t].state # "none"},
               EndSessions(r, a, s)
        PROVE  IInv'
    <3>1. s \in {None} \cup Sessions
      OBVIOUS
    <3> QED
      BY <2>3, <3>1, EndingKeepsIInv
  <2> QED
    BY <1>1, <2>1, <2>2, <2>3, RegisterKeepsIInv, LoginKeepsIInv, AskingKeepsIInv DEF Ask
<1>2. ASSUME NEW r \in Requests, Continue(r) PROVE IInv'
  BY <1>2, DeleteLinksKeepsIInv, CreateLinkKeepsIInv, ResetPasswordKeepsIInv, ConsumeLinkKeepsIInv,
     VerifyingKeepsIInv, RehashKeepsIInv, OpenSessionKeepsIInv, ReadHolderKeepsIInv,
     RotateKeepsIInv, RevokeSessionKeepsIInv, RevokeAllKeepsIInv, OrderedKeepsIInv,
     RevokeUserSessionsKeepsIInv DEF Continue
<1> QED
  BY <1>1, <1>2, CrashKeepsIInv, AgeLinkKeepsIInv, LapseKeepsIInv DEF Next

LEMMA SessionsInvariant == Spec => []IInv
<1>1. IInv /\ [Next]_vars => IInv'
  BY NextKeepsIInv, StutterKeepsIInv
<1> QED
  BY InitGivesIInv, <1>1, PTL DEF Spec

(* Every variable has its type, and only a verified address has sessions:   *)
(* a login that was let in before is not let in by another account.         *)
THEOREM TypeCorrect == Spec => []TypeOK
<1>1. IInv => TypeOK
  BY DEF IInv
<1> QED
  BY SessionsInvariant, <1>1, PTL

(* A refresh token buys at most one successor, however many requests show   *)
(* it and whatever is done to the session meanwhile (rotateSession).        *)
THEOREM TokensHaveOneSuccessor == Spec => []OneSuccessor
<1>1. ASSUME IInv, NEW x \in exchanges, NEW y \in exchanges, x[1] = y[1], x[2] = y[2]
      PROVE  x = y
  <2>1. x \in Sessions \X Nat \X Nat /\ y \in Sessions \X Nat \X Nat
    BY <1>1 DEF IInv, TypeOK
  <2>2. x[3] = y[3]
    BY <1>1 DEF IInv, TurnsArePast
  <2>3. x = <<x[1], x[2], x[3]>> /\ y = <<y[1], y[2], y[3]>>
    BY <2>1
  <2> QED
    BY <1>1, <2>2, <2>3
<1>2. IInv => OneSuccessor
  BY <1>1 DEF OneSuccessor
<1> QED
  BY SessionsInvariant, <1>2, PTL

(* A reset link sets one password, unless two requests held it at once or   *)
(* one died between setting the password and consuming it (resetPassword).  *)
THEOREM LinksAreSpentOnce == Spec => []LinkIsSpentOnce
<1>1. IInv => LinkIsSpentOnce
  BY DEF IInv, Redemptions, LinkIsSpentOnce
<1> QED
  BY SessionsInvariant, <1>1, PTL

(* Unless a process died, every session there was when a password was set,  *)
(* a role given or the account suspended is ended or about to be            *)
(* (revokeAllSessionsForUser).                                              *)
THEOREM DueSessionsAreEnded == Spec => []DueSessionsEnd
<1>1. ASSUME IInv, NEW s \in Sessions, session[s].state = "live", session[s].due
      PROVE  Pursued \/ crashes > 0
  <2>1. crashes \in Nat
    BY <1>1, Bounds DEF IInv, TypeOK
  <2>2. 0 < crashes \/ \E r \in Requests : Pursues(r)
    BY <1>1 DEF IInv, DueArePursued
  <2>3. \A r \in Requests : Pursues(r) => Pursued
    BY DEF Pursues, Pursued
  <2> QED
    BY <2>1, <2>2, <2>3
<1>2. IInv => DueSessionsEnd
  BY <1>1 DEF DueSessionsEnd
<1> QED
  BY SessionsInvariant, <1>2, PTL

(* Once a recovery is finished no session is live that an earlier password  *)
(* opened, unless a login was overtaken (resetPassword, login).             *)
THEOREM RecoveryLocksOthersOut == Spec => []RecoveryLocksOut
<1>1. ASSUME IInv, ~overtaken, NEW s \in Sessions, session[s].state = "live"
      PROVE  session[s].secret >= recovered
  <2>1. recovered =< session[s].secret /\ recovered \in Nat /\ session[s].secret \in Nat
    BY <1>1 DEF IInv, PasswordsFit, TypeOK, Session
  <2> QED
    BY <2>1
<1>2. IInv => RecoveryLocksOut
  BY <1>1 DEF RecoveryLocksOut
<1> QED
  BY SessionsInvariant, <1>2, PTL

=============================================================================
