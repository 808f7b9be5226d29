------------------------------ MODULE AuthSessions ------------------------------
(***************************************************************************)
(* One account, its sessions and the links mailed to it: registration,     *)
(* login, refresh, logout, password change and recovery                    *)
(* (auth/authService.ts) against the administration of users               *)
(* (auth/adminUserService.ts), every statement of auth/pgUserStore.ts a    *)
(* step.  Only the audited writes of the administration are transactions   *)
(* of several statements.                                                  *)
(*                                                                         *)
(* A password is the number of the order that set it, 0 the first one.     *)
(* History: due of a session, which says that the session existed when an  *)
(* order to end all sessions took effect; exchanges, redeemed, shared,     *)
(* recovered and overtaken.                                                *)
(***************************************************************************)
EXTENDS Integers, FiniteSets

CONSTANTS Requests,    \* requests served at one time
          Actors,      \* who administers users: some of owner, super_admin, admin
          NewRoles,    \* roles that are given
          MaxSessions, \* sessions ever opened
          MaxTurns,    \* rotations of one session
          MaxLinks,    \* links ever mailed
          MaxOrders,   \* passwords set, roles given and suspensions
          MaxCrashes   \* processes that die

ASSUME ActorsAreKnown == Actors \subseteq {"owner", "super_admin", "admin"}
ASSUME RolesAreKnown == NewRoles \subseteq {"user", "admin", "super_admin"}
ASSUME BoundsAreNaturals ==
  {MaxSessions, MaxTurns, MaxLinks, MaxOrders, MaxCrashes} \subseteq Nat

VARIABLES account,   \* the row of table users
          session,   \* table user_sessions
          link,      \* tables password_resets and email_verifications
          minted,    \* links mailed so far
          req,       \* the requests
          orders,    \* orders so far
          crashes,   \* processes that died so far
          exchanges, \* history: refreshes as <<session, turn shown, turn got>>
          redeemed,  \* history: how often a reset link set a password
          shared,    \* history: links that two requests held, or one died with
          recovered, \* history: the latest password a finished recovery set
          overtaken  \* history: an order found a login between its read and its session

history == <<exchanges, redeemed, shared, recovered, overtaken>>
vars == <<account, session, link, minted, req, orders, crashes, history>>

Sessions   == 1..MaxSessions
Links      == 1..MaxLinks
Roles      == {"user", "admin", "super_admin"}
Privileged == {"admin", "super_admin"}
PerDay     == 3    \* VERIFICATION_MAX_PER_DAY
None       == 0

Account == [exists : BOOLEAN, role : Roles, active : BOOLEAN, verified : BOOLEAN,
            password : Nat, legacy : BOOLEAN]
Registered == [exists |-> TRUE, role |-> "user", active |-> TRUE, verified |-> FALSE,
               password |-> 0, legacy |-> FALSE]
NoAccount  == [Registered EXCEPT !.exists = FALSE]
Imported   == [Registered EXCEPT !.verified = TRUE, !.legacy = TRUE]

Session == [state : {"none", "live", "revoked"}, turn : Nat, lapsed : BOOLEAN,
            secret : Nat, due : BOOLEAN]
NoSession == [state |-> "none", turn |-> 0, lapsed |-> FALSE, secret |-> 0, due |-> FALSE]

(* recent: younger than VERIFICATION_RETRY_INTERVAL_MS; lapsed: expired.    *)
Link == [kind : {"none", "reset", "verify"}, used : BOOLEAN, age : {"recent", "usable", "lapsed"}]
NoLink == [kind |-> "none", used |-> FALSE, age |-> "recent"]

(* The steps of a request, named after the statement that comes next.  ok   *)
(* is what it found out about the account, or the status it will set.       *)
Steps == {"idle", "rehashing", "opening", "reading holder", "rotating", "revoking", "changing",
          "resetting", "consuming", "verifying", "replacing", "creating", "revoking all",
          "assigning", "switching", "ending", "granting"}
Request == [step : Steps, session : 0..MaxSessions, turn : Nat, link : 0..MaxLinks,
            kind : {"reset", "verify"}, secret : Nat, ok : BOOLEAN, role : Roles]
Idle == [step |-> "idle", session |-> None, turn |-> 0, link |-> None, kind |-> "reset",
         secret |-> 0, ok |-> TRUE, role |-> "user"]

At(r, step) == req[r].step = step
Goto(r, step) == req' = [req EXCEPT ![r].step = step]
Stop(r) == req' = [req EXCEPT ![r] = Idle]
Begin(r, next) == At(r, "idle") /\ req' = [req EXCEPT ![r] = next]

Init ==
  /\ account \in {NoAccount, Imported}
  /\ session = [s \in Sessions |-> NoSession]
  /\ link = [l \in Links |-> NoLink]
  /\ minted = 0
  /\ req = [r \in Requests |-> Idle]
  /\ orders = 0
  /\ crashes = 0
  /\ exchanges = {}
  /\ redeemed = [l \in Links |-> 0]
  /\ shared = {}
  /\ recovered = 0
  /\ overtaken = FALSE

-----------------------------------------------------------------------------
(* Writes of the store.  Seeded faults carry the prefix Faulty; no action   *)
(* uses them.                                                               *)

Revoked(row) == IF row.state = "live" THEN [row EXCEPT !.state = "revoked"] ELSE row

(* fault: an expired session is passed over *)
FaultyEnded == [s \in Sessions |-> IF session[s].lapsed THEN session[s] ELSE Revoked(session[s])]
Ended == [s \in Sessions |-> Revoked(session[s])]

(* An order: from now on the sessions there are count as ended.             *)
Order(next) ==
  /\ orders < MaxOrders
  /\ orders' = orders + 1
  /\ account' = next
  /\ session' = [s \in Sessions |-> [session[s] EXCEPT !.due = session[s].state # "none"]]
  /\ overtaken' = (overtaken \/ \E r \in Requests : req[r].step \in {"rehashing", "opening"})

Opened(secret) == [NoSession EXCEPT !.state = "live", !.secret = secret]

Rotated(row) == [row EXCEPT !.turn = @ + 1, !.lapsed = FALSE]

(* fault: the update does not compare the token *)
FaultySwappable(r) == session[req[r].session].state # "none"
Swappable(r) == session[req[r].session].turn = req[r].turn

(* fault: only a verification is ever consumed *)
FaultyConsumed(row) == IF row.kind = "verify" THEN [row EXCEPT !.used = TRUE] ELSE row
Consumed(row) == IF row.kind # "none" THEN [row EXCEPT !.used = TRUE] ELSE row

Of(kind) == {l \in Links : link[l].kind = kind}
Redeemable(l) == link[l].kind # "none" /\ ~link[l].used /\ link[l].age # "lapsed"
Holders(l) == {r \in Requests : req[r].link = l /\ req[r].step \in {"resetting", "consuming"}}

-----------------------------------------------------------------------------
(* register, resendVerification, forgotPassword.                            *)

(* createUser; the unique address refuses a second one.                     *)
Register(r) ==
  /\ ~account.exists
  /\ account' = Registered
  /\ Begin(r, [Idle EXCEPT !.step = "creating", !.kind = "verify"])
  /\ UNCHANGED <<session, link, minted, orders, crashes, history>>

(* Also what register does for an address that is not verified yet.         *)
Resend(r) ==
  /\ account.exists /\ ~account.verified
  /\ \A l \in Of("verify") : link[l].age # "recent"
  /\ Cardinality({l \in Of("verify") : link[l].age # "lapsed"}) < PerDay
  /\ Begin(r, [Idle EXCEPT !.step = "replacing", !.kind = "verify"])
  /\ UNCHANGED <<account, session, link, minted, orders, crashes, history>>

ForgotPassword(r) ==
  /\ account.exists
  /\ Begin(r, [Idle EXCEPT !.step = "replacing", !.kind = "reset"])
  /\ UNCHANGED <<account, session, link, minted, orders, crashes, history>>

DeleteLinks(r) ==
  /\ At(r, "replacing")
  /\ link' = [l \in Links |-> IF l \in Of(req[r].kind) THEN NoLink ELSE link[l]]
  /\ Goto(r, "creating")
  /\ UNCHANGED <<account, session, minted, orders, crashes, history>>

CreateLink(r) ==
  /\ At(r, "creating")
  /\ minted < MaxLinks
  /\ minted' = minted + 1
  /\ link' = [link EXCEPT ![minted'] = [NoLink EXCEPT !.kind = req[r].kind]]
  /\ Stop(r)
  /\ UNCHANGED <<account, session, orders, crashes, history>>

-----------------------------------------------------------------------------
(* verifyEmail and resetPassword.                                           *)

OpenVerification(r, l) ==
  /\ l \in Of("verify") /\ Redeemable(l)
  /\ Begin(r, [Idle EXCEPT !.step = "consuming", !.kind = "verify", !.link = l])
  /\ UNCHANGED <<account, session, link, minted, orders, crashes, history>>

OpenReset(r, l) ==
  /\ l \in Of("reset") /\ Redeemable(l)
  /\ Begin(r, [Idle EXCEPT !.step = "resetting", !.link = l])
  /\ shared' = IF Holders(l) # {} THEN shared \cup {l} ELSE shared
  /\ UNCHANGED <<account, session, link, minted, orders, crashes, exchanges, redeemed, recovered, overtaken>>

ResetPassword(r) ==
  /\ At(r, "resetting")
  /\ Order([account EXCEPT !.password = orders + 1, !.legacy = FALSE])
  /\ req' = [req EXCEPT ![r] = [@ EXCEPT !.step = "consuming", !.secret = orders + 1]]
  /\ redeemed' = [redeemed EXCEPT ![req[r].link] = @ + 1]
  /\ UNCHANGED <<link, minted, crashes, exchanges, shared, recovered>>

(* By id, whatever its state; a row that is gone stays gone.                *)
ConsumeLink(r) ==
  /\ At(r, "consuming")
  /\ link' = [link EXCEPT ![req[r].link] = Consumed(@)]
  /\ Goto(r, IF req[r].kind = "verify" THEN "verifying" ELSE "revoking all")
  /\ UNCHANGED <<account, session, minted, orders, crashes, history>>

MarkVerified(r) ==
  /\ At(r, "verifying")
  /\ account' = [account EXCEPT !.verified = TRUE]
  /\ Stop(r)
  /\ UNCHANGED <<session, link, minted, orders, crashes, history>>

-----------------------------------------------------------------------------
(* login, refresh, logout, changePassword.  A wrong password, a token that  *)
(* is not a row's and an expired one change nothing.                        *)

(* fault: the address need not be verified *)
FaultyAdmitted == account.active
Admitted == account.active /\ account.verified

Login(r) ==
  /\ account.exists
  /\ account.legacy \/ Admitted
  /\ Begin(r, [Idle EXCEPT !.step = IF account.legacy THEN "rehashing" ELSE "opening",
                           !.secret = account.password, !.ok = Admitted])
  /\ UNCHANGED <<account, session, link, minted, orders, crashes, history>>

(* The hash of the password that was read, over whatever is there now.      *)
Rehash(r) ==
  /\ At(r, "rehashing")
  /\ account' = [account EXCEPT !.password = req[r].secret, !.legacy = FALSE]
  /\ IF req[r].ok THEN Goto(r, "opening") ELSE Stop(r)
  /\ UNCHANGED <<session, link, minted, orders, crashes, history>>

OpenSession(r) ==
  /\ At(r, "opening")
  /\ \E s \in Sessions :
       /\ session[s].state = "none"
       /\ \A t \in 1..(s - 1) : session[t].state # "none"
       /\ session' = [session EXCEPT ![s] = Opened(req[r].secret)]
  /\ Stop(r)
  /\ UNCHANGED <<account, link, minted, orders, crashes, history>>

ReadSession(r, s) ==
  /\ session[s].state = "live" /\ ~session[s].lapsed
  /\ Begin(r, [Idle EXCEPT !.step = "reading holder", !.session = s, !.turn = session[s].turn])
  /\ UNCHANGED <<account, session, link, minted, orders, crashes, history>>

ReadHolder(r) ==
  /\ At(r, "reading holder")
  /\ IF account.active THEN Goto(r, "rotating") ELSE Stop(r)
  /\ UNCHANGED <<account, session, link, minted, orders, crashes, history>>

RotateSession(r) ==
  /\ At(r, "rotating")
  /\ LET s == req[r].session IN
       IF Swappable(r)
       THEN /\ session[s].turn < MaxTurns
            /\ session' = [session EXCEPT ![s] = Rotated(@)]
            /\ exchanges' = exchanges \cup {<<s, req[r].turn, session'[s].turn>>}
       ELSE UNCHANGED <<session, exchanges>>
  /\ Stop(r)
  /\ UNCHANGED <<account, link, minted, orders, crashes, redeemed, shared, recovered, overtaken>>

Logout(r, s) ==
  /\ session[s].state = "live"
  /\ Begin(r, [Idle EXCEPT !.step = "revoking", !.session = s])
  /\ UNCHANGED <<account, session, link, minted, orders, crashes, history>>

RevokeSession(r) ==
  /\ At(r, "revoking")
  /\ session' = [session EXCEPT ![req[r].session] = [@ EXCEPT !.state = "revoked"]]
  /\ Stop(r)
  /\ UNCHANGED <<account, link, minted, orders, crashes, history>>

(* The current password was right when it was read.                         *)
ChangePassword(r) ==
  /\ account.exists
  /\ Begin(r, [Idle EXCEPT !.step = "changing"])
  /\ UNCHANGED <<account, session, link, minted, orders, crashes, history>>

UpdatePassword(r) ==
  /\ At(r, "changing")
  /\ Order([account EXCEPT !.password = orders + 1, !.legacy = FALSE])
  /\ Goto(r, "revoking all")
  /\ UNCHANGED <<link, minted, crashes, exchanges, redeemed, shared, recovered>>

(* revokeAllSessionsForUser, the last statement of five operations.         *)
RevokeAll(r) ==
  /\ At(r, "revoking all")
  /\ session' = Ended
  /\ recovered' = IF req[r].secret > recovered THEN req[r].secret ELSE recovered
  /\ Stop(r)
  /\ UNCHANGED <<account, link, minted, orders, crashes, exchanges, redeemed, shared, overtaken>>

-----------------------------------------------------------------------------
(* The administration of users; the account is not its actor's own and not  *)
(* the owner's.  A super admin is nobody's target, so the count of          *)
(* assertSuperAdminRemains is never asked for.                              *)

HasSuperAuthority(actor) == actor \in {"owner", "super_admin"}
Reachable(actor) == account.exists /\ (account.role \in Privileged => HasSuperAuthority(actor))
Target(actor) == Reachable(actor) /\ account.role # "super_admin"

(* users.change_role is a right of super admins and the owner.              *)
SetRole(r, actor, role) ==
  /\ HasSuperAuthority(actor) /\ Target(actor) /\ role # account.role
  /\ Begin(r, [Idle EXCEPT !.step = "assigning", !.role = role])
  /\ UNCHANGED <<account, session, link, minted, orders, crashes, history>>

UpdateRole(r) ==
  /\ At(r, "assigning")
  /\ Order([account EXCEPT !.role = req[r].role])
  /\ Goto(r, "revoking all")
  /\ UNCHANGED <<link, minted, crashes, exchanges, redeemed, shared, recovered>>

SetStatus(r, actor) ==
  /\ Target(actor)
  /\ Begin(r, [Idle EXCEPT !.step = "switching", !.ok = ~account.active])
  /\ UNCHANGED <<account, session, link, minted, orders, crashes, history>>

UpdateStatus(r) ==
  /\ At(r, "switching")
  /\ IF req[r].ok
     THEN /\ account' = [account EXCEPT !.active = TRUE]
          /\ Stop(r)
          /\ UNCHANGED <<session, orders, overtaken>>
     ELSE Order([account EXCEPT !.active = FALSE]) /\ Goto(r, "revoking all")
  /\ UNCHANGED <<link, minted, crashes, exchanges, redeemed, shared, recovered>>

(* revokeSessions: one session of the account, or all of them (None).       *)
EndSessions(r, actor, s) ==
  /\ Target(actor)
  /\ Begin(r, [Idle EXCEPT !.step = "ending", !.session = s])
  /\ UNCHANGED <<account, session, link, minted, orders, crashes, history>>

RevokeUserSessions(r) ==
  /\ At(r, "ending")
  /\ session' = IF req[r].session = None THEN Ended
                ELSE [session EXCEPT ![req[r].session] = Revoked(@)]
  /\ Stop(r)
  /\ UNCHANGED <<account, link, minted, orders, crashes, history>>

(* verifyEmail of the administration, and verifyEmailOnce.                  *)
GrantVerification(r, actor) ==
  /\ Reachable(actor) /\ ~account.verified
  /\ Begin(r, [Idle EXCEPT !.step = "granting"])
  /\ UNCHANGED <<account, session, link, minted, orders, crashes, history>>

VerifyEmailOnce(r) ==
  /\ At(r, "granting")
  /\ account' = [account EXCEPT !.verified = TRUE]
  /\ Stop(r)
  /\ UNCHANGED <<session, link, minted, orders, crashes, history>>

-----------------------------------------------------------------------------
(* External: time passes; a process dies with its request.                  *)
AgeLink(l) ==
  /\ link[l].kind # "none" /\ link[l].age # "lapsed"
  /\ link' = [link EXCEPT ![l].age = IF @ = "recent" THEN "usable" ELSE "lapsed"]
  /\ UNCHANGED <<account, session, minted, req, orders, crashes, history>>

LapseSession(s) ==
  /\ session[s].state = "live" /\ ~session[s].lapsed
  /\ session' = [session EXCEPT ![s].lapsed = TRUE]
  /\ UNCHANGED <<account, link, minted, req, orders, crashes, history>>

Crash(r) ==
  /\ ~At(r, "idle")
  /\ crashes < MaxCrashes
  /\ crashes' = crashes + 1
  /\ shared' = IF At(r, "consuming") THEN shared \cup {req[r].link} ELSE shared
  /\ Stop(r)
  /\ UNCHANGED <<account, session, link, minted, orders, exchanges, redeemed, recovered, overtaken>>

Ask(r) ==
  \/ Register(r) \/ Resend(r) \/ ForgotPassword(r) \/ Login(r) \/ ChangePassword(r)
  \/ \E l \in Links : OpenVerification(r, l) \/ OpenReset(r, l)
  \/ \E s \in Sessions : ReadSession(r, s) \/ Logout(r, s)
  \/ \E a \in Actors :
       \/ SetStatus(r, a) \/ GrantVerification(r, a)
       \/ \E role \in NewRoles : SetRole(r, a, role)
       \/ \E s \in {None} \cup {t \in Sessions : session[t].state # "none"} : EndSessions(r, a, s)

Continue(r) ==
  \/ DeleteLinks(r) \/ CreateLink(r) \/ ResetPassword(r) \/ ConsumeLink(r) \/ MarkVerified(r)
  \/ Rehash(r) \/ OpenSession(r) \/ ReadHolder(r) \/ RotateSession(r) \/ RevokeSession(r)
  \/ UpdatePassword(r) \/ RevokeAll(r) \/ UpdateRole(r) \/ UpdateStatus(r)
  \/ RevokeUserSessions(r) \/ VerifyEmailOnce(r)

Next ==
  \/ \E r \in Requests : Ask(r) \/ Continue(r) \/ Crash(r)
  \/ \E l \in Links : AgeLink(l)
  \/ \E s \in Sessions : LapseSession(s)

Spec == Init /\ [][Next]_vars

-----------------------------------------------------------------------------
(* Properties.                                                              *)

(* Every variable has its type, and sessions belong to a verified account.  *)
TypeOK ==
  /\ account \in Account
  /\ session \in [Sessions -> Session]
  /\ link \in [Links -> Link]
  /\ minted \in 0..MaxLinks
  /\ req \in [Requests -> Request]
  /\ orders \in 0..MaxOrders
  /\ crashes \in 0..MaxCrashes
  /\ exchanges \subseteq Sessions \X Nat \X Nat
  /\ redeemed \in [Links -> Nat]
  /\ shared \subseteq Links
  /\ recovered \in Nat
  /\ overtaken \in BOOLEAN
  /\ \A s \in Sessions : session[s].state # "none" => account.verified

(* A refresh token buys at most one successor, whatever else rotates,       *)
(* revokes or expires the session meanwhile (rotateSession).                *)
OneSuccessor ==
  \A x, y \in exchanges : x[1] = y[1] /\ x[2] = y[2] => x = y

(* A reset link sets one password, unless two requests held it at once or   *)
(* one died between setting the password and consuming it (resetPassword).  *)
LinkIsSpentOnce == \A l \in Links \ shared : redeemed[l] <= 1

(* Every session there is when a password is set, a role given or the       *)
(* account suspended is ended or about to be, unless a process died: the    *)
(* order and the revocation are two statements, and a repeated suspension   *)
(* or role finds nothing to do.                                             *)
Pursued == \E r \in Requests : req[r].step \in {"revoking all", "consuming"}
DueSessionsEnd ==
  \A s \in Sessions :
    session[s].state = "live" /\ session[s].due => Pursued \/ crashes > 0

(* Once a recovery is finished, no session is live that an earlier password *)
(* opened, whoever logs in, refreshes or recovers meanwhile, unless a login *)
(* was overtaken: it opens its session, and puts back its password, after   *)
(* the recovery (resetPassword, login).                                     *)
RecoveryLocksOut ==
  \/ overtaken
  \/ \A s \in Sessions : session[s].state = "live" => session[s].secret >= recovered
=============================================================================
