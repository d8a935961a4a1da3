------------------------------- MODULE MagicLink -------------------------------
(***************************************************************************)
(* Signing in to the dashboard with a link that is sent by e-mail, and the *)
(* limit on how often that, or a password, may be tried.                   *)
(*                                                                         *)
(* All of it is about one e-mail address.  A request is one POST to the    *)
(* sign-in form: it records an attempt, counts the attempts of the last    *)
(* ten minutes and goes on to mail a link or to look at the password.  A   *)
(* click is one POST to the page behind the link: a database transaction   *)
(* that locks the link's row, finds or creates the account and marks the   *)
(* link used.  The session is created when the transaction is over.        *)
(***************************************************************************)
EXTENDS Naturals, FiniteSets

CONSTANTS
  Links,             (* requests for a link, and the link each may yield   *)
  Passwords,         (* sign-ins with a password                           *)
  Clicks,            (* POSTs to the page behind a link                    *)
  Limit,             (* account_lockout_limit                              *)
  Registration,      (* values that ALLOW_REGISTRATION may have            *)
  NoClick, NoLink

Requests == Links \cup Passwords

ASSUME ConstantsAssumption ==
  /\ IsFiniteSet(Requests)
  /\ Limit \in Nat \ {0}
  /\ Registration \subseteq BOOLEAN
  /\ NoClick \notin Clicks
  /\ NoLink \notin Links

VARIABLES
  req,       (* how far each request has come                              *)
  attempts,  (* requests whose attempt was recorded in the last 10 minutes *)
  expired,   (* links older than MAGIC_LINK_VALIDITY_WINDOW                *)
  used,      (* links whose row has a used_at                              *)
  holder,    (* the click whose transaction has locked a link's row        *)
  accounts,  (* rows in users with this address: the click that made each, *)
             (* NoClick for one that was there                             *)
  saver,     (* the click whose open transaction has written that row      *)
  pc,        (* how far each click has come                                *)
  link       (* the link of each click                                     *)

requests == <<req, attempts>>
clicks == <<used, holder, accounts, saver, pc, link>>
vars == <<requests, expired, clicks>>

ReqStage == {"new", "recorded", "through", "mailed", "refused"}
Stage == {"idle", "locked", "inserting", "updating", "inserted", "updated",
          "opened", "signedIn", "lost",  \* lost: died before the session was made
          "asked", "invalid", "failed"}
InTransaction == {"locked", "inserting", "updating", "inserted", "updated"}

TypeOK ==
  /\ req \in [Requests -> ReqStage]
  /\ attempts \subseteq Requests
  /\ expired \subseteq Links
  /\ used \subseteq Links
  /\ holder \in [Links -> Clicks \cup {NoClick}]
  /\ accounts \subseteq Clicks \cup {NoClick}
  /\ saver \in Clicks \cup {NoClick}
  /\ pc \in [Clicks -> Stage]
  /\ link \in [Clicks -> Links \cup {NoLink}]
  \* A click that got past the lock has a link.
  /\ \A c \in Clicks : pc[c] \notin {"idle", "invalid", "failed"} => link[c] \in Links

Init ==
  /\ req = [r \in Requests |-> "new"]
  /\ attempts = {}
  /\ expired = {}
  /\ used = {}
  /\ holder = [l \in Links |-> NoClick]
  /\ accounts \in {{}, {NoClick}}
  /\ saver = NoClick
  /\ pc = [c \in Clicks |-> "idle"]
  /\ link = [c \in Clicks |-> NoLink]

Goto(c, stage) == pc' = [pc EXCEPT ![c] = stage]
-----------------------------------------------------------------------------
(* magic_link_post and sign_in_post *)

(* create_via_email, create_via_username: only an account has attempts.    *)
Record(r) ==
  /\ req[r] = "new"
  /\ r \in Passwords \/ accounts # {} \/ TRUE \in Registration
  /\ req' = [req EXCEPT ![r] = "recorded"]
  /\ attempts' = IF accounts = {} THEN attempts ELSE attempts \cup {r}
  /\ UNCHANGED <<expired, clicks>>

(* "Sorry, we currently don't allow registration" *)
Unregistered(r) ==
  /\ req[r] = "new"
  /\ r \in Links /\ accounts = {} /\ FALSE \in Registration
  /\ req' = [req EXCEPT ![r] = "refused"]
  /\ UNCHANGED <<attempts, expired, clicks>>

(* MUTANT of Count: the attempts are counted before this one is recorded.  *)
CountOthers(r) ==
  /\ req[r] = "recorded"
  /\ req' = [req EXCEPT ![r] =
               IF Cardinality(attempts \ {r}) >= Limit THEN "refused" ELSE "through"]
  /\ UNCHANGED <<attempts, expired, clicks>>

(* has_exceeded_limits, in a query of its own. *)
Count(r) ==
  /\ req[r] = "recorded"
  /\ req' = [req EXCEPT ![r] =
               IF Cardinality(attempts) >= Limit THEN "refused" ELSE "through"]
  /\ UNCHANGED <<attempts, expired, clicks>>

(* The link is saved and sent. *)
Mail(r) ==
  /\ req[r] = "through" /\ r \in Links
  /\ req' = [req EXCEPT ![r] = "mailed"]
  /\ UNCHANGED <<attempts, expired, clicks>>

(* Time: an attempt leaves the ten minutes, a link its five. *)
Forget(r) ==
  /\ r \in attempts
  /\ attempts' = attempts \ {r}
  /\ UNCHANGED <<req, expired, clicks>>

ExpireLink(l) ==
  /\ req[l] = "mailed" /\ l \notin expired
  /\ expired' = expired \cup {l}
  /\ UNCHANGED <<requests, clicks>>
-----------------------------------------------------------------------------
(* magic_link_token_post *)

(* What the end of a transaction, either way, gives up. *)
Release(c) ==
  /\ holder' = [l \in Links |-> IF holder[l] = c THEN NoClick ELSE holder[l]]
  /\ saver' = IF saver = c THEN NoClick ELSE saver

(* MUTANT of Lock: the link is read without a lock. *)
LockNothing(c, l) ==
  /\ pc[c] = "idle" /\ req[l] = "mailed"
  /\ l \notin used \cup expired
  /\ Goto(c, "locked")
  /\ link' = [link EXCEPT ![c] = l]
  /\ UNCHANGED <<requests, expired, used, holder, accounts, saver>>

(* MUTANT of Lock: a link that is not there is not told from one that is. *)
LockUnnamed(c, l) ==
  /\ pc[c] = "idle" /\ req[l] = "mailed"
  /\ holder[l] = NoClick
  /\ Goto(c, "locked")
  /\ UNCHANGED <<requests, expired, used, holder, accounts, saver, link>>

(* SELECT ... FOR NO KEY UPDATE NOWAIT of an unused link with this token.  *)
(* A row that another transaction holds is an error, no wait.              *)
Lock(c, l) ==
  /\ pc[c] = "idle" /\ req[l] = "mailed"
  /\ l \notin used /\ holder[l] = NoClick /\ l \notin expired
  /\ Goto(c, "locked")
  /\ link' = [link EXCEPT ![c] = l]
  /\ holder' = [holder EXCEPT ![l] = c]
  /\ UNCHANGED <<requests, expired, used, accounts, saver>>

NotLocked(c, l) ==
  /\ pc[c] = "idle" /\ req[l] = "mailed"
  /\ \/ l \in used /\ Goto(c, "invalid")
     \/ l \notin used /\ holder[l] # NoClick /\ Goto(c, "failed")
     \/ l \notin used /\ holder[l] = NoClick /\ l \in expired /\ Goto(c, "invalid")
  /\ UNCHANGED <<requests, expired, used, holder, accounts, saver, link>>

(* The account is looked up: one that is there gets a new last_login, one  *)
(* that isn't is made,                                                     *)
FindAccount(c) ==
  /\ pc[c] = "locked"
  /\ Goto(c, IF accounts = {} THEN "inserting" ELSE "updating")
  /\ UNCHANGED <<requests, expired, used, holder, accounts, saver, link>>

(* MUTANT of AskName: the transaction is left open. *)
AskNameInside(c) ==
  /\ pc[c] = "locked" /\ accounts = {}
  /\ Goto(c, "asked")
  /\ UNCHANGED <<requests, expired, used, accounts, link, holder, saver>>

(* MUTANT of AskName: the link is marked used before the name is asked for. *)
AskNameUsed(c) ==
  /\ pc[c] = "locked" /\ accounts = {}
  /\ Goto(c, "asked")
  /\ Release(c)
  /\ used' = used \cup {link[c]}
  /\ UNCHANGED <<requests, expired, accounts, link>>

(* or, when the form has no name, the form is shown again.  The return     *)
(* commits a transaction that has written nothing.                         *)
AskName(c) ==
  /\ pc[c] = "locked" /\ accounts = {}
  /\ Goto(c, "asked")
  /\ Release(c)
  /\ UNCHANGED <<requests, expired, used, accounts, link>>

(* MUTANT of Insert: users.username without UNIQUE. *)
InsertAnyway(c) ==
  /\ pc[c] = "inserting"
  /\ saver' = c
  /\ Goto(c, "inserted")
  /\ UNCHANGED <<requests, expired, used, holder, accounts, link>>

(* user.save() of a new account.  The unique index makes it wait for a     *)
(* transaction that has inserted the same username.                        *)
Insert(c) ==
  /\ pc[c] = "inserting"
  /\ saver = NoClick /\ accounts = {}
  /\ saver' = c
  /\ Goto(c, "inserted")
  /\ UNCHANGED <<requests, expired, used, holder, accounts, link>>

(* The other transaction has committed: a unique violation rolls back.     *)
InsertFails(c) ==
  /\ pc[c] = "inserting"
  /\ saver = NoClick /\ accounts # {}
  /\ Goto(c, "failed")
  /\ Release(c)
  /\ UNCHANGED <<requests, expired, used, accounts, link>>

Update(c) ==
  /\ pc[c] = "updating"
  /\ saver = NoClick
  /\ saver' = c
  /\ Goto(c, "updated")
  /\ UNCHANGED <<requests, expired, used, holder, accounts, link>>

(* used_at is saved, and the transaction commits. *)
Commit(c) ==
  /\ pc[c] \in {"inserted", "updated"}
  /\ accounts' = IF pc[c] = "inserted" THEN accounts \cup {c} ELSE accounts
  /\ used' = used \cup {link[c]}
  /\ Goto(c, "opened")
  /\ Release(c)
  /\ UNCHANGED <<requests, expired, link>>

(* create_session_for_user, after the transaction. *)
SignIn(c) ==
  /\ pc[c] = "opened"
  /\ Goto(c, "signedIn")
  /\ UNCHANGED <<requests, expired, used, holder, accounts, saver, link>>

(* An exception or the death of the process. *)
Abort(c) ==
  /\ \/ pc[c] \in InTransaction /\ Goto(c, "failed")
     \/ pc[c] = "opened" /\ Goto(c, "lost")
  /\ Release(c)
  /\ UNCHANGED <<requests, expired, used, accounts, link>>
-----------------------------------------------------------------------------
Request(r) == Record(r) \/ Unregistered(r) \/ Count(r) \/ Mail(r)

Continue(c) ==
  \/ FindAccount(c) \/ AskName(c) \/ Insert(c) \/ InsertFails(c) \/ Update(c)
  \/ Commit(c) \/ SignIn(c)

Next ==
  \/ \E r \in Requests : Request(r) \/ Forget(r)
  \/ \E l \in Links : ExpireLink(l) \/ \E c \in Clicks : Lock(c, l) \/ NotLocked(c, l)
  \/ \E c \in Clicks : Continue(c) \/ Abort(c)

(* The server goes on with a request it has begun.  Nobody has to make one. *)
Fairness == \A c \in Clicks : WF_vars(Continue(c))

Spec == Init /\ [][Next]_vars

FairSpec == Spec /\ Fairness
-----------------------------------------------------------------------------
(* Clicks whose transaction has committed: the link let them in.           *)
Opened == {c \in Clicks : pc[c] \in {"opened", "signedIn", "lost"}}

(* What OneTimeSignIn sees of it: the end of a click's transaction, at which *)
(* the link, the account and the visit change together.                    *)
SignIns == INSTANCE OneTimeSignIn WITH
  Tickets <- Links, Guests <- Clicks, Founder <- NoClick,
  sent <- {l \in Links : req[l] = "mailed"},
  spent <- used,
  entered <- {[guest |-> c, ticket |-> link[c]] : c \in Opened},
  members <- accounts

(* Signing in keeps what OneTimeSignIn promises: only a link that was sent *)
(* and is unused lets a click in, that alone uses it up, and the account   *)
(* is made by the first click that is let in, whatever other clicks on the *)
(* same link or another one, failures and expiry come between.             *)
SignInSpec == SignIns!OneTimeSpec

(* A link lets one click in, however many are under way at once.           *)
SingleUse == \A c, d \in Opened : link[c] = link[d] => c = d

(* Two links that are clicked at once do not make two accounts. *)
OneAccount == \A a, b \in accounts : a = b

(* Of the attempts of the last ten minutes, fewer than the limit have been *)
(* let through, also when many requests come at once: each is recorded     *)
(* before it counts.                                                       *)
RateLimit ==
  Cardinality({r \in attempts : req[r] \in {"through", "mailed"}}) < Limit

(* No link stays locked, whatever becomes of the click that locked it.     *)
LockIsReleased == \A l \in Links : holder[l] # NoClick ~> holder[l] = NoClick
=============================================================================
