-------------------------- MODULE MagicLinkProofs --------------------------
(***************************************************************************)
(* Signing in with links that are sent by mail, for any number of links,   *)
(* clicks and requests.                                                    *)
(*                                                                         *)
(* What makes a link single-use is the lock on its row: from the lock to   *)
(* the commit the link is unused and no other click is past the lock with  *)
(* it. LocksOK says so, and SavesOK says the same of the account's row.    *)
(* The limit on attempts needs no strengthening: a request that is let     *)
(* through has counted every attempt the limit speaks of, its own among    *)
(* them.  Together the two invariants say more than single use: a click's  *)
(* transaction is one step of OneTimeSignIn.                               *)
(***************************************************************************)
EXTENDS MagicLink, FiniteSetTheorems, TLAPS
-----------------------------------------------------------------------------
(* A click holds the row of its link for as long as its transaction lasts, *)
(* and while it does the link is unused.                                   *)
LocksOK ==
  /\ \A c \in Clicks, l \in Links :
       holder[l] = c <=> pc[c] \in InTransaction /\ link[c] = l
  /\ \A l \in Links : holder[l] # NoClick => l \notin used

(* A link is used up by letting a click in, and by nothing else: a form    *)
(* without a name, a clash over the account or a crash leaves it usable.   *)
UsedByOpening == used = {link[c] : c \in Opened}

(* One open transaction has written the account's row, and one that        *)
(* inserts it does so because there is none.                               *)
SavesOK ==
  /\ \A c \in Clicks : saver = c <=> pc[c] \in {"inserted", "updated"}
  /\ \A c \in Clicks : pc[c] = "inserted" => accounts = {}
-----------------------------------------------------------------------------
(* The state the program starts in is well typed. *)
LEMMA TypeInit == Init => TypeOK
  BY ConstantsAssumption DEF Init, TypeOK, ReqStage, Stage

(* What a released lock leaves, and what moving on to the next stage does. *)
LEMMA ReleaseOK ==
  ASSUME TypeOK, NEW c \in Clicks, Release(c)
  PROVE  /\ holder' \in [Links -> Clicks \cup {NoClick}]
         /\ saver' \in Clicks \cup {NoClick}
  BY DEF TypeOK, Release

LEMMA GotoOK ==
  ASSUME TypeOK, NEW c \in Clicks, NEW stage \in Stage, Goto(c, stage)
  PROVE  /\ pc' \in [Clicks -> Stage]
         /\ pc'[c] = stage
         /\ \A d \in Clicks \ {c} : pc'[d] = pc[d]
  BY DEF TypeOK, Goto

(* One case per action. *)
LEMMA TypeNext == TypeOK /\ [Next]_vars => TypeOK'
<1> SUFFICES ASSUME TypeOK, [Next]_vars
             PROVE  TypeOK'
  OBVIOUS
<1>1. ASSUME NEW r \in Requests, Request(r) \/ Forget(r)
      PROVE  TypeOK'
  BY <1>1 DEF Request, Record, Unregistered, Count, Mail, Forget, TypeOK, ReqStage, clicks
<1>2. ASSUME NEW l \in Links, ExpireLink(l)
      PROVE  TypeOK'
  BY <1>2 DEF ExpireLink, TypeOK, requests, clicks
<1>3. ASSUME NEW l \in Links, NEW c \in Clicks, Lock(c, l) \/ NotLocked(c, l)
      PROVE  TypeOK'
  BY <1>3 DEF Lock, NotLocked, Goto, TypeOK, Stage, requests
<1>4. ASSUME NEW c \in Clicks, Continue(c) \/ Abort(c)
      PROVE  TypeOK'
  <2>1. CASE FindAccount(c) \/ AskName(c)
    BY <2>1, ReleaseOK DEF FindAccount, AskName, Goto, TypeOK, Stage, requests
  <2>2. CASE Insert(c) \/ InsertFails(c) \/ Update(c)
    BY <2>2, ReleaseOK DEF Insert, InsertFails, Update, Goto, TypeOK, Stage, requests
  <2>3. CASE Commit(c) \/ SignIn(c)
    BY <2>3, ReleaseOK DEF Commit, SignIn, Goto, TypeOK, Stage, requests
  <2>4. CASE Abort(c)
    BY <2>4, ReleaseOK DEF Abort, Goto, TypeOK, Stage, InTransaction, requests
  <2>5. QED
    BY <1>4, <2>1, <2>2, <2>3, <2>4 DEF Continue
<1>5. CASE UNCHANGED vars
  BY <1>5 DEF vars, requests, clicks, TypeOK
<1>6. QED
  BY <1>1, <1>2, <1>3, <1>4, <1>5 DEF Next

(* The variables of the model have the types that TypeOK says. *)
THEOREM TypeCorrect == Spec => []TypeOK
  BY TypeInit, TypeNext, PTL DEF Spec
-----------------------------------------------------------------------------
(* Single use rests on the lock: whoever is between the read and the write *)
(* of a link holds it.                                                     *)
LinkInv == TypeOK /\ LocksOK /\ UsedByOpening /\ SingleUse

(* No link is used and no lock is held at the start. *)
LEMMA LinkInit == Init => LinkInv
  BY TypeInit, ConstantsAssumption
  DEF Init, LinkInv, LocksOK, UsedByOpening, SingleUse, Opened, InTransaction

(* One case per action. *)
LEMMA LinkNext == LinkInv /\ [Next]_vars => LinkInv'
<1> SUFFICES ASSUME LinkInv, [Next]_vars
             PROVE  LinkInv'
  OBVIOUS
<1> USE ConstantsAssumption
<1>a. TypeOK /\ TypeOK'
  BY TypeNext DEF LinkInv
<1>1. CASE UNCHANGED <<used, holder, pc, link>>
  BY <1>a, <1>1 DEF LinkInv, LocksOK, UsedByOpening, SingleUse, Opened
<1>2. ASSUME NEW l \in Links, NEW c \in Clicks, Lock(c, l)
      PROVE  LinkInv'
  <2>1. c \notin Opened /\ Opened' = Opened
    BY <1>a, <1>2 DEF Lock, Goto, Opened, TypeOK
  <2>2. \A d \in Opened : link'[d] = link[d]
    BY <1>a, <1>2, <2>1 DEF Lock, TypeOK, Opened
  <2>3. LocksOK'
    BY <1>a, <1>2 DEF Lock, Goto, LinkInv, LocksOK, TypeOK, InTransaction
  <2>4. UsedByOpening' /\ SingleUse'
    BY <1>2, <2>1, <2>2 DEF Lock, LinkInv, UsedByOpening, SingleUse
  <2>5. QED
    BY <1>a, <2>3, <2>4 DEF LinkInv
<1>3. ASSUME NEW l \in Links, NEW c \in Clicks, NotLocked(c, l)
      PROVE  LinkInv'
  <2>1. Opened' = Opened
    BY <1>a, <1>3 DEF NotLocked, Goto, Opened, TypeOK
  <2>2. LocksOK'
    BY <1>a, <1>3 DEF NotLocked, Goto, LinkInv, LocksOK, TypeOK, InTransaction
  <2>3. QED
    BY <1>a, <1>3, <2>1, <2>2 DEF NotLocked, LinkInv, UsedByOpening, SingleUse
\* A step within the transaction.
<1>4. ASSUME NEW c \in Clicks, FindAccount(c) \/ Insert(c) \/ Update(c)
      PROVE  LinkInv'
  <2>1. Opened' = Opened /\ UNCHANGED <<used, holder, link>>
    BY <1>a, <1>4 DEF FindAccount, Insert, Update, Goto, Opened, TypeOK
  <2>2. \A d \in Clicks : pc'[d] \in InTransaction <=> pc[d] \in InTransaction
    BY <1>a, <1>4 DEF FindAccount, Insert, Update, Goto, InTransaction, TypeOK
  <2>3. LocksOK'
    BY <2>1, <2>2 DEF LinkInv, LocksOK
  <2>4. QED
    BY <1>a, <2>1, <2>3 DEF LinkInv, UsedByOpening, SingleUse
\* The end of a transaction that lets nobody in.
<1>5. ASSUME NEW c \in Clicks, NEW stage \in {"asked", "failed"},
             pc[c] \in InTransaction, Goto(c, stage), Release(c), UNCHANGED <<used, link>>
      PROVE  LinkInv'
  <2>1. Opened' = Opened
    BY <1>a, <1>5 DEF Goto, Opened, TypeOK, InTransaction
  <2>2. LocksOK'
    BY <1>a, <1>5 DEF Goto, Release, LinkInv, LocksOK, TypeOK, InTransaction
  <2>3. QED
    BY <1>a, <1>5, <2>1, <2>2 DEF LinkInv, UsedByOpening, SingleUse
<1>6. ASSUME NEW c \in Clicks, Commit(c)
      PROVE  LinkInv'
  <2>1. /\ pc[c] \in InTransaction /\ link[c] \in Links
        /\ holder[link[c]] = c /\ link[c] \notin used
    BY <1>a, <1>6 DEF Commit, LinkInv, LocksOK, TypeOK, InTransaction
  <2>2. Opened' = Opened \cup {c} /\ link' = link /\ used' = used \cup {link[c]}
    BY <1>a, <1>6 DEF Commit, Goto, Opened, TypeOK
  <2>3. UsedByOpening'
    BY <2>2 DEF LinkInv, UsedByOpening
  \* No click that was let in before has this link: it was unused.
  <2>4. SingleUse'
    BY <2>1, <2>2 DEF LinkInv, SingleUse, UsedByOpening
  <2>5. \A d \in Clicks \ {c} : pc'[d] = pc[d]
    BY <1>a, <1>6 DEF Commit, Goto, TypeOK
  <2>6. /\ pc'[c] \notin InTransaction
        /\ holder' = [l \in Links |-> IF holder[l] = c THEN NoClick ELSE holder[l]]
    BY <1>a, <1>6 DEF Commit, Goto, Release, TypeOK, InTransaction
  <2>7. LocksOK'
    BY <1>a, <2>1, <2>2, <2>5, <2>6 DEF LinkInv, LocksOK, TypeOK
  <2>8. QED
    BY <1>a, <2>3, <2>4, <2>7 DEF LinkInv
\* After the transaction.
<1>7. ASSUME NEW c \in Clicks, NEW stage \in {"signedIn", "lost"},
             pc[c] = "opened", Goto(c, stage), UNCHANGED <<used, link>>,
             UNCHANGED holder \/ Release(c)
      PROVE  LinkInv'
  <2>1. Opened' = Opened
    BY <1>a, <1>7 DEF Goto, Opened, TypeOK
  <2>2. holder' = holder
    BY <1>a, <1>7 DEF Release, LinkInv, LocksOK, TypeOK, InTransaction
  <2>3. LocksOK'
    BY <1>a, <1>7, <2>2 DEF Goto, LinkInv, LocksOK, TypeOK, InTransaction
  <2>4. QED
    BY <1>a, <1>7, <2>1, <2>3 DEF LinkInv, UsedByOpening, SingleUse
<1>8. ASSUME NEW c \in Clicks, Continue(c) \/ Abort(c)
      PROVE  LinkInv'
  <2>1. CASE FindAccount(c) \/ Insert(c) \/ Update(c)
    BY <1>4, <2>1
  <2>2. CASE AskName(c)
    BY <1>5, <2>2 DEF AskName, InTransaction
  <2>3. CASE InsertFails(c)
    BY <1>5, <2>3 DEF InsertFails, InTransaction
  <2>4. CASE Commit(c)
    BY <1>6, <2>4
  <2>5. CASE SignIn(c)
    BY <1>7, <2>5 DEF SignIn
  <2>6. CASE Abort(c)
    BY <1>5, <1>7, <2>6 DEF Abort
  <2>7. QED
    BY <1>8, <2>1, <2>2, <2>3, <2>4, <2>5, <2>6 DEF Continue
<1>9. ASSUME NEW r \in Requests, Request(r) \/ Forget(r)
      PROVE  LinkInv'
  BY <1>1, <1>9 DEF Request, Record, Unregistered, Count, Mail, Forget, clicks
<1>10. ASSUME NEW l \in Links, ExpireLink(l)
       PROVE  LinkInv'
  BY <1>1, <1>10 DEF ExpireLink, clicks
<1>11. CASE UNCHANGED vars
  BY <1>1, <1>11 DEF vars, clicks
<1>12. QED
  BY <1>2, <1>3, <1>8, <1>9, <1>10, <1>11 DEF Next

(* A link lets one click in: the row lock of magic_link_token_post is      *)
(* enough, for any number of clicks on any number of links.                *)
THEOREM LinksAreSingleUse == Spec => []SingleUse
<1>1. LinkInv => SingleUse
  BY DEF LinkInv
<1>2. QED
  BY <1>1, LinkInit, LinkNext, PTL DEF Spec

(* used_at is set when, and only when, a click has been let in. *)
THEOREM LinksAreUsedByOpening == Spec => []UsedByOpening
<1>1. LinkInv => UsedByOpening
  BY DEF LinkInv
<1>2. QED
  BY <1>1, LinkInit, LinkNext, PTL DEF Spec
-----------------------------------------------------------------------------
(* One account per address rests on the saves that are under way. *)
AccountInv == TypeOK /\ SavesOK /\ OneAccount

(* There are no accounts at the start. *)
LEMMA AccountInit == Init => AccountInv
  BY TypeInit, ConstantsAssumption DEF Init, AccountInv, SavesOK, OneAccount

(* One case per action. *)
LEMMA AccountNext == AccountInv /\ [Next]_vars => AccountInv'
<1> SUFFICES ASSUME AccountInv, [Next]_vars
             PROVE  AccountInv'
  OBVIOUS
<1> USE ConstantsAssumption DEF AccountInv, SavesOK, OneAccount
<1>a. TypeOK /\ TypeOK'
  BY TypeNext
<1>1. CASE UNCHANGED <<accounts, saver, pc>>
  BY <1>a, <1>1
<1>2. ASSUME NEW l \in Links, NEW c \in Clicks, Lock(c, l) \/ NotLocked(c, l)
      PROVE  AccountInv'
  BY <1>a, <1>2 DEF Lock, NotLocked, Goto, TypeOK
<1>3. ASSUME NEW c \in Clicks, Continue(c) \/ Abort(c)
      PROVE  AccountInv'
  <2>1. CASE FindAccount(c) \/ AskName(c) \/ SignIn(c)
    BY <1>a, <2>1 DEF FindAccount, AskName, SignIn, Goto, Release, TypeOK
  <2>2. CASE Insert(c) \/ InsertFails(c) \/ Update(c)
    BY <1>a, <2>2 DEF Insert, InsertFails, Update, Goto, Release, TypeOK
  \* The account is inserted by the only transaction that has written it.
  <2>3. CASE Commit(c)
    <3>1. saver = c /\ \A d \in Clicks \ {c} : pc[d] \notin {"inserted", "updated"}
      BY <1>a, <2>3 DEF Commit
    <3>2. pc'[c] = "opened" /\ \A d \in Clicks \ {c} : pc'[d] = pc[d]
      BY <1>a, <2>3 DEF Commit, Goto, TypeOK
    <3>3. OneAccount'
      BY <1>a, <2>3 DEF Commit, TypeOK
    <3>4. saver' = NoClick
      BY <2>3, <3>1 DEF Commit, Release
    <3>5. QED
      BY <1>a, <3>1, <3>2, <3>3, <3>4
  <2>4. CASE Abort(c)
    BY <1>a, <2>4 DEF Abort, Goto, Release, TypeOK, InTransaction
  <2>5. QED
    BY <1>3, <2>1, <2>2, <2>3, <2>4 DEF Continue
<1>4. ASSUME NEW r \in Requests, Request(r) \/ Forget(r)
      PROVE  AccountInv'
  BY <1>1, <1>4 DEF Request, Record, Unregistered, Count, Mail, Forget, clicks
<1>5. ASSUME NEW l \in Links, ExpireLink(l)
      PROVE  AccountInv'
  BY <1>1, <1>5 DEF ExpireLink, clicks
<1>6. CASE UNCHANGED vars
  BY <1>1, <1>6 DEF vars, clicks
<1>7. QED
  BY <1>2, <1>3, <1>4, <1>5, <1>6 DEF Next

(* However many links are clicked at once, one account comes of it. *)
THEOREM OneAccountOnly == Spec => []OneAccount
<1>1. AccountInv => OneAccount
  BY DEF AccountInv
<1>2. QED
  BY <1>1, AccountInit, AccountNext, PTL DEF Spec
-----------------------------------------------------------------------------
(* Why signing in is one step of OneTimeSignIn, at the commit: the link    *)
(* that a transaction has locked was sent, and the account that it found   *)
(* is still there.                                                         *)
OpeningOK ==
  \A c \in Clicks :
    /\ pc[c] \in InTransaction => req[link[c]] = "mailed"
    /\ pc[c] \in {"updating", "updated"} => accounts # {}

(* The inductive invariant of the refinement. *)
EntryInv == LinkInv /\ AccountInv /\ OpeningOK

(* No click has begun at the start. *)
LEMMA EntryInit == Init => EntryInv
  BY LinkInit, AccountInit DEF Init, EntryInv, OpeningOK, InTransaction

(* A link that was mailed stays so, and an account is never deleted. *)
LEMMA EntryNext == EntryInv /\ [Next]_vars => EntryInv'
<1> SUFFICES ASSUME EntryInv, [Next]_vars
             PROVE  OpeningOK'
  BY LinkNext, AccountNext DEF EntryInv
<1> USE DEF EntryInv, OpeningOK
<1>a. TypeOK /\ TypeOK'
  BY TypeNext DEF LinkInv
<1>1. ASSUME NEW l \in Links, NEW c \in Clicks, Lock(c, l) \/ NotLocked(c, l)
      PROVE  OpeningOK'
  BY <1>a, <1>1 DEF Lock, NotLocked, Goto, TypeOK, InTransaction, requests
<1>2. ASSUME NEW c \in Clicks, Continue(c) \/ Abort(c)
      PROVE  OpeningOK'
  <2>1. UNCHANGED <<req, link>> /\ accounts \subseteq accounts'
    BY <1>2 DEF Continue, FindAccount, AskName, Insert, InsertFails, Update, Commit, SignIn,
                Abort, requests
  <2>2. \A d \in Clicks \ {c} : pc'[d] = pc[d]
    BY <1>a, <1>2 DEF Continue, FindAccount, AskName, Insert, InsertFails, Update, Commit,
                SignIn, Abort, Goto, TypeOK
  <2>3. /\ pc'[c] \in InTransaction => pc[c] \in InTransaction
        /\ pc'[c] \in {"updating", "updated"} =>
             (pc[c] = "locked" /\ accounts # {}) \/ pc[c] = "updating"
    BY <1>a, <1>2 DEF Continue, FindAccount, AskName, Insert, InsertFails, Update, Commit,
                SignIn, Abort, Goto, TypeOK, InTransaction
  <2>4. QED
    BY <2>1, <2>2, <2>3
<1>3. ASSUME NEW r \in Requests, Request(r) \/ Forget(r)
      PROVE  OpeningOK'
  <2>1. UNCHANGED <<pc, link, accounts>>
    BY <1>3 DEF Request, Record, Unregistered, Count, Mail, Forget, clicks
  <2>2. \A l \in Links : req[l] = "mailed" => req'[l] = "mailed"
    BY <1>a, <1>3 DEF Request, Record, Unregistered, Count, Mail, Forget, TypeOK, Requests
  <2>3. \A c \in Clicks : pc[c] \in InTransaction => link[c] \in Links
    BY <1>a DEF TypeOK, InTransaction
  <2>4. QED
    BY <2>1, <2>2, <2>3
<1>4. ASSUME NEW l \in Links, ExpireLink(l)
      PROVE  OpeningOK'
  BY <1>4 DEF ExpireLink, requests, clicks
<1>5. CASE UNCHANGED vars
  BY <1>5 DEF vars, requests, clicks
<1>6. QED
  BY <1>1, <1>2, <1>3, <1>4, <1>5 DEF Next

(* The links that were mailed, and who was let in with which.              *)
Mailed == {l \in Links : req[l] = "mailed"}
Entries == {[guest |-> c, ticket |-> link[c]] : c \in Opened}

(* The initial states are initial states of OneTimeSignIn. *)
LEMMA SignInInit == Init => SignIns!OneTimeInit
<1> SUFFICES ASSUME Init PROVE SignIns!OneTimeInit
  OBVIOUS
<1>1. Mailed = {} /\ Opened = {}
  BY DEF Init, Mailed, Opened, Requests
<1>2. QED
  BY <1>1 DEF Init, SignIns!OneTimeInit, Mailed

(* What lets nobody in and sends nothing is not seen. *)
LEMMA SignInStutters ==
  ASSUME UNCHANGED <<Mailed, used, accounts, Opened>>,
         \A c \in Opened : link'[c] = link[c]
  PROVE  UNCHANGED SignIns!signInVars
<1>1. Entries' = Entries
  BY DEF Entries
<1>2. QED
  BY <1>1 DEF SignIns!signInVars, Mailed, Entries

(* Mailing a link is Send, committing is Enter, and nothing else is seen.  *)
LEMMA SignInNext == EntryInv /\ [Next]_vars => [SignIns!OneTimeNext]_(SignIns!signInVars)
<1> SUFFICES ASSUME EntryInv, [Next]_vars
             PROVE  SignIns!OneTimeNext \/ UNCHANGED SignIns!signInVars
  OBVIOUS
<1>a. TypeOK /\ LinkInv /\ AccountInv
  BY DEF EntryInv, LinkInv
<1>1. ASSUME NEW l \in Links, Mail(l)
      PROVE  SignIns!Send(l)
  <2>1. l \notin Mailed /\ Mailed' = Mailed \cup {l}
    BY <1>a, <1>1 DEF Mail, Mailed, TypeOK, Requests
  <2>2. UNCHANGED <<used, accounts, Entries>>
    BY <1>1 DEF Mail, clicks, Entries, Opened
  <2>3. QED
    BY <2>1, <2>2 DEF SignIns!Send, Mailed, Entries
<1>2. ASSUME NEW r \in Requests, Record(r) \/ Unregistered(r) \/ Count(r) \/ Forget(r)
      PROVE  UNCHANGED SignIns!signInVars
  <2>1. Mailed' = Mailed
    BY <1>a, <1>2 DEF Record, Unregistered, Count, Forget, Mailed, TypeOK, Requests
  <2>2. UNCHANGED <<used, accounts, Opened, link>>
    BY <1>2 DEF Record, Unregistered, Count, Forget, clicks, Opened
  <2>3. QED
    BY <2>1, <2>2, SignInStutters
<1>3. ASSUME NEW l \in Links, NEW c \in Clicks, Lock(c, l) \/ NotLocked(c, l)
      PROVE  UNCHANGED SignIns!signInVars
  <2>1. UNCHANGED <<Mailed, used, accounts, Opened>>
    BY <1>a, <1>3 DEF Lock, NotLocked, Goto, requests, Mailed, Opened, TypeOK
  <2>2. \A d \in Opened : link'[d] = link[d]
    BY <1>a, <1>3 DEF Lock, NotLocked, Opened, TypeOK
  <2>3. QED
    BY <2>1, <2>2, SignInStutters
<1>4. ASSUME NEW c \in Clicks, NEW l \in Links, Commit(c), link[c] = l
      PROVE  SignIns!Enter(c, l)
  <2>1. pc[c] \in InTransaction /\ l \in Mailed /\ l \notin used
    BY <1>a, <1>4, ConstantsAssumption
    DEF Commit, EntryInv, OpeningOK, LinkInv, LocksOK, TypeOK, InTransaction, Mailed
  <2>2. /\ Opened' = Opened \cup {c} /\ c \notin Opened
        /\ link' = link /\ used' = used \cup {l} /\ Mailed' = Mailed
    BY <1>a, <1>4 DEF Commit, Goto, Opened, TypeOK, Mailed, requests
  <2>3. Entries' = Entries \cup {[guest |-> c, ticket |-> l]}
    BY <1>4, <2>2 DEF Entries
  <2>4. \A e \in Entries : e.guest # c
    BY <2>2 DEF Entries
  <2>5. accounts' = IF accounts = {} THEN {c} ELSE accounts
    BY <1>4 DEF Commit, EntryInv, OpeningOK, AccountInv, SavesOK
  <2>6. QED
    BY <2>1, <2>2, <2>3, <2>4, <2>5 DEF SignIns!Enter, Mailed, Entries
<1>5. ASSUME NEW c \in Clicks,
             \/ FindAccount(c) \/ AskName(c) \/ Insert(c) \/ InsertFails(c) \/ Update(c)
             \/ SignIn(c) \/ Abort(c)
      PROVE  UNCHANGED SignIns!signInVars
  <2>1. UNCHANGED <<Mailed, used, accounts, Opened, link>>
    BY <1>a, <1>5 DEF FindAccount, AskName, Insert, InsertFails, Update, SignIn, Abort, Goto,
                requests, Mailed, Opened, TypeOK, InTransaction
  <2>2. QED
    BY <2>1, SignInStutters
<1>6. ASSUME NEW l \in Links, ExpireLink(l)
      PROVE  UNCHANGED SignIns!signInVars
  <2>1. UNCHANGED <<Mailed, used, accounts, Opened, link>>
    BY <1>6 DEF ExpireLink, requests, clicks, Mailed, Opened
  <2>2. QED
    BY <2>1, SignInStutters
<1>7. CASE UNCHANGED vars
  <2>1. UNCHANGED <<Mailed, used, accounts, Opened, link>>
    BY <1>7 DEF vars, requests, clicks, Mailed, Opened
  <2>2. QED
    BY <2>1, SignInStutters
<1>8. QED
  <2>1. ASSUME NEW r \in Requests, Request(r) \/ Forget(r)
        PROVE  SignIns!OneTimeNext \/ UNCHANGED SignIns!signInVars
    <3>1. CASE Mail(r)
      BY <1>1, <3>1 DEF Mail, SignIns!OneTimeNext
    <3>2. CASE ~Mail(r)
      BY <1>2, <2>1, <3>2 DEF Request
    <3>3. QED
      BY <3>1, <3>2
  <2>2. ASSUME NEW c \in Clicks, Continue(c) \/ Abort(c)
        PROVE  SignIns!OneTimeNext \/ UNCHANGED SignIns!signInVars
    <3>1. CASE Commit(c)
      <4>1. PICK l \in Links : link[c] = l
        BY <1>a, <3>1 DEF Commit, TypeOK
      <4>2. SignIns!Enter(c, l)
        BY <1>4, <3>1, <4>1
      <4>3. QED
        BY <4>2 DEF SignIns!OneTimeNext
    <3>2. CASE ~Commit(c)
      BY <1>5, <2>2, <3>2 DEF Continue
    <3>3. QED
      BY <3>1, <3>2
  <2>3. QED
    BY <1>3, <1>6, <1>7, <2>1, <2>2 DEF Next

(* However requests, clicks, failures and time interleave, signing in does *)
(* what OneTimeSignIn does: a link that was sent lets one click in, once,  *)
(* which uses it up, and the first to come in makes the account.           *)
THEOREM ImplementsOneTimeSignIn == Spec => SignInSpec
<1>1. EntryInv /\ [Next]_vars => EntryInv'
  BY EntryNext
<1>2. QED
  BY EntryInit, <1>1, SignInInit, SignInNext, PTL DEF Spec, SignInSpec, SignIns!OneTimeSpec
-----------------------------------------------------------------------------
(* The attempts of the last ten minutes that were let through. *)
Through == {r \in attempts : req[r] \in {"through", "mailed"}}

(* A part of a small set is small. *)
LEMMA FewerAreFew ==
  ASSUME NEW S \in SUBSET Requests, NEW T \in SUBSET S
  PROVE  IsFiniteSet(S) /\ Cardinality(T) <= Cardinality(S)
         /\ Cardinality(S) \in Nat /\ Cardinality(T) \in Nat
  BY ConstantsAssumption, FS_Subset, FS_CardinalityType

(* No link was asked for yet. *)
LEMMA RateInit == Init => RateLimit
<1> SUFFICES ASSUME Init
             PROVE  Cardinality(Through) < Limit
  BY DEF RateLimit, Through
<1>1. Through = {}
  BY DEF Init, Through
<1>2. QED
  BY <1>1, FS_EmptySet, ConstantsAssumption

(* A step that lets no attempt through keeps the limit; one that does has  *)
(* counted first.                                                          *)
LEMMA RateNext == TypeOK /\ RateLimit /\ [Next]_vars => RateLimit'
<1> SUFFICES ASSUME TypeOK, Cardinality(Through) < Limit, [Next]_vars
             PROVE  Cardinality(Through') < Limit
  BY DEF RateLimit, Through
<1>0. Through \in SUBSET Requests
  BY DEF TypeOK, Through
<1>1. CASE Through' \subseteq Through
  <2>1. Cardinality(Through') <= Cardinality(Through)
    BY <1>0, <1>1, FewerAreFew
  <2>2. Cardinality(Through') \in Nat /\ Cardinality(Through) \in Nat
    BY <1>0, <1>1, FewerAreFew
  <2>3. QED
    BY <2>1, <2>2, ConstantsAssumption
<1>2. ASSUME NEW r \in Requests, Count(r)
      PROVE  Cardinality(Through') < Limit
  <2>1. CASE Cardinality(attempts) >= Limit
    BY <1>1, <1>2, <2>1 DEF Count, Through, TypeOK
  <2>2. CASE ~(Cardinality(attempts) >= Limit)
    <3>1. Through' \in SUBSET attempts /\ attempts \in SUBSET Requests
      BY <1>2 DEF Count, Through, TypeOK
    <3>2. /\ Cardinality(Through') <= Cardinality(attempts)
          /\ Cardinality(Through') \in Nat /\ Cardinality(attempts) \in Nat
      BY <3>1, FewerAreFew
    <3>3. QED
      BY <2>2, <3>2, ConstantsAssumption
  <2>3. QED
    BY <2>1, <2>2
<1>3. ASSUME NEW r \in Requests, Record(r) \/ Unregistered(r) \/ Mail(r) \/ Forget(r)
      PROVE  Cardinality(Through') < Limit
  <2>1. Through' \subseteq Through
    BY <1>3 DEF Record, Unregistered, Mail, Forget, Through, TypeOK, ReqStage
  <2>2. QED
    BY <1>1, <2>1
<1>4. CASE UNCHANGED requests
  BY <1>1, <1>4 DEF requests, Through
<1>5. ASSUME NEW l \in Links, NEW c \in Clicks, Lock(c, l) \/ NotLocked(c, l)
      PROVE  Cardinality(Through') < Limit
  BY <1>4, <1>5 DEF Lock, NotLocked
<1>6. ASSUME NEW c \in Clicks, Continue(c) \/ Abort(c)
      PROVE  Cardinality(Through') < Limit
  BY <1>4, <1>6
  DEF Continue, FindAccount, AskName, Insert, InsertFails, Update, Commit, SignIn, Abort
<1>7. ASSUME NEW l \in Links, ExpireLink(l)
      PROVE  Cardinality(Through') < Limit
  BY <1>4, <1>7 DEF ExpireLink
<1>8. CASE UNCHANGED vars
  BY <1>4, <1>8 DEF vars
<1>9. QED
  BY <1>2, <1>3, <1>5, <1>6, <1>7, <1>8 DEF Next, Request

(* The limit holds for any limit and any number of simultaneous requests,  *)
(* because an attempt is recorded before it is counted.                    *)
THEOREM AttemptsAreLimited == Spec => []RateLimit
  BY TypeInit, TypeNext, RateInit, RateNext, PTL DEF Spec
=============================================================================
