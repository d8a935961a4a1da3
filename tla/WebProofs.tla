------------------------------ MODULE WebProofs ------------------------------
(***************************************************************************)
(* The dashboard, and the weekly job that counts for it: the tokens of the *)
(* API, signing in by Discord and the weeks of the usage statistics, for   *)
(* any number of people, tokens, requests, weeks, uses and jobs. And what  *)
(* all parts of the dashboard promise together.                            *)
(*                                                                         *)
(* The tokens and the sign-ins have no lock. Their properties leave out    *)
(* the logins and the people whose requests overlapped, so the invariants  *)
(* say of each other one that a single request is under way for it and     *)
(* that what the request has read is still so (LoneLoginOK, KnownOK); what *)
(* holds whether or not they overlapped is kept apart from that (ApiBase,  *)
(* VisitOK, EntryOK).                                                      *)
(*                                                                         *)
(* WeeksAreWhole is not inductive: a row is right when it is saved because *)
(* it was computed after its week was over from uses that come no more,    *)
(* and it comes next because the job that computed it has had the table to *)
(* itself since it looked where the table ends. Turn says so of the job    *)
(* that has the key; it holds until the key expires under a job.           *)
(***************************************************************************)
EXTENDS MCWeb, PremiumProofs, FiniteSetTheorems, SequenceTheorems,
        WellFoundedInduction, TLAPS
-----------------------------------------------------------------------------
(* The tokens of the API. *)

(* The tokens that are in the table, and the requests made with a token of *)
(* one login.                                                              *)
HasRow(k) == api_token[k] # NoKey
Serves(c, l) == api_key[c] # NoKey /\ root[api_key[c]] = l

(* A request under way has a token that was drawn, and the copies of the   *)
(* row are rows; the one that is saved may last that much longer.          *)
RequestOK(c) ==
  /\ api_stage[c] = "idle" <=> api_key[c] = NoKey
  /\ api_key[c] # NoKey => root[api_key[c]] # NoKey
  /\ api_stage[c] \in {"save", "replace", "create"} => api_copy[c] \in Token
  /\ api_stage[c] = "save" => api_copy[c].expiry_date + Window <= api_copy[c].max_expiry_date

(* Rows are of tokens that were drawn, and the first token of a login goes *)
(* back to itself.                                                         *)
LoginOK(k) ==
  /\ HasRow(k) => root[k] # NoKey
  /\ HasRow(k) => api_token[k].expiry_date <= api_token[k].max_expiry_date
  /\ root[k] # NoKey => root[root[k]] = root[k]
  /\ k \in closed => root[k] = k

(* The rows and the copies of one login are all of one user.               *)
OwnedBy(owner) ==
  /\ \A k \in Keys : HasRow(k) => api_token[k].user = owner[root[k]]
  /\ \A c \in ApiCalls : api_stage[c] \in {"save", "replace", "create"} =>
       api_copy[c].user = owner[root[api_key[c]]]

(* A login of which no two requests overlapped: one request at most, one   *)
(* row at most, which a request that reads or saves finds as it was; none  *)
(* while it is replaced; and what the client was told is what the row says.*)
InHand(c, l) ==
  /\ api_stage[c] \in {"read", "invalidate"} => HasRow(api_key[c])
  /\ api_stage[c] \in {"save", "replace"} => api_token[api_key[c]] = api_copy[c]
  /\ api_stage[c] = "create" => \A k \in Keys : root[k] = l => ~HasRow(k)

(* Of a login whose requests did not cross: one request at a time has its  *)
(* token, one row is left of it, a closed one has none, and unless a       *)
(* request broke off the client was told the expiry the row has.           *)
LoneLoginOK(l) ==
  /\ \A c, d \in ApiCalls : Serves(c, l) /\ Serves(d, l) => c = d
  /\ \A j, k \in Keys : HasRow(j) /\ root[j] = l /\ HasRow(k) /\ root[k] = l => j = k
  /\ \A c \in ApiCalls : Serves(c, l) => InHand(c, l)
  /\ l \in closed =>
       /\ \A k \in Keys : root[k] = l => ~HasRow(k)
       /\ \A c \in ApiCalls : ~Serves(c, l)
  /\ l \notin closed \cup broken =>
       \A k \in Keys : root[k] = l /\ told[k] # 0 =>
         \/ HasRow(k) /\ api_token[k].expiry_date = told[k]
         \/ \E c \in ApiCalls : api_stage[c] = "create" /\ api_key[c] = k

(* What holds of every login, crossed or not. *)
ApiBase ==
  /\ ApiTypeOK
  /\ \A c \in ApiCalls : RequestOK(c)
  /\ \A k \in Keys : LoginOK(k)
  /\ \E owner \in [Keys -> Clients \cup {NoKey}] : OwnedBy(owner)

(* The inductive invariant. *)
ApiInv == ApiBase /\ \A l \in Keys \ crossed : LoneLoginOK(l)
-----------------------------------------------------------------------------
(* The mark of no token is none of the tokens. *)
LEMMA KeysAreKeys == NoKey \notin Keys /\ Keys \subseteq Nat
  BY ApiTokensAssumption DEF Keys

(* There are no tokens at the start. *)
LEMMA ApiInitially ==
  ASSUME ApiInit
  PROVE  ApiInv
<1> USE KeysAreKeys
<1>1. ApiTypeOK
  BY DEF ApiInit, ApiTypeOK
<1>2. /\ \A c \in ApiCalls : RequestOK(c) /\ api_key[c] = NoKey
      /\ \A k \in Keys : LoginOK(k) /\ ~HasRow(k) /\ root[k] = NoKey
  BY DEF ApiInit, RequestOK, LoginOK, HasRow
<1>3. OwnedBy([k \in Keys |-> NoKey])
  BY <1>2 DEF ApiInit, OwnedBy
<1>4. \A l \in Keys : LoneLoginOK(l)
  BY <1>2 DEF ApiInit, LoneLoginOK, Serves
<1> QED
  BY <1>1, <1>2, <1>3, <1>4 DEF ApiInv, ApiBase

(* A login of which a step changes nothing. *)
SameLogin(l) ==
  /\ \A c \in ApiCalls : Serves(c, l)' <=> Serves(c, l)
  /\ \A c \in ApiCalls : Serves(c, l) =>
       /\ api_stage'[c] = api_stage[c] /\ api_key'[c] = api_key[c] /\ api_copy'[c] = api_copy[c]
  /\ \A k \in Keys : root'[k] = l <=> root[k] = l
  /\ \A k \in Keys : root[k] = l => api_token'[k] = api_token[k] /\ told'[k] = told[k]
  /\ l \in closed' <=> l \in closed
  /\ l \in broken' <=> l \in broken

(* A step that does not touch a login, and one that ends a request. *)
LEMMA AloneStays ==
  ASSUME ApiBase, NEW l \in Keys, LoneLoginOK(l), SameLogin(l)
  PROVE  LoneLoginOK(l)'
<1> USE KeysAreKeys DEF HasRow, InHand
<1>1. \A c \in ApiCalls : Serves(c, l) => api_key[c] \in Keys /\ root[api_key[c]] = l
  BY DEF Serves, ApiBase, ApiTypeOK
<1>2. (\A c, d \in ApiCalls : Serves(c, l) /\ Serves(d, l) => c = d)'
  BY DEF LoneLoginOK, SameLogin
<1>3. (\A j, k \in Keys : HasRow(j) /\ root[j] = l /\ HasRow(k) /\ root[k] = l => j = k)'
  BY DEF LoneLoginOK, SameLogin
<1>4. ASSUME NEW c \in ApiCalls, Serves(c, l)'
      PROVE  (/\ api_stage[c] \in {"read", "invalidate"} => HasRow(api_key[c])
              /\ api_stage[c] \in {"save", "replace"} => api_token[api_key[c]] = api_copy[c]
              /\ api_stage[c] = "create" => \A k \in Keys : root[k] = l => ~HasRow(k))'
  <2>1. /\ Serves(c, l) /\ api_key[c] \in Keys /\ root[api_key[c]] = l
        /\ api_stage'[c] = api_stage[c] /\ api_key'[c] = api_key[c] /\ api_copy'[c] = api_copy[c]
        /\ api_token'[api_key[c]] = api_token[api_key[c]]
    BY <1>1, <1>4 DEF SameLogin
  <2>2. /\ api_stage[c] \in {"read", "invalidate"} => HasRow(api_key[c])
        /\ api_stage[c] \in {"save", "replace"} => api_token[api_key[c]] = api_copy[c]
        /\ api_stage[c] = "create" => \A k \in Keys : root[k] = l => ~HasRow(k)
    BY <2>1 DEF LoneLoginOK
  <2>3. ASSUME api_stage[c] = "create", NEW k \in Keys, root'[k] = l
        PROVE  ~HasRow(k)'
    BY <2>2, <2>3 DEF SameLogin
  <2> QED
    BY <2>1, <2>2, <2>3
<1>5. (l \in closed =>
         /\ \A k \in Keys : root[k] = l => ~HasRow(k)
         /\ \A c \in ApiCalls : ~Serves(c, l))'
  BY DEF LoneLoginOK, SameLogin
<1>6. ASSUME l \notin closed' \cup broken', NEW k \in Keys, root'[k] = l, told'[k] # 0
      PROVE  (\/ HasRow(k) /\ api_token[k].expiry_date = told[k]
              \/ \E c \in ApiCalls : api_stage[c] = "create" /\ api_key[c] = k)'
  <2>1. root[k] = l /\ api_token'[k] = api_token[k] /\ told'[k] = told[k] /\ l \notin closed \cup broken
    BY <1>6 DEF SameLogin
  <2>2. CASE HasRow(k) /\ api_token[k].expiry_date = told[k]
    BY <2>1, <2>2
  <2>3. CASE \E c \in ApiCalls : api_stage[c] = "create" /\ api_key[c] = k
    BY <2>1, <2>3 DEF SameLogin, Serves
  <2> QED
    BY <1>6, <2>1, <2>2, <2>3 DEF LoneLoginOK
<1> QED
  BY <1>2, <1>3, <1>4, <1>5, <1>6 DEF LoneLoginOK

-----------------------------------------------------------------------------
(* One request's own part.  ApiStep and ApiDone, pointwise.                *)
OtherRequests(c) ==
  \A d \in ApiCalls \ {c} :
    api_stage'[d] = api_stage[d] /\ api_key'[d] = api_key[d] /\ api_copy'[d] = api_copy[d]

LEMMA DonePoint ==
  ASSUME ApiTypeOK, NEW c \in ApiCalls, ApiDone(c)
  PROVE  /\ api_stage'[c] = "idle" /\ api_key'[c] = NoKey /\ api_copy'[c] = NoKey
         /\ OtherRequests(c)
         /\ api_stage' \in [ApiCalls -> {"idle", "read", "save", "replace", "create", "invalidate"}]
         /\ api_key' \in [ApiCalls -> Keys \cup {NoKey}]
         /\ api_copy' \in [ApiCalls -> Token \cup {NoKey}]
  BY DEF ApiTypeOK, ApiDone, ApiStep, OtherRequests

(* What request c does to its login leaves every other login as it was.    *)
LEMMA OtherLoginsStay ==
  ASSUME ApiBase, NEW c \in ApiCalls, api_key[c] # NoKey, OtherRequests(c),
         api_key'[c] \in {api_key[c], NoKey},
         \A k \in Keys : root'[k] # root[k] => root[k] = NoKey /\ root'[k] = Login(c),
         \A k \in Keys : root[k] \notin {NoKey, Login(c)} =>
           api_token'[k] = api_token[k] /\ told'[k] = told[k],
         closed' \in {closed, closed \cup {Login(c)}},
         broken' \in {broken, broken \cup {Login(c)}},
         NEW l \in Keys \ {Login(c)}
  PROVE  SameLogin(l)
<1> USE KeysAreKeys
<1>1. \A d \in ApiCalls : api_key[d] # NoKey => api_key[d] \in Keys /\ root[api_key[d]] # NoKey
  BY DEF ApiBase, ApiTypeOK, RequestOK
<1>2. \A d \in ApiCalls : Serves(d, l)' <=> Serves(d, l)
  <2>1. ASSUME NEW d \in ApiCalls \ {c}
        PROVE  Serves(d, l)' <=> Serves(d, l)
    <3>1. api_key'[d] = api_key[d]
      BY DEF OtherRequests
    <3>2. api_key[d] # NoKey => root'[api_key[d]] = root[api_key[d]]
      BY <1>1
    <3> QED
      BY <3>1, <3>2 DEF Serves
  <2>2. ~Serves(c, l)
    BY DEF Serves, Login
  <2>3. ~Serves(c, l)'
    <3>1. root'[api_key[c]] = root[api_key[c]]
      BY <1>1
    <3> QED
      BY <3>1 DEF Serves, Login
  <2> QED
    BY <2>1, <2>2, <2>3
<1>3. ~Serves(c, l)
  BY DEF Serves, Login
<1>4. \A d \in ApiCalls : Serves(d, l) =>
        /\ api_stage'[d] = api_stage[d] /\ api_key'[d] = api_key[d] /\ api_copy'[d] = api_copy[d]
  BY <1>3 DEF OtherRequests
<1>5. \A k \in Keys : root'[k] = l <=> root[k] = l
  OBVIOUS
<1>6. \A k \in Keys : root[k] = l => api_token'[k] = api_token[k] /\ told'[k] = told[k]
  OBVIOUS
<1>7. (l \in closed' <=> l \in closed) /\ (l \in broken' <=> l \in broken)
  OBVIOUS
<1> QED
  BY <1>2, <1>4, <1>5, <1>6, <1>7 DEF SameLogin

(* A token belongs to the login it was drawn for, for good. *)
RootsStay == \A k \in Keys : root[k] # NoKey => root'[k] = root[k]

(* So the other requests keep what they have. *)
LEMMA OtherRequestsOK ==
  ASSUME ApiBase, NEW c \in ApiCalls, OtherRequests(c), RootsStay
  PROVE  \A d \in ApiCalls \ {c} : RequestOK(d)'
<1> TAKE d \in ApiCalls \ {c}
<1>1. /\ api_stage'[d] = api_stage[d] /\ api_key'[d] = api_key[d] /\ api_copy'[d] = api_copy[d]
      /\ RequestOK(d) /\ api_key[d] \in Keys \cup {NoKey}
  BY DEF OtherRequests, ApiBase, ApiTypeOK
<1>2. api_key[d] # NoKey => root'[api_key[d]] = root[api_key[d]]
  BY <1>1 DEF RootsStay, RequestOK
<1> QED
  BY <1>1, <1>2 DEF RequestOK

(* The login a request works for. *)
LEMMA BusyTake ==
  ASSUME ApiInv, NEW c \in ApiCalls, api_stage[c] # "idle"
  PROVE  /\ api_key[c] \in Keys /\ api_key[c] # NoKey
         /\ Login(c) \in Keys /\ Login(c) # NoKey /\ root[Login(c)] = Login(c)
         /\ Login(c) = root[api_key[c]] /\ Serves(c, Login(c))
         /\ Login(c) \notin crossed =>
              LoneLoginOK(Login(c)) /\ \A d \in ApiCalls \ {c} : ~Serves(d, Login(c))
<1>1. RequestOK(c) /\ ApiTypeOK
  BY DEF ApiInv, ApiBase
<1>2. api_key[c] \in Keys /\ api_key[c] # NoKey /\ root[api_key[c]] # NoKey
  BY <1>1 DEF RequestOK, ApiTypeOK
<1>3. Login(c) \in Keys /\ root[Login(c)] = Login(c)
  BY <1>1, <1>2 DEF Login, ApiTypeOK, ApiInv, ApiBase, LoginOK
<1>4. Serves(c, Login(c))
  BY <1>2 DEF Serves, Login
<1>5. Login(c) \notin crossed => LoneLoginOK(Login(c))
  BY <1>3 DEF ApiInv
<1> QED
  BY <1>2, <1>3, <1>4, <1>5, KeysAreKeys DEF LoneLoginOK, Login

(* A step of request c is right if it is for its own login.                *)
LEMMA RequestStep ==
  ASSUME ApiInv, NEW c \in ApiCalls, api_stage[c] # "idle", NEW L \in Keys, L = Login(c),
         ApiTypeOK', OtherRequests(c), api_key'[c] \in {api_key[c], NoKey},
         \A k \in Keys : root'[k] # root[k] => root[k] = NoKey /\ root'[k] = L,
         \A k \in Keys : root[k] \notin {NoKey, L} =>
           api_token'[k] = api_token[k] /\ told'[k] = told[k],
         closed' \in {closed, closed \cup {L}}, broken' \in {broken, broken \cup {L}},
         crossed' = crossed,
         RequestOK(c)',
         \A k \in Keys : LoginOK(k)',
         \A owner \in [Keys -> Clients \cup {NoKey}] : OwnedBy(owner) => OwnedBy(owner)',
         L \notin crossed => LoneLoginOK(L)'
  PROVE  ApiInv'
<1>1. api_key[c] # NoKey
  BY BusyTake
<1>2. \A d \in ApiCalls \ {c} : RequestOK(d)'
  BY OtherRequestsOK DEF RootsStay, ApiInv
<1>3. ApiBase'
  BY <1>2 DEF ApiInv, ApiBase
<1>4. \A l \in Keys \ {L} : SameLogin(l)
  BY <1>1, OtherLoginsStay DEF ApiInv
<1>5. \A l \in Keys \ crossed' : LoneLoginOK(l)'
  BY <1>4, AloneStays DEF ApiInv
<1> QED
  BY <1>3, <1>5 DEF ApiInv

(* What a row and its login say stays when neither changes. *)
LEMMA LoginsStay ==
  ASSUME ApiBase, UNCHANGED <<api_token, root, closed>>
  PROVE  \A k \in Keys : LoginOK(k)'
  BY DEF ApiBase, LoginOK, HasRow

(* The part of a login whose only request is c: what c's own step has to   *)
(* show.                                                                   *)
RequestRows(c, L) ==
  /\ \A j, k \in Keys : HasRow(j) /\ root[j] = L /\ HasRow(k) /\ root[k] = L => j = k
  /\ L \in closed => \A k \in Keys : root[k] = L => ~HasRow(k)

(* The last part of LoneLoginOK by itself: the client was told the truth. *)
ToldTrue(L) ==
  \A k \in Keys : root[k] = L /\ told[k] # 0 =>
    \/ HasRow(k) /\ api_token[k].expiry_date = told[k]
    \/ \E c \in ApiCalls : api_stage[c] = "create" /\ api_key[c] = k

(* A step of the one request of a login, from what it leaves of that login. *)
LEMMA LoneStep ==
  ASSUME ApiBase, NEW c \in ApiCalls, NEW L \in Keys, OtherRequests(c), RootsStay,
         \A d \in ApiCalls \ {c} : ~Serves(d, L),
         RequestRows(c, L)',
         Serves(c, L)' => InHand(c, L)' /\ L \notin closed',
         L \notin closed' \cup broken' => ToldTrue(L)'
  PROVE  LoneLoginOK(L)'
<1>1. \A d \in ApiCalls \ {c} : ~Serves(d, L)'
  <2> TAKE d \in ApiCalls \ {c}
  <2>1. api_key'[d] = api_key[d] /\ RequestOK(d) /\ api_key[d] \in Keys \cup {NoKey}
    BY DEF OtherRequests, ApiBase, ApiTypeOK
  <2>2. api_key[d] # NoKey => root'[api_key[d]] = root[api_key[d]]
    BY <2>1 DEF RootsStay, RequestOK
  <2> QED
    BY <2>1, <2>2 DEF Serves
<1>2. \A d \in ApiCalls : Serves(d, L)' => d = c
  BY <1>1
<1>3. \A d \in ApiCalls : Serves(d, L)' => InHand(d, L)' /\ L \notin closed'
  BY <1>2
<1> QED
  BY <1>2, <1>3 DEF LoneLoginOK, RequestRows, ToldTrue

(* The steps of a request, one lemma each. *)
LEMMA ReadStep ==
  ASSUME ApiInv, NEW c \in ApiCalls, ReadToken(c)
  PROVE  ApiInv'
<1> DEFINE row == api_token[api_key[c]]
<1> USE KeysAreKeys
<1>1. /\ api_stage[c] = "read" /\ UNCHANGED <<hour, api_token, root, told, crossed, broken, closed>>
  BY DEF ReadToken, apiHistory
<1>0. PICK L \in Keys : L = Login(c)
  BY <1>1, BusyTake
<1>2. /\ api_key[c] \in Keys /\ api_key[c] # NoKey /\ L = root[api_key[c]]
      /\ L \notin crossed => LoneLoginOK(L) /\ \A d \in ApiCalls \ {c} : ~Serves(d, L)
      /\ Serves(c, L)
  BY <1>0, <1>1, BusyTake
<1>3. ApiTypeOK /\ row \in Token \cup {NoKey} /\ RequestOK(c) /\ LoginOK(api_key[c])
  BY <1>2 DEF ApiInv, ApiBase, ApiTypeOK
<1>4. \/ ApiDone(c)
      \/ /\ row # NoKey /\ api_copy' = [api_copy EXCEPT ![c] = row] /\ UNCHANGED api_key
         /\ \/ ApiStep(c, "replace")
            \/ ApiStep(c, "save") /\ row.expiry_date + Window <= row.max_expiry_date
  <2>1. row # NoKey => (~ExpiresWithinWindow(row) => row.expiry_date + Window <= row.max_expiry_date)
    BY <1>3, ApiTokensAssumption DEF ExpiresWithinWindow, Token
  <2> QED
    BY <2>1 DEF ReadToken
<1>7. (\A k \in Keys : LoginOK(k)') /\ RootsStay /\ ApiBase
  BY <1>1, LoginsStay DEF RootsStay, ApiInv
<1>8. ASSUME L \notin crossed
      PROVE  /\ RequestRows(c, L)' /\ L \notin closed'
             /\ \A k \in Keys : root[k] = L /\ told[k] # 0 /\ L \notin closed \cup broken =>
                  HasRow(k) /\ api_token[k].expiry_date = told[k]
  <2>1. LoneLoginOK(L) /\ \A d \in ApiCalls \ {c} : ~Serves(d, L)
    BY <1>2, <1>8
  <2>2. L \notin closed
    BY <1>2, <2>1 DEF LoneLoginOK
  <2>3. RequestRows(c, L)'
    BY <1>1, <2>1, <2>2 DEF LoneLoginOK, RequestRows, HasRow
  <2>4. \A k \in Keys : root[k] = L => ~\E d \in ApiCalls : api_stage[d] = "create" /\ api_key[d] = k
    BY <1>1, <2>1 DEF Serves
  <2> QED
    BY <1>1, <2>1, <2>2, <2>3, <2>4 DEF LoneLoginOK
<1>9. ASSUME L \notin crossed
      PROVE  L \notin closed' \cup broken' => ToldTrue(L)'
  BY <1>1, <1>8, <1>9 DEF ToldTrue, HasRow
<1>5. CASE ApiDone(c)
  <2>1. /\ api_stage'[c] = "idle" /\ api_key'[c] = NoKey /\ OtherRequests(c)
        /\ api_stage' \in [ApiCalls -> {"idle", "read", "save", "replace", "create", "invalidate"}]
        /\ api_key' \in [ApiCalls -> Keys \cup {NoKey}]
        /\ api_copy' \in [ApiCalls -> Token \cup {NoKey}]
    BY <1>3, <1>5, DonePoint
  <2>2. ApiTypeOK'
    BY <1>1, <1>3, <2>1 DEF ApiTypeOK
  <2>3. RequestOK(c)' /\ ~Serves(c, L)'
    BY <2>1 DEF RequestOK, Serves
  <2>4. ASSUME NEW owner \in [Keys -> Clients \cup {NoKey}], OwnedBy(owner)
        PROVE  OwnedBy(owner)'
    BY <1>1, <2>1, <2>4 DEF OwnedBy, OtherRequests, HasRow
  <2>5. ASSUME L \notin crossed
        PROVE  LoneLoginOK(L)'
    BY <1>2, <1>7, <1>8, <1>9, <2>1, <2>3, <2>5, LoneStep
  <2> QED
    BY <1>0, <1>1, <1>2, <1>7, <2>1, <2>2, <2>3, <2>4, <2>5, RequestStep
<1>6. CASE /\ row # NoKey /\ api_copy' = [api_copy EXCEPT ![c] = row] /\ UNCHANGED api_key
           /\ \/ ApiStep(c, "replace")
              \/ ApiStep(c, "save") /\ row.expiry_date + Window <= row.max_expiry_date
  <2>1. /\ api_stage'[c] \in {"replace", "save"} /\ api_key' = api_key /\ api_copy'[c] = row
        /\ api_stage'[c] = "save" => row.expiry_date + Window <= row.max_expiry_date
        /\ OtherRequests(c)
    BY <1>3, <1>6 DEF ApiStep, ApiTypeOK, OtherRequests
  <2>2. ApiTypeOK'
    BY <1>1, <1>3, <1>6 DEF ApiTypeOK, ApiStep
  <2>3. RequestOK(c)'
    BY <1>1, <1>2, <1>3, <1>6, <2>1 DEF RequestOK
  <2>6. InHand(c, L)'
    BY <1>1, <2>1 DEF InHand
  <2>4. ASSUME NEW owner \in [Keys -> Clients \cup {NoKey}], OwnedBy(owner)
        PROVE  OwnedBy(owner)'
    <3>1. row.user = owner[root[api_key[c]]]
      BY <1>2, <1>6, <2>4 DEF OwnedBy, HasRow
    <3> QED
      BY <1>1, <2>1, <2>4, <3>1 DEF OwnedBy, OtherRequests, HasRow
  <2>5. ASSUME L \notin crossed
        PROVE  LoneLoginOK(L)'
    BY <1>2, <1>7, <1>8, <1>9, <2>1, <2>6, <2>5, LoneStep
  <2> QED
    BY <1>0, <1>1, <1>2, <1>7, <2>1, <2>2, <2>3, <2>4, <2>5, RequestStep
<1> QED
  BY <1>4, <1>5, <1>6
(* What the steps that end a request have in common. *)
LEMMA OwnLogin ==
  ASSUME ApiInv, NEW c \in ApiCalls, api_stage[c] # "idle"
  PROVE  \E L \in Keys :
           /\ L = Login(c) /\ root[L] = L /\ L # NoKey
           /\ api_key[c] \in Keys /\ api_key[c] # NoKey /\ root[api_key[c]] = L
           /\ Serves(c, L)
           /\ L \notin crossed =>
                /\ L \notin closed
                /\ \A d \in ApiCalls \ {c} : ~Serves(d, L)
                /\ LoneLoginOK(L) /\ InHand(c, L)
  BY BusyTake DEF LoneLoginOK

LEMMA SaveStep ==
  ASSUME ApiInv, NEW c \in ApiCalls, SaveToken(c)
  PROVE  ApiInv'
<1> DEFINE k == api_key[c]
           row == [api_copy[c] EXCEPT !.expiry_date = @ + Window]
<1> USE KeysAreKeys
<1>1. /\ api_stage[c] = "save" /\ ApiDone(c) /\ UNCHANGED <<hour, root, crossed, broken, closed>>
      /\ api_token' = IF api_token[k] = NoKey THEN api_token ELSE [api_token EXCEPT ![k] = row]
      /\ told' = [told EXCEPT ![k] = row.expiry_date]
  BY DEF SaveToken
<1>0. PICK L \in Keys :
        /\ L = Login(c) /\ root[L] = L /\ L # NoKey
        /\ k \in Keys /\ k # NoKey /\ root[k] = L
        /\ Serves(c, L)
        /\ L \notin crossed =>
             /\ L \notin closed
             /\ \A d \in ApiCalls \ {c} : ~Serves(d, L)
             /\ LoneLoginOK(L) /\ InHand(c, L)
  BY <1>1, OwnLogin
<1>2. ApiTypeOK /\ ApiBase /\ RequestOK(c) /\ \A j \in Keys : LoginOK(j)
  BY DEF ApiInv, ApiBase
<1>3. /\ row \in Token /\ row.expiry_date \in Nat /\ row.expiry_date <= row.max_expiry_date
      /\ row.user = api_copy[c].user /\ row # NoKey /\ api_copy[c] # NoKey
  <2>1. api_copy[c] \in Token /\ api_copy[c].expiry_date + Window <= api_copy[c].max_expiry_date
    BY <1>1, <1>2 DEF RequestOK
  <2> QED
    BY <2>1, ApiTokensAssumption, NoTokenAssumption DEF Token
<1>4. /\ \A j \in Keys : HasRow(j)' <=> HasRow(j)
      /\ \A j \in Keys \ {k} : api_token'[j] = api_token[j] /\ told'[j] = told[j]
      /\ HasRow(k) => api_token'[k] = row
      /\ told'[k] = row.expiry_date
  BY <1>0, <1>1, <1>2, <1>3 DEF HasRow, ApiTypeOK
<1> HIDE DEF row, k
<1>5. /\ api_stage'[c] = "idle" /\ api_key'[c] = NoKey /\ OtherRequests(c)
      /\ api_stage' \in [ApiCalls -> {"idle", "read", "save", "replace", "create", "invalidate"}]
      /\ api_key' \in [ApiCalls -> Keys \cup {NoKey}]
      /\ api_copy' \in [ApiCalls -> Token \cup {NoKey}]
  BY <1>1, <1>2, DonePoint
<1>6. ApiTypeOK'
  <2>1. api_token' \in [Keys -> Token \cup {NoKey}] /\ told' \in [Keys -> Nat]
    BY <1>1, <1>2, <1>3 DEF ApiTypeOK
  <2> QED
    BY <1>1, <1>2, <1>5, <2>1 DEF ApiTypeOK
<1>7. RequestOK(c)' /\ ~Serves(c, L)' /\ RootsStay
  BY <1>1, <1>5 DEF RequestOK, Serves, RootsStay
<1>8. \A j \in Keys : LoginOK(j)'
  <2> TAKE j \in Keys
  <2>1. HasRow(j)' => root'[j] # NoKey /\ api_token'[j].expiry_date <= api_token'[j].max_expiry_date
    BY <1>1, <1>2, <1>3, <1>4 DEF LoginOK
  <2> QED
    BY <1>1, <1>2, <2>1 DEF LoginOK
<1>9. ASSUME NEW owner \in [Keys -> Clients \cup {NoKey}], OwnedBy(owner)
      PROVE  OwnedBy(owner)'
  <2>1. row.user = owner[root[k]]
    BY <1>1, <1>3, <1>9 DEF OwnedBy, k
  <2>2. \A j \in Keys : HasRow(j)' => api_token'[j].user = owner[root'[j]]
    BY <1>1, <1>4, <1>9, <2>1 DEF OwnedBy
  <2> QED
    BY <1>1, <1>5, <1>9, <2>2 DEF OwnedBy, OtherRequests
<1>10. ASSUME L \notin crossed
       PROVE  LoneLoginOK(L)'
  <2>1. HasRow(k)
    BY <1>0, <1>1, <1>3, <1>10 DEF InHand, HasRow, k
  <2>2. RequestRows(c, L)'
    BY <1>0, <1>1, <1>4, <1>10 DEF LoneLoginOK, RequestRows
  <2>3. ASSUME L \notin closed' \cup broken', NEW j \in Keys, root'[j] = L, told'[j] # 0
        PROVE  HasRow(j)' /\ api_token'[j].expiry_date = told'[j]
    <3>1. CASE j = k
      BY <1>4, <2>1, <3>1
    <3>2. CASE j # k
      <4>1. told[j] # 0 /\ root[j] = L /\ L \notin closed \cup broken
        BY <1>1, <1>4, <2>3, <3>2
      <4>2. ~\E d \in ApiCalls : api_stage[d] = "create" /\ api_key[d] = j
        BY <1>0, <1>1, <1>10, <4>1 DEF Serves
      <4>3. HasRow(j)
        BY <1>0, <1>10, <4>1, <4>2 DEF LoneLoginOK
      <4> QED
        BY <1>0, <1>10, <2>1, <3>2, <4>1, <4>3 DEF LoneLoginOK
    <3> QED
      BY <3>1, <3>2
  <2>4. L \notin closed' \cup broken' => ToldTrue(L)'
    BY <2>3 DEF ToldTrue
  <2> QED
    BY <1>0, <1>2, <1>5, <1>7, <1>10, <2>2, <2>4, LoneStep
<1> QED
  <2>1. \A j \in Keys : root[j] \notin {NoKey, L} => api_token'[j] = api_token[j] /\ told'[j] = told[j]
    BY <1>0, <1>4
  <2>2. \A j \in Keys : root'[j] # root[j] => root[j] = NoKey /\ root'[j] = L
    BY <1>1
  <2>3. api_key'[c] \in {api_key[c], NoKey}
    BY <1>5
  <2> QED
    BY <1>0, <1>1, <1>5, <1>6, <1>7, <1>8, <1>9, <1>10, <2>1, <2>2, <2>3, RequestStep

LEMMA DeleteStep ==
  ASSUME ApiInv, NEW c \in ApiCalls, DeleteToken(c)
  PROVE  ApiInv'
<1> DEFINE k == api_key[c]
<1> USE KeysAreKeys
<1>1. /\ api_stage[c] = "replace" /\ ApiStep(c, "create")
      /\ UNCHANGED <<hour, api_key, api_copy, root, told, crossed, broken, closed>>
      /\ api_token' = [api_token EXCEPT ![k] = NoKey]
  BY DEF DeleteToken, apiHistory
<1>0. PICK L \in Keys :
        /\ L = Login(c) /\ root[L] = L /\ L # NoKey
        /\ k \in Keys /\ k # NoKey /\ root[k] = L
        /\ Serves(c, L)
        /\ L \notin crossed =>
             /\ L \notin closed
             /\ \A d \in ApiCalls \ {c} : ~Serves(d, L)
             /\ LoneLoginOK(L) /\ InHand(c, L)
  BY <1>1, OwnLogin
<1>2. ApiTypeOK /\ ApiBase /\ RequestOK(c) /\ \A j \in Keys : LoginOK(j)
  BY DEF ApiInv, ApiBase
<1>3. api_copy[c] \in Token /\ api_copy[c] # NoKey
  BY <1>1, <1>2, NoTokenAssumption DEF RequestOK
<1>4. /\ \A j \in Keys \ {k} : api_token'[j] = api_token[j]
      /\ ~HasRow(k)' /\ \A j \in Keys : HasRow(j)' => j # k /\ HasRow(j) /\ api_token'[j] = api_token[j]
  BY <1>0, <1>1, <1>2 DEF HasRow, ApiTypeOK
<1> HIDE DEF k
<1>5. api_stage'[c] = "create" /\ api_key' = api_key /\ OtherRequests(c)
  BY <1>1, <1>2 DEF ApiTypeOK, ApiStep, OtherRequests
<1>6. ApiTypeOK'
  BY <1>1, <1>2 DEF ApiTypeOK, ApiStep
<1>7. RequestOK(c)' /\ RootsStay
  BY <1>1, <1>2, <1>3, <1>5 DEF RequestOK, RootsStay
<1>8. \A j \in Keys : LoginOK(j)'
  BY <1>1, <1>2, <1>4 DEF LoginOK
<1>9. ASSUME NEW owner \in [Keys -> Clients \cup {NoKey}], OwnedBy(owner)
      PROVE  OwnedBy(owner)'
  <2>1. \A d \in ApiCalls : api_stage'[d] \in {"save", "replace", "create"} =>
           api_stage[d] \in {"save", "replace", "create"}
    BY <1>1, <1>5 DEF OtherRequests
  <2> QED
    BY <1>1, <1>4, <1>9, <2>1 DEF OwnedBy
<1>10. ASSUME L \notin crossed
       PROVE  LoneLoginOK(L)'
  <2>1. HasRow(k)
    BY <1>0, <1>1, <1>3, <1>10 DEF InHand, HasRow, k
  <2>2. \A j \in Keys : root'[j] = L => ~HasRow(j)'
    BY <1>0, <1>1, <1>4, <1>10, <2>1 DEF LoneLoginOK
  <2>3. RequestRows(c, L)' /\ InHand(c, L)'
    BY <1>5, <2>2 DEF RequestRows, InHand
  <2>4. ASSUME L \notin closed' \cup broken', NEW j \in Keys, root'[j] = L, told'[j] # 0
        PROVE  j = k
    <3>1. told[j] # 0 /\ root[j] = L /\ L \notin closed \cup broken
      BY <1>1, <2>4
    <3>2. ~\E d \in ApiCalls : api_stage[d] = "create" /\ api_key[d] = j
      BY <1>0, <1>1, <1>10, <3>1 DEF Serves
    <3>3. HasRow(j)
      BY <1>0, <1>10, <3>1, <3>2 DEF LoneLoginOK
    <3> QED
      BY <1>0, <1>10, <2>1, <3>1, <3>3 DEF LoneLoginOK
  <2>5. L \notin closed' \cup broken' => ToldTrue(L)'
    BY <1>1, <1>5, <2>4 DEF ToldTrue, k
  <2> QED
    BY <1>0, <1>1, <1>2, <1>5, <1>7, <1>10, <2>3, <2>5, LoneStep
<1> QED
  <2>1. \A j \in Keys : root[j] \notin {NoKey, L} => api_token'[j] = api_token[j] /\ told'[j] = told[j]
    BY <1>0, <1>1, <1>4
  <2>2. \A j \in Keys : root'[j] # root[j] => root[j] = NoKey /\ root'[j] = L
    BY <1>1
  <2> QED
    BY <1>0, <1>1, <1>5, <1>6, <1>7, <1>8, <1>9, <1>10, <2>1, <2>2, RequestStep
LEMMA InvalidateStep ==
  ASSUME ApiInv, NEW c \in ApiCalls, InvalidateToken(c)
  PROVE  ApiInv'
<1> DEFINE k == api_key[c]
<1> USE KeysAreKeys
<1>1. /\ api_stage[c] = "invalidate" /\ ApiDone(c)
      /\ UNCHANGED <<hour, root, told, crossed, broken>>
      /\ api_token' = [api_token EXCEPT ![k] = NoKey]
      /\ closed' = closed \cup {Login(c)}
  BY DEF InvalidateToken
<1>0. PICK L \in Keys :
        /\ L = Login(c) /\ root[L] = L /\ L # NoKey
        /\ k \in Keys /\ k # NoKey /\ root[k] = L
        /\ Serves(c, L)
        /\ L \notin crossed =>
             /\ L \notin closed
             /\ \A d \in ApiCalls \ {c} : ~Serves(d, L)
             /\ LoneLoginOK(L) /\ InHand(c, L)
  BY <1>1, OwnLogin
<1>2. ApiTypeOK /\ ApiBase /\ RequestOK(c) /\ \A j \in Keys : LoginOK(j)
  BY DEF ApiInv, ApiBase
<1>4. /\ \A j \in Keys \ {k} : api_token'[j] = api_token[j]
      /\ \A j \in Keys : HasRow(j)' => j # k /\ HasRow(j) /\ api_token'[j] = api_token[j]
  BY <1>0, <1>1, <1>2 DEF HasRow, ApiTypeOK
<1> HIDE DEF k
<1>5. /\ api_stage'[c] = "idle" /\ api_key'[c] = NoKey /\ OtherRequests(c)
      /\ api_stage' \in [ApiCalls -> {"idle", "read", "save", "replace", "create", "invalidate"}]
      /\ api_key' \in [ApiCalls -> Keys \cup {NoKey}]
      /\ api_copy' \in [ApiCalls -> Token \cup {NoKey}]
  BY <1>1, <1>2, DonePoint
<1>6. ApiTypeOK'
  BY <1>0, <1>1, <1>2, <1>5 DEF ApiTypeOK
<1>7. RequestOK(c)' /\ ~Serves(c, L)' /\ RootsStay
  BY <1>1, <1>5 DEF RequestOK, Serves, RootsStay
<1>8. \A j \in Keys : LoginOK(j)'
  BY <1>0, <1>1, <1>2, <1>4 DEF LoginOK
<1>9. ASSUME NEW owner \in [Keys -> Clients \cup {NoKey}], OwnedBy(owner)
      PROVE  OwnedBy(owner)'
  BY <1>1, <1>4, <1>5, <1>9 DEF OwnedBy, OtherRequests
<1>10. ASSUME L \notin crossed
       PROVE  LoneLoginOK(L)'
  <2>1. HasRow(k)
    BY <1>0, <1>1, <1>10 DEF InHand, k
  <2>2. \A j \in Keys : root'[j] = L => ~HasRow(j)'
    BY <1>0, <1>1, <1>4, <1>10, <2>1 DEF LoneLoginOK
  <2>3. RequestRows(c, L)' /\ L \in closed'
    BY <1>0, <1>1, <2>2 DEF RequestRows
  <2> QED
    BY <1>0, <1>2, <1>5, <1>7, <1>10, <2>3, LoneStep
<1> QED
  <2>1. \A j \in Keys : root[j] \notin {NoKey, L} => api_token'[j] = api_token[j] /\ told'[j] = told[j]
    BY <1>0, <1>1, <1>4
  <2>2. \A j \in Keys : root'[j] # root[j] => root[j] = NoKey /\ root'[j] = L
    BY <1>1
  <2>3. api_key'[c] \in {api_key[c], NoKey}
    BY <1>5
  <2> QED
    BY <1>0, <1>1, <1>5, <1>6, <1>7, <1>8, <1>9, <1>10, <2>1, <2>2, <2>3, RequestStep

LEMMA FailStep ==
  ASSUME ApiInv, NEW c \in ApiCalls, FailApiCall(c)
  PROVE  ApiInv'
<1> DEFINE k == api_key[c]
<1> USE KeysAreKeys
<1>1. /\ api_stage[c] # "idle" /\ ApiDone(c)
      /\ UNCHANGED <<hour, api_token, root, told, crossed, closed>>
      /\ broken' = broken \cup {Login(c)}
  BY DEF FailApiCall
<1>0. PICK L \in Keys :
        /\ L = Login(c) /\ root[L] = L /\ L # NoKey
        /\ k \in Keys /\ k # NoKey /\ root[k] = L
        /\ Serves(c, L)
        /\ L \notin crossed =>
             /\ L \notin closed
             /\ \A d \in ApiCalls \ {c} : ~Serves(d, L)
             /\ LoneLoginOK(L) /\ InHand(c, L)
  BY <1>1, OwnLogin
<1>2. ApiTypeOK /\ ApiBase /\ RequestOK(c) /\ \A j \in Keys : LoginOK(j)
  BY DEF ApiInv, ApiBase
<1> HIDE DEF k
<1>5. /\ api_stage'[c] = "idle" /\ api_key'[c] = NoKey /\ OtherRequests(c)
      /\ api_stage' \in [ApiCalls -> {"idle", "read", "save", "replace", "create", "invalidate"}]
      /\ api_key' \in [ApiCalls -> Keys \cup {NoKey}]
      /\ api_copy' \in [ApiCalls -> Token \cup {NoKey}]
  BY <1>1, <1>2, DonePoint
<1>6. ApiTypeOK'
  BY <1>0, <1>1, <1>2, <1>5 DEF ApiTypeOK
<1>7. RequestOK(c)' /\ ~Serves(c, L)' /\ RootsStay
  BY <1>1, <1>5 DEF RequestOK, Serves, RootsStay
<1>8. \A j \in Keys : LoginOK(j)'
  BY <1>1, <1>2, LoginsStay
<1>9. ASSUME NEW owner \in [Keys -> Clients \cup {NoKey}], OwnedBy(owner)
      PROVE  OwnedBy(owner)'
  BY <1>1, <1>5, <1>9 DEF OwnedBy, OtherRequests, HasRow
<1>10. ASSUME L \notin crossed
       PROVE  LoneLoginOK(L)'
  <2>1. RequestRows(c, L)' /\ L \in broken'
    BY <1>0, <1>1, <1>10 DEF RequestRows, LoneLoginOK, HasRow
  <2> QED
    BY <1>0, <1>2, <1>5, <1>7, <1>10, <2>1, LoneStep
<1> QED
  <2>1. \A j \in Keys : root[j] \notin {NoKey, L} => api_token'[j] = api_token[j] /\ told'[j] = told[j]
    BY <1>1
  <2>2. \A j \in Keys : root'[j] # root[j] => root[j] = NoKey /\ root'[j] = L
    BY <1>1
  <2>3. api_key'[c] \in {api_key[c], NoKey}
    BY <1>5
  <2> QED
    BY <1>0, <1>1, <1>5, <1>6, <1>7, <1>8, <1>9, <1>10, <2>1, <2>2, <2>3, RequestStep

LEMMA ReplaceStep ==
  ASSUME ApiInv, NEW c \in ApiCalls, NEW n \in Keys, ReplaceToken(c, n)
  PROVE  ApiInv'
<1> DEFINE k == api_key[c]
           row == [user |-> api_copy[c].user, expiry_date |-> hour + Window, max_expiry_date |-> hour + MaxWindow]
<1> USE KeysAreKeys
<1>1. /\ api_stage[c] = "create" /\ ApiDone(c) /\ UNCHANGED <<hour, crossed, broken, closed>>
      /\ root[n] = NoKey /\ api_token' = [api_token EXCEPT ![n] = row]
      /\ told' = [told EXCEPT ![n] = hour + Window, ![k] = 0]
      /\ root' = [root EXCEPT ![n] = Login(c)]
  BY DEF ReplaceToken, InsertToken
<1>0. PICK L \in Keys :
        /\ L = Login(c) /\ root[L] = L /\ L # NoKey
        /\ k \in Keys /\ k # NoKey /\ root[k] = L
        /\ Serves(c, L)
        /\ L \notin crossed =>
             /\ L \notin closed
             /\ \A d \in ApiCalls \ {c} : ~Serves(d, L)
             /\ LoneLoginOK(L) /\ InHand(c, L)
  BY <1>1, OwnLogin
<1>2. ApiTypeOK /\ ApiBase /\ RequestOK(c) /\ \A j \in Keys : LoginOK(j)
  BY DEF ApiInv, ApiBase
<1>3. /\ row \in Token /\ row # NoKey /\ row.user = api_copy[c].user
      /\ row.expiry_date <= row.max_expiry_date /\ row.expiry_date = hour + Window
  <2>1. api_copy[c] \in Token /\ hour \in Nat
    BY <1>1, <1>2 DEF RequestOK, ApiTypeOK
  <2> QED
    BY <2>1, ApiTokensAssumption, NoTokenAssumption DEF Token
<1>4. /\ n # k /\ n # L /\ ~HasRow(n)
      /\ root'[n] = L /\ api_token'[n] = row /\ told'[n] = hour + Window /\ told'[k] = 0
      /\ \A j \in Keys \ {n} : root'[j] = root[j] /\ api_token'[j] = api_token[j]
      /\ \A j \in Keys \ {n, k} : told'[j] = told[j]
  BY <1>0, <1>1, <1>2 DEF ApiTypeOK, LoginOK
<1>11. HasRow(n)' /\ \A j \in Keys \ {n} : HasRow(j)' <=> HasRow(j)
  BY <1>3, <1>4 DEF HasRow
<1>6. /\ api_token' \in [Keys -> Token \cup {NoKey}] /\ told' \in [Keys -> Nat]
      /\ root' \in [Keys -> Keys \cup {NoKey}]
  <2>1. hour + Window \in Nat /\ Login(c) \in Keys
    BY <1>0, <1>2, ApiTokensAssumption DEF ApiTypeOK
  <2> QED
    BY <1>1, <1>2, <1>3, <2>1 DEF ApiTypeOK
<1> HIDE DEF k, row
<1>5. /\ api_stage'[c] = "idle" /\ api_key'[c] = NoKey /\ OtherRequests(c)
      /\ api_stage' \in [ApiCalls -> {"idle", "read", "save", "replace", "create", "invalidate"}]
      /\ api_key' \in [ApiCalls -> Keys \cup {NoKey}]
      /\ api_copy' \in [ApiCalls -> Token \cup {NoKey}]
  BY <1>1, <1>2, DonePoint
<1>12. ApiTypeOK'
  BY <1>1, <1>2, <1>5, <1>6 DEF ApiTypeOK
<1>7. RequestOK(c)' /\ ~Serves(c, L)' /\ RootsStay
  BY <1>1, <1>4, <1>5 DEF RequestOK, Serves, RootsStay
<1>8. \A j \in Keys : LoginOK(j)'
  <2> TAKE j \in Keys
  <2>1. CASE j = n
    <3>1. n \notin closed
      BY <1>1, <1>2 DEF LoginOK
    <3> QED
      BY <1>0, <1>1, <1>3, <1>4, <2>1, <3>1 DEF LoginOK
  <2>2. CASE j # n
    <3>1. LoginOK(j) /\ root'[j] = root[j] /\ api_token'[j] = api_token[j] /\ (HasRow(j)' <=> HasRow(j))
      BY <1>2, <1>4, <1>11, <2>2
    <3>2. root[j] # NoKey => root[j] # n /\ root[j] \in Keys
      BY <1>1, <1>2, <3>1 DEF LoginOK, ApiTypeOK
    <3>3. root[j] # NoKey => root'[root[j]] = root[root[j]]
      BY <1>4, <3>2
    <3> QED
      BY <1>1, <3>1, <3>3 DEF LoginOK
  <2> QED
    BY <2>1, <2>2
<1>9. ASSUME NEW owner \in [Keys -> Clients \cup {NoKey}], OwnedBy(owner)
      PROVE  OwnedBy(owner)'
  <2>1. row.user = owner[L]
    BY <1>0, <1>1, <1>3, <1>9 DEF OwnedBy, k
  <2>2. \A j \in Keys : HasRow(j)' => api_token'[j].user = owner[root'[j]]
    BY <1>4, <1>9, <1>11, <2>1 DEF OwnedBy
  <2>3. \A d \in ApiCalls \ {c} : api_stage[d] \in {"save", "replace", "create"} =>
          api_key[d] \in Keys /\ root'[api_key[d]] = root[api_key[d]]
    <3> TAKE d \in ApiCalls \ {c}
    <3>1. RequestOK(d) /\ api_key[d] \in Keys \cup {NoKey}
      BY <1>2 DEF ApiBase, ApiTypeOK
    <3> QED
      BY <1>7, <3>1 DEF RequestOK, RootsStay
  <2>4. \A d \in ApiCalls : api_stage'[d] \in {"save", "replace", "create"} =>
          api_copy'[d].user = owner[root'[api_key'[d]]]
    BY <1>5, <1>9, <2>3 DEF OwnedBy, OtherRequests
  <2> QED
    BY <2>2, <2>4 DEF OwnedBy
<1>10. ASSUME L \notin crossed
       PROVE  LoneLoginOK(L)'
  <2>1. \A j \in Keys : root[j] = L => ~HasRow(j)
    BY <1>0, <1>1, <1>10 DEF InHand
  <2>2. \A j \in Keys : HasRow(j)' /\ root'[j] = L => j = n
    BY <1>4, <1>11, <2>1
  <2>3. RequestRows(c, L)'
    BY <1>0, <1>1, <1>10, <2>2 DEF RequestRows
  <2>4. ASSUME L \notin closed' \cup broken', NEW j \in Keys, root'[j] = L, told'[j] # 0
        PROVE  HasRow(j)' /\ api_token'[j].expiry_date = told'[j]
    <3>1. CASE j = n
      BY <1>3, <1>4, <1>11, <3>1
    <3>2. CASE j # n
      <4>1. j # k /\ root[j] = L /\ told[j] # 0 /\ L \notin closed \cup broken
        BY <1>1, <1>4, <2>4, <3>2
      <4>2. \E d \in ApiCalls : api_stage[d] = "create" /\ api_key[d] = j
        BY <1>0, <1>10, <2>1, <4>1 DEF LoneLoginOK
      <4>3. PICK d \in ApiCalls : api_key[d] = j
        BY <4>2
      <4>4. Serves(d, L) /\ d # c
        BY <4>1, <4>3 DEF Serves, k
      <4> QED
        BY <1>0, <1>10, <4>4
    <3> QED
      BY <3>1, <3>2
  <2>5. L \notin closed' \cup broken' => ToldTrue(L)'
    BY <2>4 DEF ToldTrue
  <2> QED
    BY <1>0, <1>2, <1>5, <1>7, <1>10, <2>3, <2>5, LoneStep
<1> QED
  <2>1. \A j \in Keys : root[j] \notin {NoKey, L} => api_token'[j] = api_token[j] /\ told'[j] = told[j]
    BY <1>0, <1>1, <1>4
  <2>2. \A j \in Keys : root'[j] # root[j] => root[j] = NoKey /\ root'[j] = L
    BY <1>1, <1>4
  <2>3. api_key'[c] \in {api_key[c], NoKey}
    BY <1>5
  <2> QED
    BY <1>0, <1>1, <1>5, <1>7, <1>8, <1>9, <1>10, <1>12, <2>1, <2>2, <2>3, RequestStep
(* The steps that begin something: a request is admitted, a login gets its *)
(* first token.                                                            *)
LEMMA AdmitStep ==
  ASSUME ApiInv, NEW c \in ApiCalls, NEW k \in Keys, NEW s \in {"read", "invalidate"}, Admit(c, k, s)
  PROVE  ApiInv'
<1> USE KeysAreKeys
<1>1. /\ api_stage[c] = "idle" /\ HasRow(k) /\ ApiStep(c, s)
      /\ api_key' = [api_key EXCEPT ![c] = k]
      /\ crossed' = IF OtherCalls(c, root[k]) = {} THEN crossed ELSE crossed \cup {root[k]}
      /\ UNCHANGED <<hour, api_token, api_copy, root, told, broken, closed>>
  BY DEF Admit, Usable, HasRow
<1>2. ApiTypeOK /\ ApiBase /\ RequestOK(c) /\ \A j \in Keys : LoginOK(j)
  BY DEF ApiInv, ApiBase
<1>3. PICK L \in Keys : L = root[k]
  BY <1>1, <1>2 DEF LoginOK, ApiTypeOK
<1>4. /\ api_key[c] = NoKey /\ api_stage'[c] = s /\ api_key'[c] = k /\ OtherRequests(c)
      /\ RootsStay
  BY <1>1, <1>2 DEF RequestOK, ApiStep, ApiTypeOK, OtherRequests, RootsStay
<1>5. ApiTypeOK'
  <2>1. crossed' \subseteq Keys
    BY <1>1, <1>2, <1>3 DEF ApiTypeOK
  <2>2. /\ api_stage' \in [ApiCalls -> {"idle", "read", "save", "replace", "create", "invalidate"}]
        /\ api_key' \in [ApiCalls -> Keys \cup {NoKey}]
    BY <1>1, <1>2 DEF ApiStep, ApiTypeOK
  <2> QED
    BY <1>1, <1>2, <2>1, <2>2 DEF ApiTypeOK
<1>6. RequestOK(c)'
  BY <1>1, <1>3, <1>4 DEF RequestOK
<1>7. \A d \in ApiCalls : RequestOK(d)'
  BY <1>2, <1>4, <1>6, OtherRequestsOK
<1>8. \A j \in Keys : LoginOK(j)'
  BY <1>1, <1>2, LoginsStay
<1>9. \A owner : OwnedBy(owner) => OwnedBy(owner)'
  <2> TAKE owner
  <2> HAVE OwnedBy(owner)
  <2>1. \A d \in ApiCalls : api_stage'[d] \in {"save", "replace", "create"} =>
           d # c /\ api_stage[d] \in {"save", "replace", "create"}
    BY <1>4 DEF OtherRequests
  <2> QED
    BY <1>1, <1>4, <2>1 DEF OwnedBy, OtherRequests, HasRow
<1>10. ApiBase'
  <2>1. PICK owner \in [Keys -> Clients \cup {NoKey}] : OwnedBy(owner)
    BY <1>2 DEF ApiBase
  <2> QED
    BY <1>5, <1>7, <1>8, <1>9, <2>1 DEF ApiBase
<1>11. ASSUME NEW l \in Keys \ {L}
       PROVE  SameLogin(l)
  <2>1. ~Serves(c, l) /\ ~Serves(c, l)'
    BY <1>1, <1>3, <1>4 DEF Serves
  <2> QED
    BY <1>1, <1>4, <2>1 DEF SameLogin, Serves, OtherRequests
<1>12. ASSUME L \notin crossed'
       PROVE  LoneLoginOK(L)'
  <2>1. OtherCalls(c, L) = {} /\ L \notin crossed
    BY <1>1, <1>3, <1>12
  <2>2. \A d \in ApiCalls \ {c} : ~Serves(d, L)
    BY <2>1 DEF OtherCalls, Serves
  <2>3. LoneLoginOK(L)
    BY <2>1 DEF ApiInv
  <2>4. L \notin closed
    BY <1>1, <1>3, <2>3 DEF LoneLoginOK
  <2>5. RequestRows(c, L)' /\ L \notin closed'
    BY <1>1, <2>3, <2>4 DEF RequestRows, LoneLoginOK, HasRow
  <2>6. InHand(c, L)'
    BY <1>1, <1>4 DEF InHand, HasRow
  <2>7. ASSUME L \notin closed' \cup broken', NEW j \in Keys, root'[j] = L, told'[j] # 0
        PROVE  HasRow(j)' /\ api_token'[j].expiry_date = told'[j]
    <3>1. root[j] = L /\ told[j] # 0 /\ L \notin closed \cup broken
      BY <1>1, <2>7
    <3>2. ~\E d \in ApiCalls : api_stage[d] = "create" /\ api_key[d] = j
      BY <1>1, <2>2, <3>1 DEF Serves
    <3> QED
      BY <1>1, <2>3, <3>1, <3>2 DEF LoneLoginOK, HasRow
  <2>8. L \notin closed' \cup broken' => ToldTrue(L)'
    BY <2>7 DEF ToldTrue
  <2> QED
    BY <1>2, <1>4, <2>2, <2>5, <2>6, <2>8, LoneStep
<1>13. \A l \in Keys \ crossed' : LoneLoginOK(l)'
  <2> TAKE l \in Keys \ crossed'
  <2>1. l \notin crossed
    BY <1>1
  <2> QED
    BY <1>2, <1>11, <1>12, <2>1, AloneStays DEF ApiInv
<1> QED
  BY <1>10, <1>13 DEF ApiInv

LEMMA NewTokenStep ==
  ASSUME ApiInv, NEW k \in Keys, NEW u \in Clients, NewToken(k, u)
  PROVE  ApiInv'
<1> DEFINE row == [user |-> u, expiry_date |-> hour + Window, max_expiry_date |-> hour + MaxWindow]
<1> USE KeysAreKeys
<1>1. /\ root[k] = NoKey /\ api_token' = [api_token EXCEPT ![k] = row]
      /\ told' = [told EXCEPT ![k] = hour + Window]
      /\ root' = [root EXCEPT ![k] = k]
      /\ UNCHANGED <<hour, api_stage, api_key, api_copy, crossed, broken, closed>>
  BY DEF NewToken, InsertToken
<1>2. ApiTypeOK /\ ApiBase /\ (\A c \in ApiCalls : RequestOK(c)) /\ \A j \in Keys : LoginOK(j)
  BY DEF ApiInv, ApiBase
<1>3. /\ row \in Token /\ row # NoKey /\ row.user = u
      /\ row.expiry_date <= row.max_expiry_date /\ row.expiry_date = hour + Window
      /\ hour + Window \in Nat
  <2>1. hour \in Nat
    BY <1>2 DEF ApiTypeOK
  <2> QED
    BY <2>1, ApiTokensAssumption, NoTokenAssumption DEF Token
<1>4. /\ root'[k] = k /\ api_token'[k] = row /\ told'[k] = hour + Window
      /\ \A j \in Keys \ {k} : root'[j] = root[j] /\ api_token'[j] = api_token[j] /\ told'[j] = told[j]
  BY <1>1, <1>2 DEF ApiTypeOK
<1>5. HasRow(k)' /\ \A j \in Keys \ {k} : HasRow(j)' <=> HasRow(j)
  BY <1>3, <1>4 DEF HasRow
<1>6. ApiTypeOK'
  <2>1. /\ api_token' \in [Keys -> Token \cup {NoKey}] /\ told' \in [Keys -> Nat]
        /\ root' \in [Keys -> Keys \cup {NoKey}]
    BY <1>1, <1>2, <1>3 DEF ApiTypeOK
  <2> QED
    BY <1>1, <1>2, <2>1 DEF ApiTypeOK
<1> HIDE DEF row
<1>7. k \notin closed /\ \A j \in Keys : root[j] # k
  BY <1>1, <1>2 DEF LoginOK
<1>8. \A c \in ApiCalls : api_key[c] # NoKey =>
        api_key[c] \in Keys \ {k} /\ root[api_key[c]] \in Keys \ {k} /\ root'[api_key[c]] = root[api_key[c]]
  <2> TAKE c \in ApiCalls
  <2> HAVE api_key[c] # NoKey
  <2>1. api_key[c] \in Keys /\ root[api_key[c]] # NoKey
    BY <1>2 DEF RequestOK, ApiTypeOK
  <2>2. root[api_key[c]] \in Keys
    BY <1>2, <2>1 DEF ApiTypeOK
  <2> QED
    BY <1>1, <1>4, <1>7, <2>1, <2>2
<1>9. \A c \in ApiCalls : RequestOK(c)'
  BY <1>1, <1>2, <1>8 DEF RequestOK
<1>10. \A j \in Keys : LoginOK(j)'
  <2> TAKE j \in Keys
  <2>1. CASE j = k
    BY <1>3, <1>4, <1>5, <2>1 DEF LoginOK
  <2>2. CASE j # k
    <3>1. LoginOK(j) /\ root'[j] = root[j] /\ api_token'[j] = api_token[j] /\ (HasRow(j)' <=> HasRow(j))
      BY <1>2, <1>4, <1>5, <2>2
    <3>2. root[j] # NoKey => root[j] \in Keys \ {k}
      BY <1>2, <1>7 DEF ApiTypeOK
    <3>3. root[j] # NoKey => root'[root[j]] = root[root[j]]
      BY <1>4, <3>2
    <3> QED
      BY <1>1, <3>1, <3>3 DEF LoginOK
  <2> QED
    BY <2>1, <2>2
<1>11. \E owner \in [Keys -> Clients \cup {NoKey}] : OwnedBy(owner)'
  <2>1. PICK owner \in [Keys -> Clients \cup {NoKey}] : OwnedBy(owner)
    BY <1>2 DEF ApiBase
  <2> DEFINE theirs == [owner EXCEPT ![k] = u]
  <2>2. /\ theirs \in [Keys -> Clients \cup {NoKey}] /\ theirs[k] = u
        /\ \A j \in Keys \ {k} : theirs[j] = owner[j]
    OBVIOUS
  <2> HIDE DEF theirs
  <2>3. \A j \in Keys : HasRow(j)' => api_token'[j].user = theirs[root'[j]]
    <3> TAKE j \in Keys
    <3>1. CASE j = k
      BY <1>3, <1>4, <2>2, <3>1
    <3>2. ASSUME j # k, HasRow(j)'
          PROVE  api_token'[j].user = theirs[root'[j]]
      <4>1. HasRow(j) /\ api_token'[j] = api_token[j] /\ root'[j] = root[j]
        BY <1>4, <1>5, <3>2
      <4>2. root[j] \in Keys \ {k}
        BY <1>2, <1>7, <4>1 DEF LoginOK, ApiTypeOK
      <4>3. api_token[j].user = owner[root[j]]
        BY <2>1, <4>1 DEF OwnedBy
      <4> QED
        BY <2>2, <4>1, <4>2, <4>3
    <3> QED
      BY <3>1, <3>2
  <2>4. \A c \in ApiCalls : api_stage'[c] \in {"save", "replace", "create"} =>
          api_copy'[c].user = theirs[root'[api_key'[c]]]
    <3> TAKE c \in ApiCalls
    <3> HAVE api_stage'[c] \in {"save", "replace", "create"}
    <3>1. api_stage[c] \in {"save", "replace", "create"} /\ RequestOK(c)
      BY <1>1, <1>2
    <3>2. api_key[c] # NoKey
      BY <3>1 DEF RequestOK
    <3>3. api_copy[c].user = owner[root[api_key[c]]]
      BY <2>1, <3>1 DEF OwnedBy
    <3>4. api_copy' = api_copy /\ api_key' = api_key
      BY <1>1
    <3>5. owner[root[api_key[c]]] = theirs[root'[api_key[c]]]
      BY <1>8, <2>2, <3>2
    <3> QED
      BY <3>3, <3>4, <3>5
  <2>5. OwnedBy(theirs)'
    BY <2>3, <2>4 DEF OwnedBy
  <2> QED
    BY <2>2, <2>5
<1>12. ApiBase'
  BY <1>6, <1>9, <1>10, <1>11 DEF ApiBase
<1>13. ASSUME NEW l \in Keys \ {k}
       PROVE  SameLogin(l)
  <2>1. \A c \in ApiCalls : Serves(c, l)' <=> Serves(c, l)
    BY <1>1, <1>8 DEF Serves
  <2> QED
    BY <1>1, <1>4, <2>1 DEF SameLogin
<1>14. LoneLoginOK(k)'
  <2>1. \A c \in ApiCalls : ~Serves(c, k)'
    BY <1>1, <1>8 DEF Serves
  <2>2. \A j \in Keys : root'[j] = k => j = k
    BY <1>4, <1>7
  <2> QED
    BY <1>1, <1>3, <1>4, <1>5, <1>7, <2>1, <2>2 DEF LoneLoginOK
<1>15. \A l \in Keys \ crossed' : LoneLoginOK(l)'
  BY <1>1, <1>2, <1>13, <1>14, AloneStays DEF ApiInv
<1> QED
  BY <1>12, <1>15 DEF ApiInv

(* The clock and the steps that touch none of it. *)
LEMMA ApiStays ==
  ASSUME ApiInv, hour' \in Nat,
         UNCHANGED <<api_token, api_stage, api_key, api_copy, root, told, crossed, broken, closed>>
  PROVE  ApiInv'
<1>1. ApiTypeOK' /\ (\A c \in ApiCalls : RequestOK(c)') /\ \A k \in Keys : LoginOK(k)'
  BY DEF ApiInv, ApiBase, ApiTypeOK, RequestOK, LoginOK, HasRow
<1>2. \A owner : OwnedBy(owner) => OwnedBy(owner)'
  BY DEF OwnedBy, HasRow
<1>3. ApiBase'
  BY <1>1, <1>2 DEF ApiInv, ApiBase
<1>4. \A l \in Keys : SameLogin(l)
  BY DEF SameLogin, Serves
<1> QED
  BY <1>3, <1>4, AloneStays DEF ApiInv

(* And the invariant of every behaviour. *)
LEMMA ApiInvariant == ApiSpec => []ApiInv
<1>1. ApiInv /\ [ApiNext]_apiVars => ApiInv'
  <2> SUFFICES ASSUME ApiInv, [ApiNext]_apiVars
               PROVE  ApiInv'
    OBVIOUS
  <2>1. CASE NextHour
    BY <2>1, ApiStays DEF NextHour, apiHistory, ApiInv, ApiBase, ApiTypeOK
  <2>2. ASSUME NEW k \in Keys, NEW u \in Clients, NewToken(k, u)
        PROVE  ApiInv'
    BY <2>2, NewTokenStep
  <2>3. ASSUME NEW c \in ApiCalls, NEW k \in Keys, NEW s \in {"read", "invalidate"}, Admit(c, k, s)
        PROVE  ApiInv'
    BY <2>3, AdmitStep
  <2>4. ASSUME NEW c \in ApiCalls, post_fresh_token(c)
        PROVE  ApiInv'
    BY <2>4, ReadStep, SaveStep, DeleteStep, ReplaceStep DEF post_fresh_token
  <2>5. ASSUME NEW c \in ApiCalls, InvalidateToken(c) \/ FailApiCall(c)
        PROVE  ApiInv'
    BY <2>5, InvalidateStep, FailStep
  <2>6. CASE UNCHANGED apiVars
    BY <2>6, ApiStays DEF apiVars, apiHistory, ApiInv, ApiBase, ApiTypeOK
  <2> QED
    BY <2>1, <2>2, <2>3, <2>4, <2>5, <2>6 DEF ApiNext
<1> QED
  BY <1>1, ApiInitially, PTL DEF ApiSpec

(* Of a login whose requests did not cross, one token at most is in the    *)
(* table, none once it is closed, and the client was told its true expiry: *)
(* renewing a token replaces it and never leaves the old one beside it.    *)
THEOREM LoginsAreSound == ApiSpec => []LoginHasOneToken
<1>1. ApiInv => LoginHasOneToken
  <2> SUFFICES ASSUME ApiInv
               PROVE  LoginHasOneToken
    OBVIOUS
  <2> USE KeysAreKeys
  <2>1. ApiTypeOK /\ ApiBase /\ \A j \in Keys : LoginOK(j)
    BY DEF ApiInv, ApiBase
  <2>2. PICK owner \in [Keys -> Clients \cup {NoKey}] : OwnedBy(owner)
    BY DEF ApiInv, ApiBase
  <2>3. \A k \in Keys : api_token[k] # NoKey =>
          /\ api_token[k].expiry_date <= api_token[k].max_expiry_date
          /\ \A j \in Keys : api_token[j] # NoKey /\ root[j] = root[k] =>
               api_token[j].user = api_token[k].user
    <3> SUFFICES ASSUME NEW k \in Keys, api_token[k] # NoKey
                 PROVE  /\ api_token[k].expiry_date <= api_token[k].max_expiry_date
                        /\ \A j \in Keys : api_token[j] # NoKey /\ root[j] = root[k] =>
                             api_token[j].user = api_token[k].user
      OBVIOUS
    <3>1. api_token[k].expiry_date <= api_token[k].max_expiry_date
      BY <2>1 DEF LoginOK, HasRow
    <3>2. ASSUME NEW j \in Keys, api_token[j] # NoKey, root[j] = root[k]
          PROVE  api_token[j].user = api_token[k].user
      BY <2>2, <3>2 DEF OwnedBy, HasRow
    <3> QED
      BY <3>1, <3>2
  <2>4. ASSUME NEW l \in Keys \ crossed
        PROVE  /\ Cardinality(UsableTokens(l)) <= 1
               /\ l \in closed => UsableTokens(l) = {}
               /\ l \notin closed \cup broken /\ Quiet(l) =>
                    \A k \in Keys : root[k] = l /\ hour < told[k] =>
                      Usable(k) /\ api_token[k].expiry_date = told[k]
    <3>1. LoneLoginOK(l)
      BY DEF ApiInv
    <3>2. \A k \in UsableTokens(l) : k \in Keys /\ HasRow(k) /\ root[k] = l
      BY DEF UsableTokens, Usable, HasRow
    <3>3. \A j, k \in UsableTokens(l) : j = k
      BY <3>1, <3>2 DEF LoneLoginOK
    <3>4. Cardinality(UsableTokens(l)) <= 1
      <4>1. CASE UsableTokens(l) = {}
        BY <4>1, FS_EmptySet
      <4>2. CASE UsableTokens(l) # {}
        <5>1. PICK k : UsableTokens(l) = {k}
          BY <3>3, <4>2
        <5> QED
          BY <5>1, FS_Singleton
      <4> QED
        BY <4>1, <4>2
    <3>5. l \in closed => UsableTokens(l) = {}
      BY <3>1, <3>2 DEF LoneLoginOK
    <3>6. ASSUME l \notin closed \cup broken, Quiet(l), NEW k \in Keys, root[k] = l, hour < told[k]
          PROVE  Usable(k) /\ api_token[k].expiry_date = told[k]
      <4>1. told[k] # 0
        BY <2>1, <3>6 DEF ApiTypeOK
      <4>2. ~\E c \in ApiCalls : api_stage[c] = "create" /\ api_key[c] = k
        BY <3>6 DEF Quiet
      <4>3. HasRow(k) /\ api_token[k].expiry_date = told[k]
        BY <3>1, <3>6, <4>1, <4>2 DEF LoneLoginOK
      <4> QED
        BY <3>6, <4>3 DEF Usable, HasRow
    <3> QED
      BY <3>4, <3>5, <3>6
  <2> QED
    BY <2>3, <2>4 DEF LoginHasOneToken
<1> QED
  BY <1>1, ApiInvariant, PTL

(* The tokens and the requests of the API have their types. *)
THEOREM ApiTypeCorrect == ApiSpec => []ApiTypeOK
<1>1. ApiInv => ApiTypeOK
  BY DEF ApiInv, ApiBase
<1>2. QED
  BY <1>1, ApiInvariant, PTL

-----------------------------------------------------------------------------
(* Discord. *)

(* A row of the person, and a row whose account exists. *)
HasEntry(i, p) == entries[i] # Nobody /\ entries[i].oauth_id = p

(* A request has a person as long as it runs; the row it copied is a row   *)
(* of that person, which the table still has, and the copy's account is an *)
(* account.                                                                *)
VisitOK(v) ==
  /\ visit[v] = "idle" <=> person[v] = Nobody
  /\ visit[v] # "idle" => address[v] # Nobody
  /\ visit[v] \in {"idle", "entry", "insert"} => copy[v] = Nobody
  /\ visit[v] \in {"user", "link", "tokens", "save"} => copy[v] # Nobody
  /\ visit[v] = "save" => address[v] \in users
  /\ copy[v] # Nobody =>
       /\ entry_id[v] # 0 /\ HasEntry(entry_id[v], person[v])
       /\ copy[v].oauth_id = person[v] /\ copy[v].user \in users \cup {Nobody}

EntryOK(i) == entries[i] # Nobody => entries[i].user \in users \cup {Nobody}

(* A person whose requests never overlapped: one request and one entry at  *)
(* most, which is linked to the account it was last linked to.  A request  *)
(* that found no entry finds none until it inserts one, and one that saves *)
(* its copy a second time saves the same account.                          *)
LinkedRow(p) ==
  /\ \A i, j \in EntryIds : HasEntry(i, p) /\ HasEntry(j, p) => i = j
  /\ \A i \in EntryIds : HasEntry(i, p) => entries[i].user = linked[p]
  /\ linked[p] # Nobody => linked[p] \in users /\ \E i \in EntryIds : HasEntry(i, p)

(* What the request found is still so: there is no row where it found none, *)
(* and the account it is going to sign in is the one the person was linked *)
(* to.                                                                     *)
AsFound(v, p) ==
  /\ visit[v] \in {"exists", "insert"} /\ copy[v] = Nobody =>
       \A i \in EntryIds : ~HasEntry(i, p)
  /\ visit[v] = "tokens" => copy[v].user = linked[p]

(* Of a person whose requests did not meet: one request at a time, one row *)
(* linked to the account the person signed in with, as the request found   *)
(* it.                                                                     *)
KnownOK(p) ==
  /\ \A v, w \in Visits : person[v] = p /\ person[w] = p => v = w
  /\ LinkedRow(p)
  /\ \A v \in Visits : person[v] = p => AsFound(v, p)

(* The inductive invariant. *)
OAuthInv ==
  /\ OAuthTypeOK
  /\ \A v \in Visits : VisitOK(v)
  /\ \A i \in EntryIds : EntryOK(i)
  /\ \A p \in People \ met : KnownOK(p)
-----------------------------------------------------------------------------
(* Nobody has signed in at the start. *)
LEMMA OAuthInitially ==
  ASSUME OAuthInit
  PROVE  OAuthInv
<1>1. OAuthTypeOK
  BY OAuthAssumption DEF OAuthInit, OAuthTypeOK, EntryIds
<1>2. (\A v \in Visits : VisitOK(v)) /\ \A i \in EntryIds : EntryOK(i)
  BY DEF OAuthInit, VisitOK, EntryOK
<1>3. \A p \in People : KnownOK(p)
  BY OAuthAssumption DEF OAuthInit, KnownOK, LinkedRow, AsFound, HasEntry
<1> QED
  BY <1>1, <1>2, <1>3 DEF OAuthInv

(* What a step of request v does not touch. *)
OtherVisits(v) ==
  \A w \in Visits \ {v} :
    /\ visit'[w] = visit[w] /\ person'[w] = person[w] /\ address'[w] = address[w]
    /\ entry_id'[w] = entry_id[w] /\ copy'[w] = copy[w]

(* A request that ends leaves nothing behind. *)
LEMMA VisitDonePoint ==
  ASSUME OAuthTypeOK, NEW v \in Visits, VisitDone(v)
  PROVE  /\ visit'[v] = "idle" /\ person'[v] = Nobody /\ copy'[v] = Nobody
         /\ OtherVisits(v) /\ VisitOK(v)'
         /\ visit' \in [Visits -> {"idle", "entry", "exists", "insert", "user", "link", "tokens",
                                   "save"}]
         /\ person' \in [Visits -> People \cup {Nobody}]
         /\ address' \in [Visits -> Emails \cup {Nobody}]
         /\ entry_id' \in [Visits -> EntryIds \cup {0}]
         /\ copy' \in [Visits -> Entry \cup {Nobody}]
  BY DEF OAuthTypeOK, VisitDone, VisitStep, OtherVisits, VisitOK

(* The only rows a step for person p writes are p's. *)
WritesOf(p) ==
  \A i \in EntryIds : entries'[i] # entries[i] =>
    /\ entries[i] # Nobody => entries[i].oauth_id = p
    /\ entries'[i] # Nobody /\ entries'[i].oauth_id = p
    /\ entries'[i].user \in users' \cup {Nobody}

(* What a step on behalf of one person leaves of the other requests and    *)
(* people.                                                                 *)
LEMMA OtherVisitsOK ==
  ASSUME OAuthInv, NEW v \in Visits, NEW p, OtherVisits(v), WritesOf(p), users \subseteq users'
  PROVE  \A w \in Visits \ {v} : VisitOK(w)'
<1> TAKE w \in Visits \ {v}
<1>1. /\ visit'[w] = visit[w] /\ person'[w] = person[w] /\ address'[w] = address[w]
      /\ entry_id'[w] = entry_id[w] /\ copy'[w] = copy[w]
      /\ VisitOK(w) /\ entry_id[w] \in EntryIds \cup {0}
  BY DEF OtherVisits, OAuthInv, OAuthTypeOK
<1>2. copy[w] # Nobody => HasEntry(entry_id[w], person[w])'
  BY <1>1 DEF VisitOK, HasEntry, WritesOf
<1> QED
  BY <1>1, <1>2 DEF VisitOK

LEMMA OtherPeopleKnown ==
  ASSUME OAuthInv, NEW v \in Visits, NEW p \in People, OtherVisits(v), WritesOf(p),
         person[v] \in {p, Nobody}, person'[v] \in {p, Nobody},
         users \subseteq users', NEW q \in People \ {p}, linked'[q] = linked[q], KnownOK(q)
  PROVE  KnownOK(q)'
<1>1. person[v] # q /\ person'[v] # q
  BY OAuthAssumption
<1>2. \A i \in EntryIds : /\ HasEntry(i, q)' <=> HasEntry(i, q)
                          /\ HasEntry(i, q) => entries'[i] = entries[i]
  BY DEF WritesOf, HasEntry
<1>3. \A w \in Visits : person'[w] = q =>
        w # v /\ person[w] = q /\ visit'[w] = visit[w] /\ copy'[w] = copy[w]
  BY <1>1 DEF OtherVisits
<1>4. LinkedRow(q)'
  BY <1>2 DEF KnownOK, LinkedRow
<1>5. \A w \in Visits : person'[w] = q => AsFound(w, q)'
  BY <1>2, <1>3 DEF KnownOK, AsFound
<1>6. \A w, x \in Visits : person'[w] = q /\ person'[x] = q => w = x
  BY <1>3 DEF KnownOK
<1> QED
  BY <1>4, <1>5, <1>6 DEF KnownOK

(* A step of request v for person p is right if it is for p. *)
LEMMA PersonStep ==
  ASSUME OAuthInv, NEW v \in Visits, NEW p \in People, OtherVisits(v), WritesOf(p),
         person[v] \in {p, Nobody}, person'[v] \in {p, Nobody},
         users \subseteq users', met \subseteq met',
         \A q \in People \ {p} : linked'[q] = linked[q],
         OAuthTypeOK', VisitOK(v)',
         p \notin met' =>
           /\ \A w \in Visits \ {v} : person[w] # p
           /\ LinkedRow(p)'
           /\ person'[v] = p => AsFound(v, p)'
  PROVE  OAuthInv'
<1>1. \A w \in Visits : VisitOK(w)'
  BY OtherVisitsOK
<1>2. \A i \in EntryIds : EntryOK(i)'
  <2> TAKE i \in EntryIds
  <2>1. EntryOK(i)
    BY DEF OAuthInv
  <2> QED
    BY <2>1 DEF EntryOK, WritesOf
<1>3. \A q \in People \ met' : q # p => KnownOK(q)'
  <2> TAKE q \in People \ met'
  <2> HAVE q # p
  <2>1. KnownOK(q)
    BY DEF OAuthInv
  <2> QED
    BY <2>1, OtherPeopleKnown
<1>4. p \notin met' => KnownOK(p)'
  <2> HAVE p \notin met'
  <2>1. \A w \in Visits : person'[w] = p => w = v
    BY DEF OtherVisits
  <2> QED
    BY <2>1 DEF KnownOK
<1> QED
  BY <1>1, <1>2, <1>3, <1>4 DEF OAuthInv

(* The person of a request under way. *)
LEMMA Guest ==
  ASSUME OAuthInv, NEW v \in Visits, visit[v] # "idle"
  PROVE  \E p \in People :
           /\ person[v] = p /\ VisitOK(v) /\ address[v] \in Emails
           /\ p \notin met =>
                /\ \A w \in Visits \ {v} : person[w] # p
                /\ LinkedRow(p) /\ AsFound(v, p)
<1>1. OAuthTypeOK /\ VisitOK(v)
  BY DEF OAuthInv
<1>2. person[v] \in People /\ address[v] \in Emails
  BY <1>1 DEF VisitOK, OAuthTypeOK
<1>3. person[v] \notin met => KnownOK(person[v])
  BY <1>2 DEF OAuthInv
<1> QED
  BY <1>1, <1>2, <1>3 DEF KnownOK

(* The row a person is linked by stays that. *)
LEMMA LinkedRowStays ==
  ASSUME NEW p, LinkedRow(p), entries' = entries, linked' = linked, users \subseteq users'
  PROVE  LinkedRow(p)'
  BY DEF LinkedRow, HasEntry

(* A request that ends without a write. *)
LEMMA EndsVisit ==
  ASSUME OAuthInv, NEW v \in Visits, visit[v] # "idle", VisitDone(v),
         UNCHANGED <<world, users, entries, linked, met>>
  PROVE  OAuthInv'
<1>1. PICK p \in People :
        /\ person[v] = p /\ VisitOK(v) /\ address[v] \in Emails
        /\ p \notin met =>
             /\ \A w \in Visits \ {v} : person[w] # p
             /\ LinkedRow(p) /\ AsFound(v, p)
  BY Guest
<1>2. OAuthTypeOK
  BY DEF OAuthInv
<1>3. person'[v] = Nobody /\ OtherVisits(v) /\ VisitOK(v)'
  BY <1>2, VisitDonePoint
<1>4. OAuthTypeOK'
  BY <1>2, VisitDonePoint DEF OAuthTypeOK, world
<1>5. WritesOf(p)
  BY DEF WritesOf
<1>6. p \notin met => LinkedRow(p)'
  BY <1>1, LinkedRowStays
<1> QED
  BY <1>1, <1>3, <1>4, <1>5, <1>6, OAuthAssumption, PersonStep

(* The steps, one lemma each. *)
LEMMA ComeBackStep ==
  ASSUME OAuthInv, NEW v \in Visits, NEW p \in People, ComeBack(v, p)
  PROVE  OAuthInv'
<1>1. /\ visit[v] = "idle" /\ VisitStep(v, "entry")
      /\ person' = [person EXCEPT ![v] = p] /\ address' = [address EXCEPT ![v] = mail[p]]
      /\ Meet(p)
      /\ UNCHANGED <<world, users, entries, entry_id, copy, linked>>
  BY DEF ComeBack
<1>2. OAuthTypeOK /\ VisitOK(v)
  BY DEF OAuthInv
<1>3. /\ person[v] = Nobody /\ copy[v] = Nobody /\ visit'[v] = "entry" /\ person'[v] = p
      /\ address'[v] \in Emails /\ copy'[v] = Nobody /\ OtherVisits(v)
  BY <1>1, <1>2 DEF VisitOK, VisitStep, OAuthTypeOK, OtherVisits
<1>4. OAuthTypeOK'
  <2>1. /\ met' \subseteq People
        /\ visit' \in [Visits -> {"idle", "entry", "exists", "insert", "user", "link",
                                  "tokens", "save"}]
    BY <1>1, <1>2 DEF Meet, VisitStep, OAuthTypeOK
  <2>2. person' \in [Visits -> People \cup {Nobody}] /\ address' \in [Visits -> Emails \cup {Nobody}]
    BY <1>1, <1>2 DEF OAuthTypeOK
  <2> QED
    BY <1>1, <1>2, <2>1, <2>2 DEF OAuthTypeOK, world
<1>5. VisitOK(v)'
  BY <1>3, OAuthAssumption DEF VisitOK
<1>6. WritesOf(p) /\ met \subseteq met'
  BY <1>1 DEF WritesOf, Meet
<1>7. p \notin met' => /\ \A w \in Visits \ {v} : person[w] # p
                       /\ LinkedRow(p)' /\ AsFound(v, p)'
  <2> HAVE p \notin met'
  <2>1. p \notin met /\ \A w \in Visits : person[w] # p
    BY <1>1 DEF Meet, About
  <2>2. LinkedRow(p)
    BY <2>1 DEF OAuthInv, KnownOK
  <2>3. LinkedRow(p)'
    BY <1>1, <2>2, LinkedRowStays
  <2> QED
    BY <1>3, <2>1, <2>3 DEF AsFound
<1> QED
  BY <1>1, <1>3, <1>4, <1>5, <1>6, <1>7, PersonStep

LEMMA FindStep ==
  ASSUME OAuthInv, NEW v \in Visits, FindEntry(v)
  PROVE  OAuthInv'
<1>1. /\ visit[v] = "entry" /\ VisitStep(v, "exists")
      /\ UNCHANGED <<world, users, entries, person, address, linked, met>>
      /\ \/ Of(person[v]) = {} /\ UNCHANGED <<entry_id, copy>>
         \/ \E i \in Of(person[v]) : /\ entry_id' = [entry_id EXCEPT ![v] = i]
                                     /\ copy' = [copy EXCEPT ![v] = entries[i]]
  BY DEF FindEntry
<1>0. PICK p \in People :
        /\ person[v] = p /\ VisitOK(v) /\ address[v] \in Emails
        /\ p \notin met =>
             /\ \A w \in Visits \ {v} : person[w] # p
             /\ LinkedRow(p) /\ AsFound(v, p)
  BY <1>1, Guest
<1>2. OAuthTypeOK /\ \A i \in EntryIds : EntryOK(i)
  BY DEF OAuthInv
<1>3. visit'[v] = "exists" /\ person'[v] = p /\ address'[v] = address[v] /\ copy[v] = Nobody
  BY <1>0, <1>1, <1>2 DEF VisitStep, OAuthTypeOK, VisitOK
<1>4. visit' \in [Visits -> {"idle", "entry", "exists", "insert", "user", "link", "tokens", "save"}]
  BY <1>1, <1>2 DEF VisitStep, OAuthTypeOK
<1>5. WritesOf(p) /\ (p \notin met => LinkedRow(p)')
  BY <1>0, <1>1, LinkedRowStays DEF WritesOf
<1>6. CASE Of(person[v]) = {} /\ UNCHANGED <<entry_id, copy>>
  <2>1. OtherVisits(v)
    BY <1>1, <1>2, <1>6 DEF OtherVisits, VisitStep, OAuthTypeOK
  <2>2. OAuthTypeOK'
    BY <1>1, <1>2, <1>4, <1>6 DEF OAuthTypeOK, world
  <2>3. VisitOK(v)'
    BY <1>0, <1>1, <1>3, <1>6, OAuthAssumption DEF VisitOK
  <2>4. AsFound(v, p)'
    BY <1>0, <1>1, <1>3, <1>6 DEF AsFound, Of, HasEntry
  <2> QED
    BY <1>0, <1>1, <1>3, <1>5, <2>1, <2>2, <2>3, <2>4, PersonStep
<1>7. ASSUME NEW i \in Of(person[v]), entry_id' = [entry_id EXCEPT ![v] = i],
             copy' = [copy EXCEPT ![v] = entries[i]]
      PROVE  OAuthInv'
  <2>1. OtherVisits(v) /\ i \in EntryIds /\ HasEntry(i, p) /\ entry_id'[v] = i /\ copy'[v] = entries[i]
    BY <1>0, <1>1, <1>2, <1>7 DEF OtherVisits, VisitStep, OAuthTypeOK, Of, HasEntry
  <2>2. OAuthTypeOK'
    <3>1. entry_id' \in [Visits -> EntryIds \cup {0}] /\ copy' \in [Visits -> Entry \cup {Nobody}]
      BY <1>2, <1>7, <2>1 DEF OAuthTypeOK
    <3> QED
      BY <1>1, <1>2, <1>4, <3>1 DEF OAuthTypeOK, world
  <2>3. i # 0 /\ EntryOK(i)
    BY <1>2, <2>1, OAuthAssumption DEF EntryIds
  <2>4. VisitOK(v)'
    BY <1>0, <1>1, <1>3, <2>1, <2>3, OAuthAssumption DEF VisitOK, HasEntry, EntryOK
  <2>5. AsFound(v, p)'
    BY <1>3, <2>1 DEF AsFound, HasEntry
  <2> QED
    BY <1>0, <1>1, <1>3, <1>5, <2>1, <2>2, <2>4, <2>5, PersonStep
<1> QED
  BY <1>1, <1>6, <1>7

LEMMA CheckStep ==
  ASSUME OAuthInv, NEW v \in Visits, CheckAccount(v)
  PROVE  OAuthInv'
<1>1. /\ visit[v] = "exists" /\ UNCHANGED <<world, users, entries, linked, met>>
      /\ \/ VisitDone(v)
         \/ /\ VisitStep(v, IF copy[v] = Nobody THEN "insert" ELSE "link")
            /\ UNCHANGED <<person, address, entry_id, copy>>
  BY DEF CheckAccount
<1>3. CASE VisitDone(v)
  BY <1>1, <1>3, EndsVisit
<1>4. CASE /\ VisitStep(v, IF copy[v] = Nobody THEN "insert" ELSE "link")
           /\ UNCHANGED <<person, address, entry_id, copy>>
  <2>0. PICK p \in People :
          /\ person[v] = p /\ VisitOK(v) /\ address[v] \in Emails
          /\ p \notin met =>
               /\ \A w \in Visits \ {v} : person[w] # p
               /\ LinkedRow(p) /\ AsFound(v, p)
    BY <1>1, Guest
  <2>2. OAuthTypeOK /\ \A i \in EntryIds : EntryOK(i)
    BY DEF OAuthInv
  <2>1. /\ visit'[v] = IF copy[v] = Nobody THEN "insert" ELSE "link"
        /\ visit' \in [Visits -> {"idle", "entry", "exists", "insert", "user", "link",
                                  "tokens", "save"}]
        /\ OtherVisits(v)
    BY <1>4, <2>2 DEF VisitStep, OAuthTypeOK, OtherVisits
  <2>3. OAuthTypeOK'
    BY <1>1, <1>4, <2>1, <2>2 DEF OAuthTypeOK, world
  <2>4. VisitOK(v)'
    BY <1>1, <1>4, <2>0, <2>1, OAuthAssumption DEF VisitOK, HasEntry
  <2>5. WritesOf(p) /\ (p \notin met => LinkedRow(p)')
    BY <1>1, <2>0, LinkedRowStays DEF WritesOf
  <2>6. p \notin met => AsFound(v, p)'
    BY <1>1, <1>4, <2>0, <2>1 DEF AsFound, HasEntry
  <2> QED
    BY <1>1, <1>4, <2>0, <2>1, <2>3, <2>4, <2>5, <2>6, PersonStep
<1> QED
  BY <1>1, <1>3, <1>4

LEMMA InsertEntryStep ==
  ASSUME OAuthInv, NEW v \in Visits, NEW i \in EntryIds, InsertEntry(v, i)
  PROVE  OAuthInv'
<1> DEFINE row == [oauth_id |-> person[v], oauth_email |-> address[v], user |-> Nobody]
<1>1. /\ visit[v] = "insert" /\ entries[i] = Nobody
      /\ entries' = [entries EXCEPT ![i] = row]
      /\ UNCHANGED <<world, users, linked, met>>
      /\ \/ /\ VisitStep(v, "user")
            /\ entry_id' = [entry_id EXCEPT ![v] = i]
            /\ copy' = [copy EXCEPT ![v] = row]
            /\ UNCHANGED <<person, address>>
         \/ VisitDone(v)
  BY DEF InsertEntry
<1>0. PICK p \in People :
        /\ person[v] = p /\ VisitOK(v) /\ address[v] \in Emails
        /\ p \notin met =>
             /\ \A w \in Visits \ {v} : person[w] # p
             /\ LinkedRow(p) /\ AsFound(v, p)
  BY <1>1, Guest
<1>2. OAuthTypeOK /\ \A j \in EntryIds : EntryOK(j)
  BY DEF OAuthInv
<1>3. row \in Entry /\ row # Nobody /\ row.oauth_id = p /\ row.user = Nobody
  BY <1>0, NobodyAssumption DEF Entry
<1>4. entries'[i] = row /\ \A j \in EntryIds \ {i} : entries'[j] = entries[j]
  BY <1>1, <1>2 DEF OAuthTypeOK
<1>5. entries' \in [EntryIds -> Entry \cup {Nobody}]
  BY <1>1, <1>2, <1>3 DEF OAuthTypeOK
<1> HIDE DEF row
<1>6. WritesOf(p)
  BY <1>1, <1>3, <1>4 DEF WritesOf
<1>7. p \notin met => LinkedRow(p)'
  <2> HAVE p \notin met
  <2>1. \A j \in EntryIds : ~HasEntry(j, p)
    BY <1>0, <1>1 DEF AsFound, VisitOK
  <2>2. \A j \in EntryIds : HasEntry(j, p)' <=> j = i
    BY <1>3, <1>4, <2>1 DEF HasEntry
  <2>3. linked[p] = Nobody
    BY <1>0, <2>1 DEF LinkedRow
  <2> QED
    BY <1>1, <1>3, <1>4, <2>2, <2>3 DEF LinkedRow
<1>8. CASE VisitDone(v)
  <2>1. person'[v] = Nobody /\ OtherVisits(v) /\ VisitOK(v)'
    BY <1>2, <1>8, VisitDonePoint
  <2>2. OAuthTypeOK'
    BY <1>1, <1>2, <1>5, <1>8, VisitDonePoint DEF OAuthTypeOK, world
  <2> QED
    BY <1>0, <1>1, <1>6, <1>7, <2>1, <2>2, OAuthAssumption, PersonStep
<1>9. CASE /\ VisitStep(v, "user")
           /\ entry_id' = [entry_id EXCEPT ![v] = i]
           /\ copy' = [copy EXCEPT ![v] = row]
           /\ UNCHANGED <<person, address>>
  <2>1. /\ visit'[v] = "user" /\ entry_id'[v] = i /\ copy'[v] = row /\ person'[v] = p
        /\ address'[v] = address[v] /\ OtherVisits(v)
    BY <1>0, <1>2, <1>9 DEF VisitStep, OAuthTypeOK, OtherVisits
  <2>2. OAuthTypeOK'
    <3>1. /\ entry_id' \in [Visits -> EntryIds \cup {0}] /\ copy' \in [Visits -> Entry \cup {Nobody}]
          /\ visit' \in [Visits -> {"idle", "entry", "exists", "insert", "user", "link", "tokens", "save"}]
      BY <1>2, <1>3, <1>9 DEF OAuthTypeOK, VisitStep
    <3> QED
      BY <1>1, <1>2, <1>5, <1>9, <3>1 DEF OAuthTypeOK, world
  <2>3. i # 0
    BY OAuthAssumption DEF EntryIds
  <2>4. VisitOK(v)'
    BY <1>0, <1>3, <1>4, <2>1, <2>3, OAuthAssumption DEF VisitOK, HasEntry
  <2>5. AsFound(v, p)'
    BY <2>1 DEF AsFound
  <2> QED
    BY <1>0, <1>1, <1>6, <1>7, <2>1, <2>2, <2>4, <2>5, PersonStep
<1> QED
  BY <1>1, <1>8, <1>9

(* A request that saves a row of its person over the entry it works on. *)
LEMMA SavedEntryRow ==
  ASSUME OAuthTypeOK, NEW i \in EntryIds, NEW p \in People, NEW row \in Entry,
         HasEntry(i, p), row.oauth_id = p, row.user \in users' \cup {Nobody},
         entries' = [entries EXCEPT ![i] = row], users \subseteq users'
  PROVE  /\ WritesOf(p) /\ entries' \in [EntryIds -> Entry \cup {Nobody}]
         /\ entries'[i] = row /\ HasEntry(i, p)'
         /\ LinkedRow(p) /\ linked'[p] = row.user => LinkedRow(p)'
<1>1. row # Nobody
  BY NobodyAssumption
<1>2. /\ entries' \in [EntryIds -> Entry \cup {Nobody}] /\ entries'[i] = row
      /\ \A j \in EntryIds \ {i} : entries'[j] = entries[j]
  BY DEF OAuthTypeOK
<1>3. WritesOf(p) /\ HasEntry(i, p)'
  BY <1>1, <1>2 DEF WritesOf, HasEntry
<1>4. ASSUME LinkedRow(p), linked'[p] = row.user
      PROVE  LinkedRow(p)'
  <2>1. \A j \in EntryIds : HasEntry(j, p)' => HasEntry(j, p)
    BY <1>2 DEF HasEntry
  <2>2. \A j \in EntryIds : HasEntry(j, p) => j = i
    BY <1>4 DEF LinkedRow
  <2>3. linked'[p] # Nobody => linked'[p] \in users'
    BY <1>4
  <2> QED
    BY <1>2, <1>3, <1>4, <2>1, <2>2, <2>3 DEF LinkedRow
<1> QED
  BY <1>2, <1>3, <1>4

LEMMA InsertAccountStep ==
  ASSUME OAuthInv, NEW v \in Visits, InsertAccount(v)
  PROVE  OAuthInv'
<1>1. /\ visit[v] = "user" /\ UNCHANGED <<world, entries, linked, met>>
      /\ \/ VisitDone(v) /\ UNCHANGED users
         \/ /\ users' = users \cup {address[v]}
            /\ copy' = [copy EXCEPT ![v].user = address[v]]
            /\ VisitStep(v, "link")
            /\ UNCHANGED <<person, address, entry_id>>
  BY DEF InsertAccount
<1>3. CASE VisitDone(v) /\ UNCHANGED users
  BY <1>1, <1>3, EndsVisit
<1>4. CASE /\ users' = users \cup {address[v]}
           /\ copy' = [copy EXCEPT ![v].user = address[v]]
           /\ VisitStep(v, "link")
           /\ UNCHANGED <<person, address, entry_id>>
  <2>0. PICK p \in People :
          /\ person[v] = p /\ VisitOK(v) /\ address[v] \in Emails
          /\ p \notin met =>
               /\ \A w \in Visits \ {v} : person[w] # p
               /\ LinkedRow(p) /\ AsFound(v, p)
    BY <1>1, Guest
  <2>2. OAuthTypeOK /\ \A i \in EntryIds : EntryOK(i)
    BY DEF OAuthInv
  <2> DEFINE row == [copy[v] EXCEPT !.user = address[v]]
  <2>1. copy[v] \in Entry /\ copy[v] # Nobody /\ copy[v].oauth_id = p
    BY <1>1, <2>0, <2>2 DEF VisitOK, OAuthTypeOK
  <2>3. row \in Entry /\ row # Nobody /\ row.oauth_id = p /\ row.user = address[v]
    BY <2>0, <2>1, NobodyAssumption DEF Entry
  <2>4. copy' = [copy EXCEPT ![v] = row]
    BY <1>4
  <2>5. copy'[v] = row /\ visit'[v] = "link" /\ OtherVisits(v)
    BY <1>4, <2>2, <2>4 DEF VisitStep, OAuthTypeOK, OtherVisits
  <2>6. OAuthTypeOK'
    <3>1. /\ copy' \in [Visits -> Entry \cup {Nobody}]
          /\ visit' \in [Visits -> {"idle", "entry", "exists", "insert", "user", "link",
                                    "tokens", "save"}]
          /\ users' \subseteq Emails
      BY <1>4, <2>0, <2>2, <2>3, <2>4 DEF VisitStep, OAuthTypeOK
    <3> QED
      BY <1>1, <1>4, <2>2, <3>1 DEF OAuthTypeOK, world
  <2> HIDE DEF row
  <2>7. VisitOK(v)'
    BY <1>1, <1>4, <2>0, <2>1, <2>3, <2>5, OAuthAssumption DEF VisitOK, HasEntry
  <2>8. WritesOf(p) /\ (p \notin met => LinkedRow(p)')
    BY <1>1, <1>4, <2>0, LinkedRowStays DEF WritesOf
  <2>9. AsFound(v, p)'
    BY <2>5 DEF AsFound
  <2> QED
    BY <1>1, <1>4, <2>0, <2>5, <2>6, <2>7, <2>8, <2>9, PersonStep
<1> QED
  BY <1>1, <1>3, <1>4

LEMMA SaveLinkStep ==
  ASSUME OAuthInv, NEW v \in Visits, SaveLink(v)
  PROVE  OAuthInv'
<1> DEFINE row == [copy[v] EXCEPT !.oauth_email = address[v]]
<1>1. /\ visit[v] = "link" /\ VisitStep(v, "tokens")
      /\ entries' = [entries EXCEPT ![entry_id[v]] = row]
      /\ copy' = [copy EXCEPT ![v] = row]
      /\ linked' = [linked EXCEPT ![person[v]] = row.user]
      /\ UNCHANGED <<world, users, person, address, entry_id, met>>
  BY DEF SaveLink
<1>0. PICK p \in People :
        /\ person[v] = p /\ VisitOK(v) /\ address[v] \in Emails
        /\ p \notin met =>
             /\ \A w \in Visits \ {v} : person[w] # p
             /\ LinkedRow(p) /\ AsFound(v, p)
  BY <1>1, Guest
<1>2. OAuthTypeOK /\ \A i \in EntryIds : EntryOK(i)
  BY DEF OAuthInv
<1>3. /\ copy[v] \in Entry /\ copy[v].oauth_id = p /\ copy[v].user \in users \cup {Nobody}
      /\ entry_id[v] \in EntryIds /\ HasEntry(entry_id[v], p)
  BY <1>0, <1>1, <1>2 DEF VisitOK, OAuthTypeOK
<1>4. row \in Entry /\ row # Nobody /\ row.oauth_id = p /\ row.user \in users \cup {Nobody}
  BY <1>0, <1>3, NobodyAssumption DEF Entry
<1> HIDE DEF row
<1>5. /\ visit'[v] = "tokens" /\ copy'[v] = row /\ OtherVisits(v)
      /\ linked'[p] = row.user /\ \A q \in People \ {p} : linked'[q] = linked[q]
  BY <1>0, <1>1, <1>2 DEF VisitStep, OAuthTypeOK, OtherVisits
<1>6. PICK i \in EntryIds : i = entry_id[v]
  BY <1>3
<1>7. /\ WritesOf(p) /\ entries' \in [EntryIds -> Entry \cup {Nobody}]
      /\ HasEntry(i, p)' /\ (LinkedRow(p) => LinkedRow(p)')
  <2>1. entries' = [entries EXCEPT ![i] = row] /\ HasEntry(i, p) /\ users' = users
    BY <1>1, <1>3, <1>6
  <2> QED
    BY <1>2, <1>4, <1>5, <2>1, SavedEntryRow
<1>8. OAuthTypeOK'
  <2>1. /\ copy' \in [Visits -> Entry \cup {Nobody}]
        /\ visit' \in [Visits -> {"idle", "entry", "exists", "insert", "user", "link",
                                  "tokens", "save"}]
        /\ linked' \in [People -> Emails \cup {Nobody}]
    BY <1>0, <1>1, <1>2, <1>4 DEF VisitStep, OAuthTypeOK, Entry
  <2> QED
    BY <1>1, <1>2, <1>7, <2>1 DEF OAuthTypeOK, world
<1>9. VisitOK(v)'
  BY <1>0, <1>1, <1>3, <1>4, <1>5, <1>6, <1>7, OAuthAssumption DEF VisitOK
<1>10. AsFound(v, p)'
  BY <1>5 DEF AsFound
<1> QED
  BY <1>0, <1>1, <1>5, <1>7, <1>8, <1>9, <1>10, PersonStep

LEMMA SaveTokensStep ==
  ASSUME OAuthInv, NEW v \in Visits, SaveTokens(v)
  PROVE  OAuthInv'
<1>1. /\ visit[v] = "tokens" /\ VisitDone(v)
      /\ entries' = [entries EXCEPT ![entry_id[v]] = copy[v]]
      /\ UNCHANGED <<world, users, linked, met>>
  BY DEF SaveTokens
<1>0. PICK p \in People :
        /\ person[v] = p /\ VisitOK(v) /\ address[v] \in Emails
        /\ p \notin met =>
             /\ \A w \in Visits \ {v} : person[w] # p
             /\ LinkedRow(p) /\ AsFound(v, p)
  BY <1>1, Guest
<1>2. OAuthTypeOK /\ \A i \in EntryIds : EntryOK(i)
  BY DEF OAuthInv
<1>3. /\ copy[v] \in Entry /\ copy[v].oauth_id = p /\ copy[v].user \in users \cup {Nobody}
      /\ entry_id[v] \in EntryIds /\ HasEntry(entry_id[v], p)
  BY <1>0, <1>1, <1>2 DEF VisitOK, OAuthTypeOK
<1>4. WritesOf(p) /\ entries' \in [EntryIds -> Entry \cup {Nobody}]
  BY <1>1, <1>2, <1>3, SavedEntryRow
<1>5. p \notin met => LinkedRow(p)'
  BY <1>0, <1>1, <1>2, <1>3, SavedEntryRow DEF AsFound
<1>6. person'[v] = Nobody /\ OtherVisits(v) /\ VisitOK(v)'
  BY <1>1, <1>2, VisitDonePoint
<1>7. OAuthTypeOK'
  BY <1>1, <1>2, <1>4, VisitDonePoint DEF OAuthTypeOK, world
<1> QED
  BY <1>0, <1>1, <1>4, <1>5, <1>6, <1>7, OAuthAssumption, PersonStep

LEMMA SaveFormStep ==
  ASSUME OAuthInv, NEW v \in Visits, NEW u \in Emails \cup {Nobody}, SaveForm(v, u)
  PROVE  OAuthInv'
<1> DEFINE row == [copy[v] EXCEPT !.user = u]
<1>1. /\ visit[v] = "save" /\ u \in {address[v], Nobody} /\ VisitDone(v)
      /\ entries' = [entries EXCEPT ![entry_id[v]] = row]
      /\ linked' = [linked EXCEPT ![person[v]] = u]
      /\ UNCHANGED <<world, users, met>>
  BY DEF SaveForm
<1>0. PICK p \in People :
        /\ person[v] = p /\ VisitOK(v) /\ address[v] \in Emails
        /\ p \notin met =>
             /\ \A w \in Visits \ {v} : person[w] # p
             /\ LinkedRow(p) /\ AsFound(v, p)
  BY <1>1, Guest
<1>2. OAuthTypeOK /\ \A i \in EntryIds : EntryOK(i)
  BY DEF OAuthInv
<1>3. /\ copy[v] \in Entry /\ copy[v].oauth_id = p /\ u \in users \cup {Nobody}
      /\ entry_id[v] \in EntryIds /\ HasEntry(entry_id[v], p)
  BY <1>0, <1>1, <1>2 DEF VisitOK, OAuthTypeOK
<1>4. row \in Entry /\ row.oauth_id = p /\ row.user = u
  BY <1>3 DEF Entry
<1> HIDE DEF row
<1>5. linked'[p] = u /\ (\A q \in People \ {p} : linked'[q] = linked[q])
      /\ linked' \in [People -> Emails \cup {Nobody}]
  BY <1>0, <1>1, <1>2 DEF OAuthTypeOK
<1>6. /\ WritesOf(p) /\ entries' \in [EntryIds -> Entry \cup {Nobody}]
      /\ LinkedRow(p) => LinkedRow(p)'
  BY <1>1, <1>2, <1>3, <1>4, <1>5, SavedEntryRow
<1>7. person'[v] = Nobody /\ OtherVisits(v) /\ VisitOK(v)'
  BY <1>1, <1>2, VisitDonePoint
<1>8. OAuthTypeOK'
  BY <1>1, <1>2, <1>5, <1>6, VisitDonePoint DEF OAuthTypeOK, world
<1> QED
  BY <1>0, <1>1, <1>5, <1>6, <1>7, <1>8, OAuthAssumption, PersonStep

LEMMA OpenFormStep ==
  ASSUME OAuthInv, NEW v \in Visits, NEW e \in Emails, NEW i \in EntryIds, OpenForm(v, e, i)
  PROVE  OAuthInv'
<1>1. /\ visit[v] = "idle" /\ e \in users /\ entries[i] # Nobody
      /\ VisitStep(v, "save")
      /\ person' = [person EXCEPT ![v] = entries[i].oauth_id]
      /\ address' = [address EXCEPT ![v] = e]
      /\ entry_id' = [entry_id EXCEPT ![v] = i]
      /\ copy' = [copy EXCEPT ![v] = entries[i]]
      /\ Meet(entries[i].oauth_id)
      /\ UNCHANGED <<world, users, entries, linked>>
  BY DEF OpenForm
<1>2. OAuthTypeOK /\ VisitOK(v) /\ EntryOK(i)
  BY DEF OAuthInv
<1>3. PICK p \in People : p = entries[i].oauth_id
  BY <1>1, <1>2 DEF OAuthTypeOK, Entry
<1>4. HasEntry(i, p) /\ i # 0 /\ entries[i] \in Entry /\ entries[i].user \in users \cup {Nobody}
  BY <1>1, <1>2, <1>3, OAuthAssumption DEF HasEntry, EntryIds, OAuthTypeOK, EntryOK
<1>5. /\ person[v] = Nobody /\ visit'[v] = "save" /\ person'[v] = p /\ address'[v] = e
      /\ entry_id'[v] = i /\ copy'[v] = entries[i] /\ OtherVisits(v)
  BY <1>1, <1>2, <1>3 DEF VisitOK, VisitStep, OAuthTypeOK, OtherVisits
<1>6. OAuthTypeOK'
  <2>1. /\ met' \subseteq People
        /\ visit' \in [Visits -> {"idle", "entry", "exists", "insert", "user", "link",
                                  "tokens", "save"}]
        /\ person' \in [Visits -> People \cup {Nobody}]
    BY <1>1, <1>2, <1>3 DEF Meet, VisitStep, OAuthTypeOK
  <2>2. /\ address' \in [Visits -> Emails \cup {Nobody}] /\ entry_id' \in [Visits -> EntryIds \cup {0}]
        /\ copy' \in [Visits -> Entry \cup {Nobody}]
    BY <1>1, <1>2, <1>4 DEF OAuthTypeOK
  <2> QED
    BY <1>1, <1>2, <2>1, <2>2 DEF OAuthTypeOK, world
<1>7. VisitOK(v)'
  BY <1>1, <1>3, <1>4, <1>5, OAuthAssumption DEF VisitOK, HasEntry
<1>8. WritesOf(p) /\ met \subseteq met'
  BY <1>1 DEF WritesOf, Meet
<1>9. p \notin met' => /\ \A w \in Visits \ {v} : person[w] # p
                       /\ LinkedRow(p)' /\ AsFound(v, p)'
  <2> HAVE p \notin met'
  <2>1. p \notin met /\ \A w \in Visits : person[w] # p
    BY <1>1, <1>3 DEF Meet, About
  <2>2. LinkedRow(p)
    BY <2>1 DEF OAuthInv, KnownOK
  <2>3. LinkedRow(p)'
    BY <1>1, <2>2, LinkedRowStays
  <2> QED
    BY <1>5, <2>1, <2>3 DEF AsFound
<1> QED
  BY <1>1, <1>5, <1>6, <1>7, <1>8, <1>9, PersonStep

(* Neither a new address at Discord nor a new account touches an entry. *)
LEMMA OutsideStep ==
  ASSUME OAuthInv, OAuthTypeOK', users \subseteq users', UNCHANGED <<entries, visitVars, linked, met>>
  PROVE  OAuthInv'
<1>1. \A v \in Visits : VisitOK(v)'
  BY DEF OAuthInv, VisitOK, HasEntry, visitVars
<1>2. \A i \in EntryIds : EntryOK(i)'
  BY DEF OAuthInv, EntryOK
<1>3. \A p \in People \ met' : KnownOK(p)'
  <2> TAKE p \in People \ met'
  <2>1. KnownOK(p)
    BY DEF OAuthInv
  <2>2. LinkedRow(p)'
    BY <2>1, LinkedRowStays DEF KnownOK
  <2> QED
    BY <2>1, <2>2 DEF KnownOK, AsFound, HasEntry, visitVars
<1> QED
  BY <1>1, <1>2, <1>3 DEF OAuthInv

(* And the invariant of every behaviour. *)
LEMMA OAuthInvariant == OAuthSpec => []OAuthInv
<1>1. OAuthInv /\ [OAuthNext]_oauthVars => OAuthInv'
  <2> SUFFICES ASSUME OAuthInv, [OAuthNext]_oauthVars
               PROVE  OAuthInv'
    OBVIOUS
  <2>0. OAuthTypeOK
    BY DEF OAuthInv
  <2>1. ASSUME NEW p \in People, NEW e \in Emails, ChangeMail(p, e)
        PROVE  OAuthInv'
    <3>1. OAuthTypeOK'
      BY <2>0, <2>1 DEF ChangeMail, OAuthTypeOK, visitVars
    <3> QED
      BY <2>1, <3>1, OutsideStep DEF ChangeMail
  <2>2. ASSUME NEW e \in Emails, Register(e)
        PROVE  OAuthInv'
    <3>1. OAuthTypeOK'
      BY <2>0, <2>2 DEF Register, OAuthTypeOK, visitVars, world
    <3> QED
      BY <2>2, <3>1, OutsideStep DEF Register
  <2>3. ASSUME NEW v \in Visits,
               \/ \E p \in People : ComeBack(v, p)
               \/ FindEntry(v) \/ CheckAccount(v)
               \/ \E i \in EntryIds : InsertEntry(v, i)
               \/ InsertAccount(v) \/ SaveLink(v) \/ SaveTokens(v)
        PROVE  OAuthInv'
    BY <2>3, ComeBackStep, FindStep, CheckStep, InsertEntryStep, InsertAccountStep, SaveLinkStep,
       SaveTokensStep
  <2>4. ASSUME NEW v \in Visits,
               \/ \E e \in Emails, i \in EntryIds : OpenForm(v, e, i)
               \/ \E u \in Emails \cup {Nobody} : SaveForm(v, u)
               \/ FailVisit(v)
        PROVE  OAuthInv'
    BY <2>4, OpenFormStep, SaveFormStep, EndsVisit DEF FailVisit
  <2>5. CASE UNCHANGED oauthVars
    <3>1. OAuthTypeOK'
      BY <2>0, <2>5 DEF oauthVars, OAuthTypeOK, visitVars, world
    <3> QED
      BY <2>5, <3>1, OutsideStep DEF oauthVars
  <2> QED
    BY <2>1, <2>2, <2>3, <2>4, <2>5 DEF OAuthNext
<1> QED
  BY <1>1, OAuthInitially, PTL DEF OAuthSpec

(* A person whose requests did not meet and who signs in again comes to the *)
(* account of the first time, whatever the e-mail address at the provider  *)
(* has become meanwhile.                                                   *)
THEOREM ReturnsAreKnown == OAuthSpec => []ReturningUserIsKnown
<1>1. OAuthInv => ReturningUserIsKnown
  <2> SUFFICES ASSUME OAuthInv, NEW p \in People \ met
               PROVE  /\ Cardinality(Of(p)) <= 1
                      /\ \A i \in Of(p) : entries[i].user = linked[p]
                      /\ linked[p] # Nobody => Of(p) # {} /\ linked[p] \in users
    BY DEF ReturningUserIsKnown
  <2>1. LinkedRow(p)
    BY DEF OAuthInv, KnownOK
  <2>2. \A i, j \in Of(p) : i = j
    BY <2>1 DEF Of, LinkedRow, HasEntry
  <2>3. Cardinality(Of(p)) <= 1
    <3>1. CASE Of(p) = {}
      BY <3>1, FS_EmptySet
    <3>2. CASE Of(p) # {}
      <4>1. PICK i : i \in Of(p)
        BY <3>2
      <4>2. Of(p) = {i}
        BY <2>2, <4>1
      <4>3. Cardinality({i}) = 1
        BY FS_Singleton
      <4> QED
        BY <4>2, <4>3
    <3> QED
      BY <3>1, <3>2
  <2> QED
    BY <2>1, <2>3 DEF Of, LinkedRow, HasEntry
<1> QED
  BY <1>1, OAuthInvariant, PTL

(* The accounts, their entries and the sign-ins have their types. *)
THEOREM OAuthTypeCorrect == OAuthSpec => []OAuthTypeOK
<1>1. OAuthInv => OAuthTypeOK
  BY DEF OAuthInv
<1>2. QED
  BY <1>1, OAuthInvariant, PTL
-----------------------------------------------------------------------------
(* The weekly job. *)

(* The rows of the table, and the jobs that found the key free. *)
Rows == {Aggregate(w, uses) : w \in Weeks, uses \in SUBSET Uses}
Holds(j) == job_stage[j] \in {"set", "compute", "save"}

(* The types, and what a job's stage says of what it has in hand. *)
JobTypes ==
  /\ week \in Weeks
  /\ invokes \in [Weeks -> SUBSET Uses]
  /\ aggregates \in Seq(Rows)
  /\ running \in BOOLEAN /\ job_raced \in BOOLEAN
  /\ job_stage \in [Jobs -> {"idle", "done", "key", "set", "compute", "save"}]
  /\ max_week \in [Jobs -> Weeks \cup {NoWeek}]
  /\ current_week \in [Jobs -> Nat \cup {NoWeek}]
  /\ computed \in [Jobs -> Seq(Rows)]

JobOK(j) ==
  /\ job_stage[j] # "idle" => max_week[j] \in Weeks /\ max_week[j] <= week
  /\ Active(j) => current_week[j] \in Nat
  /\ job_stage[j] \notin {"compute", "save"} => computed[j] = <<>>
  /\ job_stage[j] = "save" => computed[j] # <<>>

(* A row in its place tells of every use of its week, which is over. The   *)
(* first week may be computed before it is over; of its row no more is     *)
(* asked.                                                                  *)
WholeRow(row, w) ==
  /\ row.data_for_week_starting = w
  /\ w = 0 \/ (w < week /\ row = Aggregate(w, invokes[w]))

(* Of a job that has the key to itself: what it goes on from is the end of *)
(* the table, and what it has computed comes next.                         *)
Turn(j) ==
  /\ job_stage[j] \in {"compute", "save"} => running
  /\ job_stage[j] = "set" => ~running
  /\ job_stage[j] = "set" \/ (job_stage[j] = "key" /\ ~running) =>
       current_week[j] = Len(aggregates)
  /\ job_stage[j] \in {"key", "set", "compute"} => current_week[j] # max_week[j] \/ current_week[j] = 0
  /\ job_stage[j] = "compute" => current_week[j] = Len(aggregates) + Len(computed[j])
  /\ \A n \in DOMAIN computed[j] : WholeRow(computed[j][n], Len(aggregates) + n - 1)

(* What holds as long as the key did not expire under a job. *)
Unraced ==
  /\ \A j, k \in Jobs : Holds(j) /\ Holds(k) => j = k
  /\ \A j \in Jobs : Turn(j)
  /\ \A i \in DOMAIN aggregates : WholeRow(aggregates[i], i - 1)

(* The inductive invariant. *)
WeeksInv ==
  /\ JobTypes
  /\ \A w \in Weeks : invokes[w] # {} => w <= week
  /\ \A j \in Jobs : JobOK(j)
  /\ ~job_raced => Unraced
-----------------------------------------------------------------------------
(* The largest week of a set of weeks. *)
LEMMA LastIsLast ==
  ASSUME NEW n \in Nat, NEW S \in SUBSET (0 .. n), S # {}
  PROVE  Last(S) \in S /\ \A v \in S : v <= Last(S)
<1> DEFINE T == {k \in Nat : n - k \in S}
<1>1. PICK s \in S : s \in 0 .. n
  OBVIOUS
<1>2. n - s \in T
  BY <1>1
<1>3. PICK k \in T : \A l \in T : k <= l
  <2>1. T \subseteq Nat /\ T # {}
    BY <1>2
  <2> HIDE DEF T
  <2> DEFINE less == {ss \in Nat \X Nat : ss[1] < ss[2]}
  <2>2. IsWellFoundedOn(less, Nat)
    BY NatLessThanWellFounded DEF OpToRel
  <2>4. PICK k \in T : \A l \in T : ~(<<l, k>> \in less)
    <3> HIDE DEF less
    <3> QED
      BY <2>1, <2>2, WFMin
  <2>3. \A l \in T : ~(l < k) /\ l \in Nat /\ k \in Nat
    BY <2>1, <2>4
  <2> QED
    BY <2>1, <2>3
<1>4. n - k \in S /\ \A v \in S : v <= n - k
  <2> SUFFICES ASSUME NEW v \in S
               PROVE  v <= n - k
    OBVIOUS
  <2>1. v \in 0 .. n /\ n - v \in Nat /\ n - (n - v) = v
    OBVIOUS
  <2>2. n - v \in T
    BY <2>1
  <2> QED
    BY <1>3, <2>1, <2>2
<1> HIDE DEF T
<1> QED
  BY <1>4 DEF Last

(* The week of a row. *)
LEMMA AggregateWeek == \A w, uses : Aggregate(w, uses).data_for_week_starting = w
  BY DEF Aggregate

(* No job runs at the start, and the table is empty. *)
LEMMA AggregateInitially ==
  ASSUME AggregateInit
  PROVE  WeeksInv
<1> USE WeeklyAggregateAssumption DEF Weeks, NoWeek
<1>1. JobTypes
  <2>1. 0 \in Weeks /\ <<>> \in Seq(Rows)
    OBVIOUS
  <2> QED
    BY <2>1 DEF AggregateInit, JobTypes
<1>2. \A j \in Jobs : JobOK(j) /\ Turn(j) /\ ~Holds(j)
  BY DEF AggregateInit, JobOK, Turn, Holds, Active
<1>3. \A w \in Weeks : invokes[w] = {}
  BY DEF AggregateInit
<1>4. DOMAIN aggregates = {}
  BY DEF AggregateInit
<1> QED
  BY <1>1, <1>2, <1>3, <1>4 DEF WeeksInv, Unraced

(* The past stays: only the uses of this week grow. *)
PastStays ==
  /\ week <= week'
  /\ \A w \in Weeks : w < week => invokes'[w] = invokes[w]

(* A past week gets no more uses, so that a row that is whole stays so. *)
LEMMA WholeStays ==
  ASSUME JobTypes, JobTypes', PastStays, NEW row, NEW w \in Nat, WholeRow(row, w)
  PROVE  WholeRow(row, w)'
<1> USE WeeklyAggregateAssumption DEF Weeks
<1>1. week \in Weeks /\ week' \in Weeks /\ week <= week'
  BY DEF JobTypes, PastStays
<1>2. CASE w = 0
  BY <1>2 DEF WholeRow
<1>3. CASE w # 0
  <2>1. w < week /\ row = Aggregate(w, invokes[w]) /\ row.data_for_week_starting = w
    BY <1>3 DEF WholeRow
  <2>2. w \in Weeks /\ w < week'
    BY <1>1, <2>1
  <2>3. invokes'[w] = invokes[w]
    BY <2>1, <2>2 DEF PastStays
  <2> QED
    BY <2>1, <2>2, <2>3 DEF WholeRow
<1> QED
  BY <1>2, <1>3

(* What one job does leaves the others alone; a job that ends holds        *)
(* nothing.                                                                *)
OtherJobs(j) ==
  \A k \in Jobs \ {j} :
    /\ job_stage'[k] = job_stage[k] /\ max_week'[k] = max_week[k]
    /\ current_week'[k] = current_week[k] /\ computed'[k] = computed[k]

LEMMA JobEndPoint ==
  ASSUME JobTypes, NEW j \in Jobs, JobEnd(j)
  PROVE  /\ job_stage' \in [Jobs -> {"idle", "done", "key", "set", "compute", "save"}]
         /\ max_week' \in [Jobs -> Weeks \cup {NoWeek}]
         /\ current_week' \in [Jobs -> Nat \cup {NoWeek}]
         /\ computed' \in [Jobs -> Seq(Rows)]
         /\ OtherJobs(j) /\ JobOK(j)' /\ Turn(j)' /\ ~Holds(j)'
<1>1. /\ job_stage' \in [Jobs -> {"idle", "done", "key", "set", "compute", "save"}]
      /\ max_week' \in [Jobs -> Weeks \cup {NoWeek}]
      /\ current_week' \in [Jobs -> Nat \cup {NoWeek}]
      /\ computed' \in [Jobs -> Seq(Rows)]
      /\ job_stage'[j] = "idle" /\ computed'[j] = <<>>
      /\ OtherJobs(j)
  BY DEF JobTypes, JobEnd, JobStep, OtherJobs
<1>2. JobOK(j)' /\ ~Holds(j)'
  BY <1>1 DEF JobOK, Active, Holds
<1>3. DOMAIN (computed'[j]) = {}
  BY <1>1
<1>4. Turn(j)'
  BY <1>1, <1>3 DEF Turn
<1> QED
  BY <1>1, <1>2, <1>4

(* A step of run j leaves what the other runs hold as it was. *)
LEMMA RunStep ==
  ASSUME WeeksInv, NEW j \in Jobs, OtherJobs(j), UNCHANGED <<week, invokes>>, JobTypes', JobOK(j)',
         ~job_raced' =>
           /\ ~job_raced /\ Turn(j)' /\ \A k \in Jobs \ {j} : Turn(k)'
           /\ Holds(j)' => \A k \in Jobs \ {j} : ~Holds(k)
           /\ \A i \in DOMAIN aggregates' : WholeRow(aggregates[i], i - 1)'
  PROVE  WeeksInv'
<1>1. \A k \in Jobs : JobOK(k)'
  <2>1. ASSUME NEW k \in Jobs \ {j}
        PROVE  JobOK(k)'
    <3>1. JobOK(k)
      BY DEF WeeksInv
    <3> QED
      BY <3>1 DEF JobOK, OtherJobs, Active
  <2> QED
    BY <2>1
<1>2. ~job_raced' => Unraced'
  <2> HAVE ~job_raced'
  <2>1. \A k, l \in Jobs : Holds(k) /\ Holds(l) => k = l
    BY DEF WeeksInv, Unraced
  <2>2. \A k \in Jobs \ {j} : Holds(k)' <=> Holds(k)
    BY DEF OtherJobs, Holds
  <2>3. (\A k, l \in Jobs : Holds(k) /\ Holds(l) => k = l)'
    BY <2>1, <2>2
  <2>4. \A k \in Jobs : Turn(k)'
    OBVIOUS
  <2> QED
    BY <2>3, <2>4 DEF Unraced
<1>3. \A w \in Weeks : invokes'[w] # {} => w <= week'
  BY DEF WeeksInv
<1> QED
  BY <1>1, <1>2, <1>3 DEF WeeksInv

(* ... and one that neither sets the key nor saves a row, their turn. *)
LEMMA SilentStep ==
  ASSUME WeeksInv, NEW j \in Jobs, OtherJobs(j), UNCHANGED <<week, invokes, aggregates, running>>,
         JobTypes', JobOK(j)',
         ~job_raced' =>
           /\ ~job_raced /\ Turn(j)'
           /\ Holds(j)' => \A k \in Jobs \ {j} : ~Holds(k)
  PROVE  WeeksInv'
<1> SUFFICES ASSUME ~job_raced'
             PROVE  /\ \A k \in Jobs \ {j} : Turn(k)'
                    /\ \A i \in DOMAIN aggregates' : WholeRow(aggregates[i], i - 1)'
  BY RunStep
<1>1. Unraced
  BY DEF WeeksInv
<1>2. \A row, w : WholeRow(row, w) => WholeRow(row, w)'
  BY DEF WholeRow
<1>3. ASSUME NEW k \in Jobs \ {j}
      PROVE  Turn(k)'
  <2>1. Turn(k)
    BY <1>1 DEF Unraced
  <2>2. /\ job_stage'[k] = job_stage[k] /\ max_week'[k] = max_week[k]
        /\ current_week'[k] = current_week[k] /\ computed'[k] = computed[k]
    BY DEF OtherJobs
  <2>3. (\A n \in DOMAIN computed[k] : WholeRow(computed[k][n], Len(aggregates) + n - 1))'
    BY <1>2, <2>1, <2>2 DEF Turn
  <2> QED
    BY <2>1, <2>2, <2>3 DEF Turn
<1>4. \A i \in DOMAIN aggregates' : WholeRow(aggregates[i], i - 1)'
  BY <1>1, <1>2 DEF Unraced
<1> QED
  BY <1>3, <1>4

(* The steps, one lemma each. *)
LEMMA JobEndStep ==
  ASSUME WeeksInv, NEW j \in Jobs, JobEnd(j), UNCHANGED <<week, invokes, aggregates, running, job_raced>>
  PROVE  WeeksInv'
<1>1. JobTypes /\ (~job_raced => Unraced)
  BY DEF WeeksInv
<1>2. OtherJobs(j) /\ JobOK(j)' /\ Turn(j)' /\ ~Holds(j)'
  BY <1>1, JobEndPoint
<1>3. JobTypes'
  BY <1>1, JobEndPoint DEF JobTypes
<1> QED
  BY <1>2, <1>3, SilentStep

LEMMA StartStep ==
  ASSUME WeeksInv, NEW j \in Jobs, StartJob(j)
  PROVE  WeeksInv'
<1>1. /\ job_stage[j] = "idle" /\ Used # {}
      /\ max_week' = [max_week EXCEPT ![j] = Last(Used)]
      /\ JobStep(j, "done")
      /\ UNCHANGED <<week, invokes, aggregates, running, current_week, computed, job_raced>>
  BY DEF StartJob
<1>2. JobTypes /\ JobOK(j) /\ (~job_raced => Unraced)
  BY DEF WeeksInv
<1>3. Last(Used) \in Weeks /\ Last(Used) <= week
  <2>1. Used \in SUBSET (0 .. LastWeek) /\ LastWeek \in Nat
    BY WeeklyAggregateAssumption DEF Used, Weeks
  <2>2. Last(Used) \in Used
    BY <1>1, <2>1, LastIsLast
  <2> QED
    BY <2>2 DEF Used, WeeksInv
<1>4. /\ job_stage'[j] = "done" /\ max_week'[j] = Last(Used) /\ computed'[j] = <<>>
      /\ OtherJobs(j)
  BY <1>1, <1>2 DEF JobTypes, JobStep, OtherJobs, JobOK
<1>5. JobTypes'
  <2>1. /\ job_stage' \in [Jobs -> {"idle", "done", "key", "set", "compute", "save"}]
        /\ max_week' \in [Jobs -> Weeks \cup {NoWeek}]
    BY <1>1, <1>2, <1>3 DEF JobTypes, JobStep
  <2> QED
    BY <1>1, <1>2, <2>1 DEF JobTypes
<1>6. JobOK(j)' /\ ~Holds(j)'
  BY <1>1, <1>3, <1>4 DEF JobOK, Holds, Active
<1>7. Turn(j)'
  <2>1. DOMAIN (computed'[j]) = {}
    BY <1>4
  <2> QED
    BY <1>4, <2>1 DEF Turn
<1> QED
  BY <1>1, <1>2, <1>4, <1>5, <1>6, <1>7, SilentStep

(* The weeks that have a row, when no run passed the key of another. *)
LEMMA DoneInOrder ==
  ASSUME JobTypes
  PROVE  /\ DoneWeeks \in SUBSET (0 .. LastWeek)
         /\ DoneWeeks # {} => Last(DoneWeeks) \in Nat
         /\ Unraced => IF DoneWeeks = {} THEN Len(aggregates) = 0
                       ELSE Last(DoneWeeks) + 1 = Len(aggregates)
<1> USE WeeklyAggregateAssumption
<1>1. \A i \in DOMAIN aggregates : aggregates[i] \in Rows
  BY DEF JobTypes
<1>2. DoneWeeks \in SUBSET (0 .. LastWeek)
  <2>1. \A row \in Rows : row.data_for_week_starting \in Weeks
    BY AggregateWeek DEF Rows
  <2> QED
    BY <1>1, <2>1 DEF DoneWeeks, Weeks
<1>3. DoneWeeks # {} => Last(DoneWeeks) \in DoneWeeks /\ \A v \in DoneWeeks : v <= Last(DoneWeeks)
  BY <1>2, LastIsLast
<1>4. ASSUME Unraced
      PROVE  IF DoneWeeks = {} THEN Len(aggregates) = 0 ELSE Last(DoneWeeks) + 1 = Len(aggregates)
  <2>1. Len(aggregates) \in Nat /\ DOMAIN aggregates = 1 .. Len(aggregates)
    BY DEF JobTypes
  <2>2. \A i \in DOMAIN aggregates : aggregates[i].data_for_week_starting = i - 1
    BY <1>4 DEF Unraced, WholeRow
  <2>3. DoneWeeks = {i - 1 : i \in DOMAIN aggregates}
    BY <2>2 DEF DoneWeeks
  <2>4. CASE Len(aggregates) = 0
    BY <2>1, <2>3, <2>4
  <2>5. CASE Len(aggregates) # 0
    <3>1. Len(aggregates) - 1 \in DoneWeeks
      BY <2>1, <2>3, <2>5
    <3>2. \A v \in DoneWeeks : v <= Len(aggregates) - 1 /\ v \in Int
      BY <2>1, <2>3
    <3> QED
      BY <1>3, <2>1, <3>1, <3>2
  <2> QED
    BY <2>4, <2>5
<1>5. DoneWeeks # {} => Last(DoneWeeks) \in Nat
  <2>1. \A w \in DoneWeeks : w \in Nat
    BY <1>2
  <2> QED
    BY <1>3, <2>1
<1> QED
  BY <1>2, <1>4, <1>5

LEMMA FindWeekStep ==
  ASSUME WeeksInv, NEW j \in Jobs, FindWeek(j)
  PROVE  WeeksInv'
<1> DEFINE current == IF DoneWeeks = {} THEN 0 ELSE Last(DoneWeeks) + 1
<1>1. /\ job_stage[j] = "done" /\ UNCHANGED <<week, invokes, aggregates, running, job_raced>>
      /\ \/ JobEnd(j)
         \/ /\ DoneWeeks = {} \/ max_week[j] # current
            /\ current_week' = [current_week EXCEPT ![j] = current]
            /\ JobStep(j, "key")
            /\ UNCHANGED <<max_week, computed>>
  BY DEF FindWeek
<1>2. JobTypes /\ JobOK(j) /\ (~job_raced => Unraced)
  BY DEF WeeksInv
<1>3. current \in Nat /\ (Unraced => current = Len(aggregates)) /\ (DoneWeeks = {} => current = 0)
  BY <1>2, DoneInOrder
<1> HIDE DEF current
<1>4. CASE JobEnd(j)
  BY <1>1, <1>4, JobEndStep
<1>5. CASE /\ DoneWeeks = {} \/ max_week[j] # current
           /\ current_week' = [current_week EXCEPT ![j] = current]
           /\ JobStep(j, "key")
           /\ UNCHANGED <<max_week, computed>>
  <2>1. /\ job_stage'[j] = "key" /\ current_week'[j] = current /\ computed'[j] = <<>>
        /\ max_week'[j] = max_week[j] /\ OtherJobs(j)
    BY <1>1, <1>2, <1>5 DEF JobTypes, JobStep, OtherJobs, JobOK
  <2>2. JobTypes'
    <3>1. /\ job_stage' \in [Jobs -> {"idle", "done", "key", "set", "compute", "save"}]
          /\ current_week' \in [Jobs -> Nat \cup {NoWeek}]
      BY <1>2, <1>3, <1>5 DEF JobTypes, JobStep
    <3> QED
      BY <1>1, <1>2, <1>5, <3>1 DEF JobTypes
  <2>3. JobOK(j)' /\ ~Holds(j)'
    BY <1>1, <1>2, <1>3, <2>1 DEF JobOK, Holds, Active
  <2>4. Unraced => Turn(j)'
    <3>1. DOMAIN (computed'[j]) = {}
      BY <2>1
    <3> QED
      BY <1>1, <1>3, <1>5, <2>1, <3>1 DEF Turn
  <2> QED
    BY <1>1, <1>2, <2>1, <2>2, <2>3, <2>4, SilentStep
<1> QED
  BY <1>1, <1>4, <1>5

LEMMA AskKeyStep ==
  ASSUME WeeksInv, NEW j \in Jobs, AskKey(j)
  PROVE  WeeksInv'
<1>1. /\ job_stage[j] = "key" /\ UNCHANGED <<week, invokes, aggregates, running>>
      /\ \/ JobEnd(j) /\ UNCHANGED job_raced
         \/ /\ ~running /\ JobStep(j, "set")
            /\ job_raced' = (job_raced \/ \E k \in Jobs : job_stage[k] = "set")
            /\ UNCHANGED <<max_week, current_week, computed>>
  BY DEF AskKey
<1>2. JobTypes /\ JobOK(j) /\ (~job_raced => Unraced)
  BY DEF WeeksInv
<1>3. CASE JobEnd(j) /\ UNCHANGED job_raced
  BY <1>1, <1>3, JobEndStep
<1>4. CASE /\ ~running /\ JobStep(j, "set")
           /\ job_raced' = (job_raced \/ \E k \in Jobs : job_stage[k] = "set")
           /\ UNCHANGED <<max_week, current_week, computed>>
  <2>1. job_stage'[j] = "set" /\ computed'[j] = <<>> /\ OtherJobs(j)
    BY <1>1, <1>2, <1>4 DEF JobTypes, JobStep, OtherJobs, JobOK
  <2>2. JobTypes'
    <3>1. job_stage' \in [Jobs -> {"idle", "done", "key", "set", "compute", "save"}] /\ job_raced' \in BOOLEAN
      BY <1>2, <1>4 DEF JobTypes, JobStep
    <3> QED
      BY <1>1, <1>2, <1>4, <3>1 DEF JobTypes
  <2>3. JobOK(j)'
    BY <1>1, <1>2, <1>4, <2>1 DEF JobOK, Active
  <2>4. ASSUME ~job_raced'
        PROVE  ~job_raced /\ Turn(j)' /\ \A k \in Jobs \ {j} : ~Holds(k)
    <3>1. ~job_raced /\ Unraced /\ \A k \in Jobs : job_stage[k] # "set"
      BY <1>2, <1>4, <2>4
    <3>2. Turn(j) /\ \A k \in Jobs : Turn(k)
      BY <3>1 DEF Unraced
    <3>3. \A k \in Jobs \ {j} : ~Holds(k)
      BY <1>4, <3>1, <3>2 DEF Turn, Holds
    <3>4. DOMAIN (computed'[j]) = {}
      BY <2>1
    <3>5. Turn(j)'
      BY <1>1, <1>4, <2>1, <3>2, <3>4 DEF Turn
    <3> QED
      BY <3>1, <3>3, <3>5
  <2> QED
    BY <1>1, <2>1, <2>2, <2>3, <2>4, SilentStep
<1> QED
  BY <1>1, <1>3, <1>4

LEMMA SetKeyStep ==
  ASSUME WeeksInv, NEW j \in Jobs, SetKey(j)
  PROVE  WeeksInv'
<1>1. /\ job_stage[j] = "set" /\ running' = TRUE /\ JobStep(j, "compute")
      /\ UNCHANGED <<week, invokes, aggregates, max_week, current_week, computed, job_raced>>
  BY DEF SetKey
<1>2. JobTypes /\ JobOK(j) /\ (~job_raced => Unraced)
  BY DEF WeeksInv
<1>3. job_stage'[j] = "compute" /\ computed'[j] = <<>> /\ OtherJobs(j)
  BY <1>1, <1>2 DEF JobTypes, JobStep, OtherJobs, JobOK
<1>4. JobTypes'
  BY <1>1, <1>2 DEF JobTypes, JobStep
<1>5. JobOK(j)'
  BY <1>1, <1>2, <1>3 DEF JobOK, Active
<1>6. ASSUME ~job_raced'
      PROVE  /\ ~job_raced /\ Turn(j)' /\ \A k \in Jobs \ {j} : Turn(k)'
             /\ \A k \in Jobs \ {j} : ~Holds(k)
             /\ \A i \in DOMAIN aggregates' : WholeRow(aggregates[i], i - 1)'
  <2>1. ~job_raced /\ Unraced
    BY <1>1, <1>2, <1>6
  <2>2. \A k \in Jobs \ {j} : ~Holds(k)
    BY <1>1, <2>1 DEF Unraced, Holds
  <2>3. ASSUME NEW k \in Jobs \ {j}
        PROVE  Turn(k)'
    <3>1. job_stage'[k] \notin {"set", "compute", "save"} /\ computed'[k] = computed[k]
      BY <1>3, <2>2 DEF Holds, OtherJobs
    <3>2. JobOK(k) /\ computed[k] = <<>>
      BY <1>1, <1>3, <3>1 DEF WeeksInv, JobOK, OtherJobs
    <3>3. DOMAIN (computed'[k]) = {}
      BY <3>1, <3>2
    <3>4. job_stage'[k] = "key" => current_week'[k] # max_week'[k] \/ current_week'[k] = 0
      <4>1. Turn(k)
        BY <2>1 DEF Unraced
      <4> QED
        BY <1>3, <4>1 DEF Turn, OtherJobs
    <3> QED
      BY <1>1, <3>1, <3>3, <3>4 DEF Turn
  <2>4. Turn(j)'
    <3>1. Turn(j)
      BY <2>1 DEF Unraced
    <3>2. current_week[j] = Len(aggregates) /\ Len(aggregates) \in Nat /\ Len(computed'[j]) = 0
      BY <1>1, <1>2, <1>3, <3>1 DEF Turn, JobTypes
    <3>3. DOMAIN (computed'[j]) = {}
      BY <1>3
    <3> QED
      BY <1>1, <1>3, <3>1, <3>2, <3>3 DEF Turn
  <2>5. \A i \in DOMAIN aggregates' : WholeRow(aggregates[i], i - 1)'
    BY <1>1, <2>1 DEF Unraced, WholeRow
  <2> QED
    BY <2>1, <2>2, <2>3, <2>4, <2>5
<1> QED
  BY <1>1, <1>3, <1>4, <1>5, <1>6, RunStep

LEMMA ComputeStep ==
  ASSUME WeeksInv, NEW j \in Jobs, ComputeWeek(j)
  PROVE  WeeksInv'
<1> DEFINE w == current_week[j]
           row == Aggregate(w, invokes[w])
<1>1. /\ job_stage[j] = "compute" /\ w <= max_week[j]
      /\ computed' = [computed EXCEPT ![j] = Append(@, row)]
      /\ current_week' = [current_week EXCEPT ![j] = w + 1]
      /\ JobStep(j, IF w + 1 >= max_week[j] THEN "save" ELSE "compute")
      /\ UNCHANGED <<week, invokes, aggregates, running, max_week, job_raced>>
  BY DEF ComputeWeek
<1>2. JobTypes /\ JobOK(j) /\ (~job_raced => Unraced)
  BY DEF WeeksInv
<1>3. /\ w \in Nat /\ max_week[j] \in Weeks /\ max_week[j] <= week /\ week \in Weeks /\ w \in Weeks
      /\ w < max_week[j] => w < week
  BY <1>1, <1>2, WeeklyAggregateAssumption DEF JobOK, Active, Weeks, JobTypes
<1>4. row \in Rows /\ (w = 0 \/ w < week => WholeRow(row, w))
  <2>1. invokes[w] \in SUBSET Uses
    BY <1>2, <1>3 DEF JobTypes
  <2> QED
    BY <1>3, <2>1, AggregateWeek DEF Rows, WholeRow
<1>5. PICK rows \in Seq(Rows) : rows = computed[j]
  BY <1>2 DEF JobTypes
<1>6. PICK cw \in Nat : cw = w
  BY <1>3
<1> HIDE DEF row, w
<1>7. PICK r \in Rows : r = row
  BY <1>4
<1>8. /\ Append(rows, r) \in Seq(Rows) /\ Len(Append(rows, r)) = Len(rows) + 1
      /\ \A n \in 1 .. Len(rows) : Append(rows, r)[n] = rows[n]
      /\ Append(rows, r)[Len(rows) + 1] = r
      /\ Len(rows) \in Nat /\ DOMAIN Append(rows, r) = 1 .. Len(rows) + 1
      /\ DOMAIN rows = 1 .. Len(rows)
      /\ Append(rows, r) # <<>>
  BY AppendProperties
<1>9. /\ job_stage'[j] = IF cw + 1 >= max_week[j] THEN "save" ELSE "compute"
      /\ computed'[j] = Append(rows, r) /\ current_week'[j] = cw + 1 /\ max_week'[j] = max_week[j]
      /\ OtherJobs(j)
  BY <1>1, <1>2, <1>5, <1>6, <1>7 DEF JobTypes, JobStep, OtherJobs
<1>10. JobTypes'
  <2>1. job_stage' \in [Jobs -> {"idle", "done", "key", "set", "compute", "save"}]
    BY <1>1, <1>2 DEF JobTypes, JobStep
  <2>2. computed' \in [Jobs -> Seq(Rows)]
    BY <1>1, <1>2, <1>5, <1>7, <1>8 DEF JobTypes
  <2>3. current_week' \in [Jobs -> Nat \cup {NoWeek}]
    BY <1>1, <1>2, <1>3 DEF JobTypes
  <2> QED
    BY <1>1, <1>2, <2>1, <2>2, <2>3 DEF JobTypes
<1>11. JobOK(j)'
  BY <1>1, <1>3, <1>8, <1>9 DEF JobOK, Active
<1>12. ASSUME ~job_raced'
       PROVE  ~job_raced /\ Turn(j)' /\ \A k \in Jobs \ {j} : ~Holds(k)
  <2>1. ~job_raced /\ Unraced
    BY <1>1, <1>2, <1>12
  <2>2. \A k \in Jobs \ {j} : ~Holds(k)
    BY <1>1, <2>1 DEF Unraced, Holds
  <2>3. Turn(j) /\ Len(aggregates) \in Nat
    BY <1>2, <2>1 DEF Unraced, JobTypes
  <2>4. /\ running /\ cw = Len(aggregates) + Len(rows) /\ (cw # max_week[j] \/ cw = 0)
        /\ \A n \in 1 .. Len(rows) : WholeRow(rows[n], Len(aggregates) + n - 1)
    BY <1>1, <1>5, <1>6, <1>8, <2>3 DEF Turn, w
  <2>5. WholeRow(r, cw)
    <3>1. cw = 0 \/ cw < max_week[j]
      BY <1>1, <1>3, <1>6, <2>4 DEF Weeks
    <3> QED
      BY <1>3, <1>4, <1>6, <1>7, <3>1
  <2>6. \A x, v : WholeRow(x, v) => WholeRow(x, v)'
    BY <1>1 DEF WholeRow
  <2>7. \A n \in 1 .. Len(rows) + 1 : WholeRow(Append(rows, r)[n], Len(aggregates) + n - 1)
    <3> TAKE n \in 1 .. Len(rows) + 1
    <3>1. CASE n = Len(rows) + 1
      <4>1. Len(aggregates) + n - 1 = cw
        BY <1>8, <2>3, <2>4, <3>1
      <4> QED
        BY <1>8, <2>5, <3>1, <4>1
    <3>2. CASE n # Len(rows) + 1
      BY <1>8, <2>4, <3>2
    <3> QED
      BY <3>1, <3>2
  <2>8. (\A n \in DOMAIN computed[j] : WholeRow(computed[j][n], Len(aggregates) + n - 1))'
    <3>1. /\ aggregates' = aggregates /\ computed'[j] = Append(rows, r)
          /\ DOMAIN Append(rows, r) = 1 .. Len(rows) + 1
      BY <1>1, <1>8, <1>9
    <3>2. \A n \in 1 .. Len(rows) + 1 :
            WholeRow(Append(rows, r)[n], Len(aggregates) + n - 1)'
      BY <1>1, <2>7 DEF WholeRow
    <3> QED
      BY <3>1, <3>2
  <2>9. job_stage'[j] = "compute" =>
           /\ current_week'[j] # max_week'[j]
           /\ current_week'[j] = Len(aggregates') + Len(computed'[j])
    <3>1. /\ current_week'[j] = cw + 1 /\ max_week'[j] = max_week[j]
          /\ Len(aggregates') = Len(aggregates) /\ Len(computed'[j]) = Len(rows) + 1
      BY <1>1, <1>8, <1>9
    <3>2. max_week[j] \in Nat /\ (job_stage'[j] = "compute" => cw + 1 < max_week[j])
      BY <1>3, <1>9 DEF Weeks
    <3> QED
      BY <1>8, <2>3, <2>4, <3>1, <3>2
  <2>10. running' /\ job_stage'[j] \in {"compute", "save"}
    BY <1>1, <1>9, <2>4
  <2>11. Turn(j)'
    BY <2>8, <2>9, <2>10 DEF Turn
  <2> QED
    BY <2>1, <2>2, <2>11
<1> QED
  BY <1>1, <1>9, <1>10, <1>11, <1>12, SilentStep

LEMMA SaveAggregateStep ==
  ASSUME WeeksInv, NEW j \in Jobs, SaveAggregate(j)
  PROVE  WeeksInv'
<1>1. /\ job_stage[j] = "save"
      /\ aggregates' = Append(aggregates, Head(computed[j]))
      /\ \/ JobEnd(j)
         \/ /\ computed' = [computed EXCEPT ![j] = Tail(@)] /\ Len(computed[j]) # 1
            /\ UNCHANGED <<job_stage, max_week, current_week>>
      /\ UNCHANGED <<week, invokes, running, job_raced>>
  BY DEF SaveAggregate
<1>2. JobTypes /\ JobOK(j) /\ (~job_raced => Unraced)
  BY DEF WeeksInv
<1>3. PICK rows \in Seq(Rows) : rows = computed[j]
  BY <1>2 DEF JobTypes
<1>4. rows # <<>>
  BY <1>1, <1>2, <1>3 DEF JobOK
<1>14. PICK rest : rest = Tail(rows)
  OBVIOUS
<1>15. PICK len : len = Len(rows)
  OBVIOUS
<1>5. /\ rows[1] \in Rows /\ Head(rows) = rows[1] /\ rest \in Seq(Rows)
      /\ len \in Nat /\ len > 0 /\ DOMAIN rows = 1 .. len
      /\ Len(rest) = len - 1 /\ DOMAIN rest = 1 .. len - 1
      /\ \A n \in 1 .. len - 1 : rest[n] = rows[n + 1]
  <2>1. /\ Head(rows) \in Rows /\ Head(rows) = rows[1] /\ Tail(rows) \in Seq(Rows)
        /\ Len(rows) \in Nat /\ Len(rows) > 0 /\ DOMAIN rows = 1 .. Len(rows)
        /\ Len(Tail(rows)) = Len(rows) - 1 /\ DOMAIN Tail(rows) = 1 .. Len(rows) - 1
        /\ \A n \in 1 .. Len(rows) - 1 : Tail(rows)[n] = rows[n + 1]
    BY <1>4, HeadTailProperties, EmptySeq
  <2> QED
    BY <1>14, <1>15, <2>1
<1>6. PICK old \in Seq(Rows) : old = aggregates
  BY <1>2 DEF JobTypes
<1>7. PICK new : new = Append(old, rows[1])
  OBVIOUS
<1>16. PICK size : size = Len(old)
  OBVIOUS
<1>8. /\ new = aggregates' /\ new \in Seq(Rows) /\ size \in Nat /\ Len(new) = size + 1
      /\ DOMAIN new = 1 .. size + 1 /\ DOMAIN old = 1 .. size
      /\ \A n \in 1 .. size : new[n] = old[n]
      /\ new[size + 1] = rows[1]
  <2>1. new = aggregates'
    BY <1>1, <1>3, <1>5, <1>6, <1>7
  <2>2. PICK first \in Rows : first = rows[1]
    BY <1>5
  <2>3. /\ Append(old, first) \in Seq(Rows) /\ Len(old) \in Nat
        /\ Len(Append(old, first)) = Len(old) + 1
        /\ \A n \in 1 .. Len(old) : Append(old, first)[n] = old[n]
        /\ Append(old, first)[Len(old) + 1] = first
        /\ DOMAIN Append(old, first) = 1 .. Len(old) + 1 /\ DOMAIN old = 1 .. Len(old)
    BY AppendProperties
  <2>4. new = Append(old, first)
    BY <1>7, <2>2
  <2> QED
    BY <1>16, <2>1, <2>2, <2>3, <2>4
<1>9. \A x, v : WholeRow(x, v) => WholeRow(x, v)'
  BY <1>1 DEF WholeRow
<1>10. ASSUME ~job_raced'
       PROVE  /\ ~job_raced /\ Turn(j) /\ \A k \in Jobs \ {j} : ~Holds(k)
              /\ running'
              /\ (\A i \in DOMAIN aggregates : WholeRow(aggregates[i], i - 1))'
              /\ \A n \in 1 .. len : WholeRow(rows[n], size + n - 1)'
  <2>1. ~job_raced /\ Unraced
    BY <1>1, <1>2, <1>10
  <2>2. Turn(j) /\ \A k \in Jobs \ {j} : ~Holds(k)
    BY <1>1, <2>1 DEF Unraced, Holds
  <2>3. running'
    BY <1>1, <2>2 DEF Turn
  <2>4. \A n \in 1 .. len : WholeRow(rows[n], size + n - 1)
    BY <1>3, <1>5, <1>6, <1>16, <2>2 DEF Turn
  <2>5. WholeRow(rows[1], size)
    <3>1. size + 1 - 1 = size /\ 1 \in 1 .. len
      BY <1>5, <1>8
    <3> QED
      BY <2>4, <3>1
  <2>6. \A i \in 1 .. size : WholeRow(old[i], i - 1)
    BY <1>6, <1>8, <2>1 DEF Unraced
  <2>7. \A i \in DOMAIN new : WholeRow(new[i], i - 1)
    <3> TAKE i \in DOMAIN new
    <3>1. CASE i = size + 1
      <4>1. i - 1 = size
        BY <1>8, <3>1
      <4> QED
        BY <1>8, <2>5, <3>1, <4>1
    <3>2. CASE i # size + 1
      BY <1>8, <2>6, <3>2
    <3> QED
      BY <3>1, <3>2
  <2>8. (\A i \in DOMAIN aggregates : WholeRow(aggregates[i], i - 1))'
    BY <1>8, <1>9, <2>7
  <2>9. \A n \in 1 .. len : WholeRow(rows[n], size + n - 1)'
    BY <1>9, <2>4
  <2> QED
    BY <2>1, <2>2, <2>3, <2>8, <2>9
<1>11. ASSUME OtherJobs(j), ~job_raced', NEW k \in Jobs \ {j}
       PROVE  Turn(k)'
  <2>1. ~Holds(k) /\ JobOK(k) /\ Turn(k)
    BY <1>2, <1>10, <1>11 DEF WeeksInv, Unraced
  <2>2. computed'[k] = <<>> /\ job_stage'[k] = job_stage[k] /\ ~Holds(k)'
    BY <1>11, <2>1 DEF JobOK, Holds, OtherJobs
  <2>3. DOMAIN (computed'[k]) = {}
    BY <2>2
  <2>4. job_stage'[k] = "key" => current_week'[k] # max_week'[k] \/ current_week'[k] = 0
    BY <1>11, <2>1, <2>2 DEF Turn, OtherJobs
  <2> QED
    BY <1>10, <1>11, <2>2, <2>3, <2>4 DEF Turn, Holds
<1>12. CASE JobEnd(j)
  <2>1. OtherJobs(j) /\ JobOK(j)' /\ Turn(j)' /\ ~Holds(j)'
    BY <1>2, <1>12, JobEndPoint
  <2>2. JobTypes'
    BY <1>1, <1>2, <1>8, <1>12, JobEndPoint DEF JobTypes
  <2> QED
    BY <1>1, <1>10, <1>11, <2>1, <2>2, RunStep
<1>13. CASE /\ computed' = [computed EXCEPT ![j] = Tail(@)] /\ Len(computed[j]) # 1
            /\ UNCHANGED <<job_stage, max_week, current_week>>
  <2>1. computed' = [computed EXCEPT ![j] = rest] /\ len # 1
    BY <1>3, <1>13, <1>14, <1>15
  <2>2. OtherJobs(j) /\ computed'[j] = rest /\ job_stage'[j] = "save"
    BY <1>1, <1>2, <1>13, <2>1 DEF OtherJobs, JobTypes
  <2>3. JobTypes'
    <3>1. computed' \in [Jobs -> Seq(Rows)]
      BY <1>2, <1>5, <2>1 DEF JobTypes
    <3> QED
      BY <1>1, <1>2, <1>8, <1>13, <3>1 DEF JobTypes
  <2>4. rest # <<>>
    <3>1. Len(rest) # 0
      BY <1>5, <2>1
    <3> QED
      BY <3>1, EmptySeq
  <2>5. JobOK(j)'
    BY <1>1, <1>2, <1>13, <2>2, <2>4 DEF JobOK, Active
  <2>6. ASSUME ~job_raced'
        PROVE  Turn(j)'
    <3>1. ASSUME NEW n \in 1 .. len - 1
          PROVE  WholeRow(rest[n], Len(new) + n - 1)'
      <4>1. Len(new) + n - 1 = size + (n + 1) - 1 /\ n + 1 \in 1 .. len
        BY <1>5, <1>8
      <4>2. WholeRow(rows[n + 1], size + (n + 1) - 1)'
        BY <1>10, <2>6, <4>1
      <4>3. rest[n] = rows[n + 1]
        BY <1>5
      <4> QED
        BY <4>1, <4>2, <4>3
    <3>2. (\A n \in DOMAIN computed[j] : WholeRow(computed[j][n], Len(aggregates) + n - 1))'
      BY <1>5, <1>8, <2>2, <3>1
    <3> QED
      BY <1>10, <2>2, <2>6, <3>2 DEF Turn
  <2> QED
    BY <1>1, <1>10, <1>11, <2>2, <2>3, <2>5, <2>6, RunStep
<1> QED
  BY <1>1, <1>12, <1>13

(* A use, another week, or nothing: what was done of past weeks holds. *)
LEMMA TimePasses ==
  ASSUME WeeksInv, PastStays, JobTypes', UNCHANGED <<aggregates, running, jobVars, job_raced>>,
         \A w \in Weeks : invokes'[w] # {} => w <= week'
  PROVE  WeeksInv'
<1>1. JobTypes /\ week <= week' /\ week \in Nat /\ week' \in Nat
  BY WeeklyAggregateAssumption DEF WeeksInv, JobTypes, PastStays, Weeks
<1>2. \A j \in Jobs : JobOK(j)'
  <2> TAKE j \in Jobs
  <2>1. JobOK(j)
    BY DEF WeeksInv
  <2>2. job_stage[j] # "idle" => max_week[j] <= week'
    BY <1>1, <2>1 DEF JobOK, Weeks
  <2> QED
    BY <2>1, <2>2 DEF JobOK, Active, jobVars
<1>3. \A row : \A w \in Nat : WholeRow(row, w) => WholeRow(row, w)'
  BY <1>1, WholeStays
<1>4. ASSUME ~job_raced'
      PROVE  Unraced'
  <2>1. Unraced
    BY <1>4 DEF WeeksInv
  <2>2. \A i \in DOMAIN aggregates : WholeRow(aggregates[i], i - 1)'
    <3> TAKE i \in DOMAIN aggregates
    <3>1. i - 1 \in Nat /\ WholeRow(aggregates[i], i - 1)
      BY <1>1, <2>1 DEF Unraced, JobTypes
    <3>2. PICK v \in Nat : v = i - 1
      BY <3>1
    <3> QED
      BY <1>3, <3>1, <3>2
  <2>3. (\A i \in DOMAIN aggregates : WholeRow(aggregates[i], i - 1))'
    BY <2>2
  <2>4. ASSUME NEW j \in Jobs
        PROVE  Turn(j)'
    <3>1. Turn(j)
      BY <2>1 DEF Unraced
    <3>2. \A n \in DOMAIN computed[j] : WholeRow(computed[j][n], Len(aggregates) + n - 1)'
      <4> TAKE n \in DOMAIN computed[j]
      <4>1. Len(aggregates) \in Nat /\ n \in Nat \ {0}
        BY <1>1 DEF JobTypes
      <4>2. Len(aggregates) + n - 1 \in Nat /\ WholeRow(computed[j][n], Len(aggregates) + n - 1)
        BY <3>1, <4>1 DEF Turn
      <4>3. PICK v \in Nat : v = Len(aggregates) + n - 1
        BY <4>2
      <4>5. PICK row : row = computed[j][n]
        OBVIOUS
      <4>4. WholeRow(row, v)'
        BY <1>3, <4>2, <4>3, <4>5
      <4> QED
        BY <4>3, <4>4, <4>5 DEF jobVars
    <3>3. (\A n \in DOMAIN computed[j] : WholeRow(computed[j][n], Len(aggregates) + n - 1))'
      BY <3>2 DEF jobVars
    <3> QED
      BY <3>1, <3>3 DEF Turn, jobVars
  <2>5. (\A j, k \in Jobs : Holds(j) /\ Holds(k) => j = k)'
    BY <2>1 DEF Unraced, Holds, jobVars
  <2> QED
    BY <2>3, <2>4, <2>5 DEF Unraced
<1> QED
  BY <1>2, <1>4 DEF WeeksInv

LEMMA ExpireStep ==
  ASSUME WeeksInv, ExpireKey
  PROVE  WeeksInv'
<1>1. /\ running' = FALSE /\ job_raced' = (job_raced \/ \E j \in Jobs : Active(j))
      /\ UNCHANGED <<week, invokes, aggregates, jobVars>>
  BY DEF ExpireKey
<1>2. JobTypes /\ (\A j \in Jobs : JobOK(j)) /\ (~job_raced => Unraced)
  BY DEF WeeksInv
<1>3. JobTypes'
  BY <1>1, <1>2 DEF JobTypes, jobVars
<1>4. (\A j \in Jobs : JobOK(j)') /\ \A w \in Weeks : invokes'[w] # {} => w <= week'
  BY <1>1, <1>2 DEF WeeksInv, JobOK, Active, jobVars
<1>5. ASSUME ~job_raced'
      PROVE  Unraced'
  <2>1. Unraced /\ \A j \in Jobs : ~Active(j)
    BY <1>1, <1>2, <1>5
  <2>2. ASSUME NEW j \in Jobs
        PROVE  Turn(j)' /\ ~Holds(j)'
    <3>1. job_stage'[j] \in {"idle", "done"} /\ computed'[j] = <<>>
      BY <1>1, <1>2, <2>1 DEF Active, JobOK, jobVars
    <3>2. DOMAIN (computed'[j]) = {}
      BY <3>1
    <3> QED
      BY <3>1, <3>2 DEF Turn, Holds
  <2>3. (\A i \in DOMAIN aggregates : WholeRow(aggregates[i], i - 1))'
    BY <1>1, <2>1 DEF Unraced, WholeRow
  <2> QED
    BY <2>2, <2>3 DEF Unraced
<1> QED
  BY <1>3, <1>4, <1>5 DEF WeeksInv

(* And the invariant of every behaviour. *)
LEMMA WeeksInvariant == AggregateSpec => []WeeksInv
<1>1. WeeksInv /\ [AggregateNext]_aggregateVars => WeeksInv'
  <2> SUFFICES ASSUME WeeksInv, [AggregateNext]_aggregateVars
               PROVE  WeeksInv'
    OBVIOUS
  <2> USE WeeklyAggregateAssumption DEF Weeks
  <2>0. JobTypes /\ week \in Nat
    BY DEF WeeksInv, JobTypes
  <2>1. CASE NextWeek
    <3>1. week' = week + 1 /\ week + 1 \in Weeks
      BY <2>0, <2>1 DEF NextWeek
    <3>2. JobTypes' /\ PastStays /\ \A w \in Weeks : invokes'[w] # {} => w <= week'
      BY <2>0, <2>1, <3>1 DEF NextWeek, JobTypes, PastStays, jobVars, WeeksInv
    <3> QED
      BY <2>1, <3>2, TimePasses DEF NextWeek
  <2>2. ASSUME NEW i \in Uses, UseCommand(i)
        PROVE  WeeksInv'
    <3>1. invokes' = [invokes EXCEPT ![week] = @ \cup {i}]
      BY <2>2 DEF UseCommand
    <3>2. JobTypes' /\ PastStays /\ \A w \in Weeks : invokes'[w] # {} => w <= week'
      BY <2>0, <2>2, <3>1 DEF UseCommand, JobTypes, PastStays, jobVars, WeeksInv
    <3> QED
      BY <2>2, <3>2, TimePasses DEF UseCommand
  <2>3. CASE ExpireKey
    BY <2>3, ExpireStep
  <2>4. ASSUME NEW j \in Jobs,
               \/ StartJob(j) \/ FindWeek(j) \/ AskKey(j) \/ SetKey(j)
               \/ ComputeWeek(j) \/ SaveAggregate(j)
        PROVE  WeeksInv'
    BY <2>4, StartStep, FindWeekStep, AskKeyStep, SetKeyStep, ComputeStep, SaveAggregateStep
  <2>5. ASSUME NEW j \in Jobs, ComputeNothing(j) \/ StopJob(j)
        PROVE  WeeksInv'
    BY <2>5, JobEndStep DEF ComputeNothing, StopJob
  <2>6. CASE UNCHANGED aggregateVars
    <3>1. JobTypes' /\ PastStays /\ \A w \in Weeks : invokes'[w] # {} => w <= week'
      BY <2>0, <2>6 DEF aggregateVars, JobTypes, PastStays, jobVars, WeeksInv
    <3> QED
      BY <2>6, <3>1, TimePasses DEF aggregateVars
  <2> QED
    BY <2>1, <2>2, <2>3, <2>4, <2>5, <2>6 DEF AggregateNext
<1> QED
  BY <1>1, AggregateInitially, PTL DEF AggregateSpec

(* While the key is not lost under a running job, each past week is in the *)
(* table once, in order and with all its uses, however many jobs were      *)
(* started.                                                                *)
THEOREM WeeksAreAggregatedWhole == AggregateSpec => []WeeksAreWhole
<1>1. WeeksInv => WeeksAreWhole
  <2> SUFFICES ASSUME WeeksInv, ~job_raced
               PROVE  /\ \A i \in DOMAIN aggregates : aggregates[i].data_for_week_starting = i - 1
                      /\ \A i \in DOMAIN aggregates \ {1} :
                           aggregates[i] = Aggregate(i - 1, invokes[i - 1])
    BY DEF WeeksAreWhole
  <2>1. \A i \in DOMAIN aggregates : WholeRow(aggregates[i], i - 1)
    BY DEF WeeksInv, Unraced
  <2>2. \A i \in DOMAIN aggregates \ {1} : i - 1 # 0
    BY DEF WeeksInv, JobTypes
  <2> QED
    BY <2>1, <2>2 DEF WholeRow
<1> QED
  BY <1>1, WeeksInvariant, PTL

(* The counts in a row are numbers. *)
LEMMA AggregateIsRow ==
  ASSUME NEW w \in Weeks, NEW uses \in SUBSET Uses
  PROVE  Aggregate(w, uses) \in AggregateRow
<1> DEFINE voting == UsersOf({i \in uses : i.vote})
           others == UsersOf({i \in uses : ~i.vote})
<1>1. ASSUME NEW S \in SUBSET Uses
      PROVE  Cardinality(S) \in Nat /\ IsFiniteSet(UsersOf(S))
  <2>1. IsFiniteSet(S)
    BY WeeklyAggregateAssumption, FS_Subset
  <2> DEFINE f == [i \in S |-> i.user]
  <2>2. f \in Surjection(S, UsersOf(S))
    BY DEF UsersOf, Surjection
  <2> QED
    BY <2>1, <2>2, FS_CardinalityType, FS_Surjection
<1>2. ASSUME NEW S \in SUBSET Uses, NEW T \in SUBSET UsersOf(S)
      PROVE  Cardinality(T) \in Nat
  BY <1>1, FS_Subset, FS_CardinalityType
<1>3. /\ Cardinality(uses) \in Nat
      /\ Cardinality(UsersOf({i \in uses : i.guild_locale})) \in Nat
      /\ Cardinality(voting) \in Nat
      /\ Cardinality(voting \ others) \in Nat
  <2>1. \A S \in SUBSET Uses : UsersOf(S) \in SUBSET UsersOf(S)
    OBVIOUS
  <2> QED
    BY <1>1, <1>2, <2>1
<1> QED
  BY <1>3 DEF Aggregate, AggregateRow

(* The variables have their types. *)
THEOREM AggregateTypeCorrect == AggregateSpec => []AggregateTypeOK
<1>1. Rows \subseteq AggregateRow
  BY AggregateIsRow DEF Rows
<1>2. Seq(Rows) \subseteq Seq(AggregateRow)
  BY <1>1
<1>3. WeeksInv => AggregateTypeOK
  BY <1>2 DEF WeeksInv, JobTypes, AggregateTypeOK
<1> QED
  BY <1>3, WeeksInvariant, PTL
-----------------------------------------------------------------------------
(* The parts side by side.  Whatever part runs, a step is a step of that    *)
(* part and a stutter of every other one.                                   *)
LEMMA WebStepOfParts ==
  ASSUME [WebNext]_webVars
  PROVE  /\ [Next]_vars /\ [GiftNext]_giftVars /\ [PremiumNext]_premiumVars
         /\ [ApiNext]_apiVars /\ [OAuthNext]_oauthVars /\ [AggregateNext]_aggregateVars
         /\ part' = part
<1> USE DEF In
<1>1. CASE /\ In("tokens", <<giftVars, premiumVars, apiVars, oauthVars, aggregateVars>>)
           /\ Next
  BY <1>1
<1>2. CASE /\ In("gifts", <<vars, premiumVars, apiVars, oauthVars, aggregateVars>>)
           /\ GiftNext
  BY <1>2
<1>3. CASE /\ In("premium", <<vars, giftVars, apiVars, oauthVars, aggregateVars>>)
           /\ PremiumNext
  BY <1>3
<1>4. CASE /\ In("api", <<vars, giftVars, premiumVars, oauthVars, aggregateVars>>)
           /\ ApiNext
  BY <1>4
<1>5. CASE /\ In("oauth", <<vars, giftVars, premiumVars, apiVars, aggregateVars>>)
           /\ OAuthNext
  BY <1>5
<1>6. CASE /\ In("weeks", <<vars, giftVars, premiumVars, apiVars, oauthVars>>)
           /\ AggregateNext
  BY <1>6
<1>7. CASE UNCHANGED webVars
  BY <1>7 DEF webVars
<1> QED
  BY <1>1, <1>2, <1>3, <1>4, <1>5, <1>6, <1>7 DEF WebNext

(* So the parts side by side are each of the parts on its own: what is     *)
(* proved of the parts holds of what the model checker runs.               *)
THEOREM WebIsItsParts ==
  WebSpec => /\ Spec /\ GiftSpec /\ PremiumSpec /\ ApiSpec /\ OAuthSpec
             /\ AggregateSpec /\ [](part \in Parts)
<1>1. WebInit => /\ Init /\ GiftInit /\ PremiumInit /\ ApiInit /\ OAuthInit
                 /\ AggregateInit /\ part \in Parts
  BY DEF WebInit
<1>2. [WebNext]_webVars /\ part \in Parts => (part \in Parts)'
  BY WebStepOfParts
<1>3. [WebNext]_webVars =>
        /\ [Next]_vars /\ [GiftNext]_giftVars /\ [PremiumNext]_premiumVars
        /\ [ApiNext]_apiVars /\ [OAuthNext]_oauthVars /\ [AggregateNext]_aggregateVars
  BY WebStepOfParts
<1> QED
  BY <1>1, <1>2, <1>3, PTL
     DEF WebSpec, Spec, GiftSpec, PremiumSpec, ApiSpec, OAuthSpec, AggregateSpec

(* The type of every variable of every part.                               *)
THEOREM WebTypeCorrect == WebSpec => []WebTypeOK
  BY WebIsItsParts, TypeCorrect, GiftTypeCorrect, PremiumTypeCorrect, ApiTypeCorrect,
     OAuthTypeCorrect, AggregateTypeCorrect, PTL DEF WebTypeOK

(* All that the parts promise holds of the whole: a subscription buys the  *)
(* tokens that were paid for and a renewal reaches all of them, a token    *)
(* that was revoked stays so and no guild has two, a gift is given once,   *)
(* the cooldown is exact, a login whose requests did not overlap has one   *)
(* token, a person who comes back is known and the weeks are whole.        *)
THEOREM WebKeepsItsPromises ==
  WebSpec => /\ QuantityIsKept /\ RenewalReachesAll /\ RevokedStaysRevoked
             /\ NoSecondPremium
             /\ []GiftIsGivenOnce /\ []CooldownIsExact /\ []LoginHasOneToken
             /\ []ReturningUserIsKnown /\ []WeeksAreWhole
  BY WebIsItsParts, QuantityKept, RenewalReached, RevokedForEver, OnePremium,
     GiftsAreGivenOnce, CooldownsAreExact, LoginsAreSound, ReturnsAreKnown,
     WeeksAreAggregatedWhole, PTL
=============================================================================
