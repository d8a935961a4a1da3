------------------------------ MODULE ApiTokens ------------------------------
(***************************************************************************)
(* Tokens of the API (APIToken, APIAuthTokenController).  A session gets a *)
(* first token; a client refreshes it before it expires, which makes it    *)
(* last longer or, near the end of its longest life, replaces it by a new  *)
(* one; and a client may invalidate it.  A refresh is four statements with *)
(* nothing around them: is the token valid, read it, delete it, insert the *)
(* new one.                                                                *)
(***************************************************************************)
EXTENDS Integers, FiniteSets

CONSTANTS
  ApiCalls,     (* requests that may be under way at once                  *)
  MaxKeys,      (* bound: tokens that secrets.token_hex draws, each once   *)
  Clients,      (* users with a session                                    *)
  Window,       (* token_expiry, and what a refresh adds                   *)
  MaxWindow,    (* max_token_expiry                                        *)
  LastHour,     (* bound: time stops there                                 *)
  NoKey         (* no row, no token                                        *)

(* Tokens have numbers, in the order in which they are drawn. *)
Keys == 1 .. MaxKeys

ASSUME ApiTokensAssumption ==
  /\ Window \in Nat \ {0} /\ MaxWindow \in Nat /\ Window <= MaxWindow
  /\ LastHour \in Nat /\ MaxKeys \in Nat
  /\ NoKey \notin Keys /\ NoKey \notin Clients

Token == [user : Clients, expiry_date : Nat, max_expiry_date : Nat]
ASSUME NoTokenAssumption == NoKey \notin Token

VARIABLES
  hour,        (* utc_now()                                                  *)
  api_token,   (* the table: the row of each token, or NoKey                 *)
  api_stage,   (* how far each request has come                              *)
  api_key,     (* its X-API-KEY                                              *)
  api_copy,    (* the row it works on                                        *)
  root,        (* history: the first token of the login a token goes back to *)
  told,        (* history: the expiry a client was told of its token, 0      *)
               (* once it has another                                        *)
  crossed,     (* history: logins of which two requests were under way       *)
  broken,      (* history: logins of which a request failed                  *)
  closed       (* history: logins whose token was invalidated                *)

apiHistory == <<root, told, crossed, broken, closed>>
apiVars == <<hour, api_token, api_stage, api_key, api_copy, apiHistory>>

ApiTypeOK ==
  /\ hour \in Nat
  /\ api_token \in [Keys -> Token \cup {NoKey}]
  /\ api_stage \in [ApiCalls -> {"idle", "read", "save", "replace", "create", "invalidate"}]
  /\ api_key \in [ApiCalls -> Keys \cup {NoKey}]
  /\ api_copy \in [ApiCalls -> Token \cup {NoKey}]
  /\ root \in [Keys -> Keys \cup {NoKey}]
  /\ told \in [Keys -> Nat]
  /\ crossed \subseteq Keys /\ broken \subseteq Keys /\ closed \subseteq Keys

ApiInit ==
  /\ hour = 0
  /\ api_token = [k \in Keys |-> NoKey]
  /\ api_stage = [c \in ApiCalls |-> "idle"]
  /\ api_key = [c \in ApiCalls |-> NoKey]
  /\ api_copy = [c \in ApiCalls |-> NoKey]
  /\ root = [k \in Keys |-> NoKey]
  /\ told = [k \in Keys |-> 0]
  /\ crossed = {} /\ broken = {} /\ closed = {}

ApiStep(c, s) == api_stage' = [api_stage EXCEPT ![c] = s]
ApiDone(c) ==
  /\ ApiStep(c, "idle")
  /\ api_key' = [api_key EXCEPT ![c] = NoKey]
  /\ api_copy' = [api_copy EXCEPT ![c] = NoKey]

(* validate_token_is_valid *)
Usable(k) == api_token[k] # NoKey /\ hour < api_token[k].expiry_date

Login(c) == root[api_key[c]]
OtherCalls(c, l) == {d \in ApiCalls \ {c} : api_key[d] # NoKey /\ root[api_key[d]] = l}

NextHour ==
  /\ hour < LastHour
  /\ hour' = hour + 1
  /\ UNCHANGED <<api_token, api_stage, api_key, api_copy, apiHistory>>

(* create_api_token: draws until the table does not have the token, which  *)
(* is never needed twice, and inserts the row.                             *)
InsertToken(k, u) ==
  /\ root[k] = NoKey /\ \A j \in 1 .. k - 1 : root[j] # NoKey
  /\ api_token' = [api_token EXCEPT ![k] =
       [user |-> u, expiry_date |-> hour + Window, max_expiry_date |-> hour + MaxWindow]]

(* post_token_new *)
NewToken(k, u) ==
  /\ InsertToken(k, u)
  /\ told' = [told EXCEPT ![k] = hour + Window]
  /\ root' = [root EXCEPT ![k] = k]
  /\ UNCHANGED <<hour, api_stage, api_key, api_copy, crossed, broken, closed>>

(* ensure_api_token lets the request pass. *)
Admit(c, k, s) ==
  /\ api_stage[c] = "idle" /\ Usable(k)
  /\ ApiStep(c, s)
  /\ api_key' = [api_key EXCEPT ![c] = k]
  /\ crossed' = IF OtherCalls(c, root[k]) = {} THEN crossed ELSE crossed \cup {root[k]}
  /\ UNCHANGED <<hour, api_token, api_copy, root, told, broken, closed>>

(* token_expires_within_window: the longest life ends within the window    *)
(* after the expiry.                                                       *)
ExpiresWithinWindow(row) == row.max_expiry_date <= row.expiry_date + Window

(* get_token reads the row.  It may be gone by now (an error), or have     *)
(* expired (401).                                                          *)
ReadToken(c) ==
  LET row == api_token[api_key[c]] IN
  /\ api_stage[c] = "read"
  /\ IF row = NoKey \/ (row # NoKey /\ row.expiry_date < hour)
     THEN ApiDone(c)
     ELSE /\ api_copy' = [api_copy EXCEPT ![c] = row]
          /\ ApiStep(c, IF ExpiresWithinWindow(row) THEN "replace" ELSE "save")
          /\ UNCHANGED api_key
  /\ UNCHANGED <<hour, api_token, apiHistory>>

(* The longer expiry is saved, to no row if the token is deleted by now,   *)
(* and told either way.                                                    *)
SaveToken(c) ==
  LET row == [api_copy[c] EXCEPT !.expiry_date = @ + Window]
      k == api_key[c]
  IN
  /\ api_stage[c] = "save"
  /\ api_token' = IF api_token[k] = NoKey THEN api_token ELSE [api_token EXCEPT ![k] = row]
  /\ told' = [told EXCEPT ![k] = row.expiry_date]
  /\ ApiDone(c)
  /\ UNCHANGED <<hour, root, crossed, broken, closed>>

(* MUTANT of DeleteToken: the old token stays. *)
KeepToken(c) ==
  /\ api_stage[c] = "replace"
  /\ ApiStep(c, "create")
  /\ UNCHANGED <<hour, api_token, api_key, api_copy, apiHistory>>

(* "Delete token and issue new one as it would put the new expiry time     *)
(* past the max valid window": the row goes ...                            *)
DeleteToken(c) ==
  /\ api_stage[c] = "replace"
  /\ api_token' = [api_token EXCEPT ![api_key[c]] = NoKey]
  /\ ApiStep(c, "create")
  /\ UNCHANGED <<hour, api_key, api_copy, apiHistory>>

(* ... and another one is inserted for the user of the copy.  The client   *)
(* has only that one now.                                                  *)
ReplaceToken(c, k) ==
  /\ api_stage[c] = "create"
  /\ InsertToken(k, api_copy[c].user)
  /\ told' = [told EXCEPT ![k] = hour + Window, ![api_key[c]] = 0]
  /\ root' = [root EXCEPT ![k] = Login(c)]
  /\ ApiDone(c)
  /\ UNCHANGED <<hour, crossed, broken, closed>>

(* invalidate_token *)
InvalidateToken(c) ==
  /\ api_stage[c] = "invalidate"
  /\ api_token' = [api_token EXCEPT ![api_key[c]] = NoKey]
  /\ closed' = closed \cup {Login(c)}
  /\ ApiDone(c)
  /\ UNCHANGED <<hour, root, told, crossed, broken>>

(* The process dies, or the database does not answer. *)
FailApiCall(c) ==
  /\ api_stage[c] # "idle"
  /\ broken' = broken \cup {Login(c)}
  /\ ApiDone(c)
  /\ UNCHANGED <<hour, api_token, root, told, crossed, closed>>

post_fresh_token(c) ==
  \/ ReadToken(c) \/ SaveToken(c) \/ DeleteToken(c)
  \/ \E k \in Keys : ReplaceToken(c, k)

ApiNext ==
  \/ NextHour
  \/ \E k \in Keys, u \in Clients : NewToken(k, u)
  \/ \E c \in ApiCalls :
       \/ \E k \in Keys, s \in {"read", "invalidate"} : Admit(c, k, s)
       \/ post_fresh_token(c) \/ InvalidateToken(c) \/ FailApiCall(c)

ApiSpec == ApiInit /\ [][ApiNext]_apiVars
-----------------------------------------------------------------------------
UsableTokens(l) == {k \in Keys : root[k] = l /\ Usable(k)}
Quiet(l) == \A c \in ApiCalls : api_key[c] = NoKey \/ root[api_key[c]] # l

(* No token outlives its longest life or changes hands, whatever overlaps. *)
(* And a login of which no two requests overlapped has one token at most:  *)
(* none once it was invalidated, and otherwise, unless a request broke     *)
(* off, the one its client holds works as long as the client was told.     *)
LoginHasOneToken ==
  /\ \A k \in Keys : api_token[k] # NoKey =>
       /\ api_token[k].expiry_date <= api_token[k].max_expiry_date
       /\ \A j \in Keys : api_token[j] # NoKey /\ root[j] = root[k] =>
            api_token[j].user = api_token[k].user
  /\ \A l \in Keys \ crossed : root[l] = l =>
       /\ Cardinality(UsableTokens(l)) <= 1
       /\ l \in closed => UsableTokens(l) = {}
       /\ l \notin closed \cup broken /\ Quiet(l) =>
            \A k \in Keys : root[k] = l /\ hour < told[k] =>
              Usable(k) /\ api_token[k].expiry_date = told[k]
=============================================================================
