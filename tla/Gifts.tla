-------------------------------- MODULE Gifts --------------------------------
(***************************************************************************)
(* Premium as a gift (GiftController).  An administrator stores a code in  *)
(* Redis that is worth an amount of guild tokens; whoever opens its link   *)
(* redeems it: the code is read, deleted, and then the tokens are saved    *)
(* one after the other.  Nothing holds these steps together.               *)
(***************************************************************************)
EXTENDS Integers, FiniteSets

CONSTANTS
  Redemptions,  (* POST requests to /gifts/redeem                          *)
  Codes,        (* codes that secrets.token_hex draws, each once           *)
  Members,      (* users who are signed in                                 *)
  Connected,    (* those of them with an OAuth entry                       *)
  Amounts,      (* what an administrator may ask for                       *)
  NoGift        (* no key, no reader, no restriction                       *)

ASSUME GiftsAssumption ==
  /\ Connected \subseteq Members
  /\ Amounts \subseteq Nat \ {0}
  /\ NoGift \notin Members

Gift == [amount : Amounts, user_id : Members \cup {NoGift}]
ASSUME NoGiftAssumption == NoGift \notin Gift

VARIABLES
  gifts,        (* the key gifts:<code>, or NoGift                         *)
  gift_tokens,  (* the rows saved: [code, i, user]; two saves of the same  *)
                (* are told apart by the request                           *)
  redeeming,    (* how far each request has come                           *)
  redeemer,     (* its user                                                *)
  code_data,    (* what it read, and under which code                      *)
  next_i,       (* the loop variable                                       *)
  offered,      (* history: what each code was worth                       *)
  gift_raced,   (* history: codes two requests were redeeming at once      *)
  gift_lost     (* history: codes that expired, or whose request failed    *)

giftVars == <<gifts, gift_tokens, redeeming, redeemer, code_data, next_i, offered,
              gift_raced, gift_lost>>

NoData == [code |-> NoGift, gift |-> NoGift]

GiftTypeOK ==
  /\ gifts \in [Codes -> Gift \cup {NoGift}]
  /\ gift_tokens \subseteq [by : Redemptions, code : Codes, i : Nat, user : Members]
  /\ redeeming \in [Redemptions -> {"idle", "delete", "save", "done"}]
  /\ redeemer \in [Redemptions -> Members \cup {NoGift}]
  /\ code_data \in [Redemptions -> [code : Codes \cup {NoGift}, gift : Gift \cup {NoGift}]]
  /\ next_i \in [Redemptions -> Nat]
  /\ offered \in [Codes -> Gift \cup {NoGift}]
  /\ gift_raced \subseteq Codes /\ gift_lost \subseteq Codes

GiftInit ==
  /\ gifts = [c \in Codes |-> NoGift] /\ offered = gifts
  /\ gift_tokens = {}
  /\ redeeming = [r \in Redemptions |-> "idle"]
  /\ redeemer = [r \in Redemptions |-> NoGift]
  /\ code_data = [r \in Redemptions |-> NoData]
  /\ next_i = [r \in Redemptions |-> 0]
  /\ gift_raced = {} /\ gift_lost = {}

Redeeming(c) == {r \in Redemptions : redeeming[r] \in {"delete", "save"}
                                     /\ code_data[r].code = c}

EndRedemption(r) ==
  /\ redeeming' = [redeeming EXCEPT ![r] = "done"]
  /\ redeemer' = [redeemer EXCEPT ![r] = NoGift]
  /\ code_data' = [code_data EXCEPT ![r] = NoData]
  /\ next_i' = [next_i EXCEPT ![r] = 0]
-----------------------------------------------------------------------------
(* create_gift_post; a user id that is no number is no restriction. *)
CreateGift(c, g) ==
  /\ offered[c] = NoGift
  /\ gifts' = [gifts EXCEPT ![c] = g]
  /\ offered' = [offered EXCEPT ![c] = g]
  /\ UNCHANGED <<gift_tokens, redeeming, redeemer, code_data, next_i, gift_raced,
                 gift_lost>>

(* The eight weeks of the key have passed. *)
ExpireGift(c) ==
  /\ gifts[c] # NoGift
  /\ gifts' = [gifts EXCEPT ![c] = NoGift]
  /\ gift_lost' = gift_lost \cup {c}
  /\ UNCHANGED <<gift_tokens, redeeming, redeemer, code_data, next_i, offered,
                 gift_raced>>

(* validate_code, for a gift to one user: get_oauth_entry finds no entry   *)
(* and raises, or the entry is somebody else's.                            *)
MayRedeem(g, u) ==
  /\ g # NoGift
  /\ g.user_id # NoGift => u \in Connected /\ g.user_id = u

Redeem(r, u, c) ==
  /\ redeeming[r] = "idle"
  /\ MayRedeem(gifts[c], u)
  /\ redeeming' = [redeeming EXCEPT ![r] = "delete"]
  /\ redeemer' = [redeemer EXCEPT ![r] = u]
  /\ code_data' = [code_data EXCEPT ![r] = [code |-> c, gift |-> gifts[c]]]
  /\ gift_raced' = IF Redeeming(c) = {} THEN gift_raced ELSE gift_raced \cup {c}
  /\ UNCHANGED <<gifts, gift_tokens, next_i, offered, gift_lost>>

(* "Unknown Gift." or "You cannot redeem this gift." *)
RefuseRedemption(r, u, c) ==
  /\ redeeming[r] = "idle"
  /\ ~MayRedeem(gifts[c], u)
  /\ EndRedemption(r)
  /\ UNCHANGED <<gifts, gift_tokens, offered, gift_raced, gift_lost>>

(* MUTANT of DeleteCode: the code stays. *)
DeleteNoCode(r) ==
  /\ redeeming[r] = "delete"
  /\ redeeming' = [redeeming EXCEPT ![r] = "save"]
  /\ UNCHANGED <<gifts, gift_tokens, redeemer, code_data, next_i, offered, gift_raced,
                 gift_lost>>

(* The key is deleted, whether another request deleted it before or not.   *)
DeleteCode(r) ==
  /\ redeeming[r] = "delete"
  /\ gifts' = [gifts EXCEPT ![code_data[r].code] = NoGift]
  /\ redeeming' = [redeeming EXCEPT ![r] = "save"]
  /\ UNCHANGED <<gift_tokens, redeemer, code_data, next_i, offered, gift_raced,
                 gift_lost>>

SaveGiftToken(r) ==
  /\ redeeming[r] = "save" /\ next_i[r] < code_data[r].gift.amount
  /\ gift_tokens' = gift_tokens \cup
       {[by |-> r, code |-> code_data[r].code, i |-> next_i[r], user |-> redeemer[r]]}
  /\ next_i' = [next_i EXCEPT ![r] = @ + 1]
  /\ UNCHANGED <<gifts, redeeming, redeemer, code_data, offered, gift_raced, gift_lost>>

(* "Your gift has been redeemed!" *)
ThankRedeemer(r) ==
  /\ redeeming[r] = "save" /\ next_i[r] = code_data[r].gift.amount
  /\ EndRedemption(r)
  /\ UNCHANGED <<gifts, gift_tokens, offered, gift_raced, gift_lost>>

(* The process dies, or Redis or the database does not answer. *)
FailRedemption(r) ==
  /\ redeeming[r] \in {"delete", "save"}
  /\ gift_lost' = gift_lost \cup {code_data[r].code}
  /\ EndRedemption(r)
  /\ UNCHANGED <<gifts, gift_tokens, offered, gift_raced>>

GiftNext ==
  \/ \E c \in Codes : ExpireGift(c) \/ \E g \in Gift : CreateGift(c, g)
  \/ \E r \in Redemptions :
       \/ \E u \in Members, c \in Codes : Redeem(r, u, c) \/ RefuseRedemption(r, u, c)
       \/ DeleteCode(r) \/ SaveGiftToken(r) \/ ThankRedeemer(r) \/ FailRedemption(r)

GiftSpec == GiftInit /\ [][GiftNext]_giftVars
-----------------------------------------------------------------------------
(* A code that no two requests redeemed at once is worth its amount once:  *)
(* no more tokens than that, all of them one user's, whom it was for.  And *)
(* when the code is gone though it neither expired nor failed, and nobody  *)
(* is at it, all its tokens are there.                                     *)
GiftIsGivenOnce ==
  \A c \in Codes \ gift_raced :
    LET saved == {t \in gift_tokens : t.code = c} IN
    /\ saved # {} => /\ Cardinality(saved) <= offered[c].amount
                     /\ \A t \in saved : MayRedeem(offered[c], t.user)
                     /\ \A s, t \in saved : s.user = t.user
    /\ /\ offered[c] # NoGift /\ gifts[c] = NoGift
       /\ c \notin gift_lost /\ Redeeming(c) = {}
       => Cardinality(saved) = offered[c].amount
=============================================================================
