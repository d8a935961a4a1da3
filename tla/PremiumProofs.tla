---------------------------- MODULE PremiumProofs ---------------------------
(***************************************************************************)
(* Gifts, the premium settings of a guild and the tokens of a subscription, *)
(* for any codes, members, amounts, guilds, tokens and quantities and any  *)
(* number of requests at once.                                             *)
(*                                                                         *)
(* The properties speak of handlers that were not disturbed. Of a gift,    *)
(* Alone says how far its one request has come. Of the settings, a save    *)
(* writes the copy it was opened on. Of a subscription, StageOK says what a *)
(* handler is about at each of its stages, and AloneOK how far it has      *)
(* brought the tokens by then: what an update found missing is still       *)
(* missing, what is not yet deleted is what is too much, what a renewal has *)
(* passed is renewed, and the guild is still free.  That no entry has more *)
(* than one token for each of its quantity is true of subscriptions whose  *)
(* handlers never overlapped (TokensPerEntry), and of no others.           *)
(***************************************************************************)
EXTENDS Gifts, PremiumConfig, GuildTokens, FiniteSetTheorems, TLAPS
-----------------------------------------------------------------------------
(* Gifts. *)

(* The tokens that were made of a code, and the redemptions past their     *)
(* read.                                                                   *)
Given(c) == {t \in gift_tokens : t.code = c}
Busy(r) == redeeming[r] \in {"delete", "save"}

(* A request under way carries what its code was worth, for a user who may *)
(* have it, and no more than that is saved.                                *)
Carries ==
  /\ \A c \in Codes : gifts[c] # NoGift => gifts[c] = offered[c]
  /\ \A r \in Redemptions : Busy(r) =>
       /\ code_data[r].code \in Codes
       /\ code_data[r].gift = offered[code_data[r].code] /\ code_data[r].gift \in Gift
       /\ redeemer[r] \in Members /\ MayRedeem(code_data[r].gift, redeemer[r])
       /\ next_i[r] <= code_data[r].gift.amount
  /\ \A r \in Redemptions : redeeming[r] # "save" => next_i[r] = 0

(* Of a code that no two requests redeemed at once: while it is there, or  *)
(* a request is about to delete it, nothing was saved; afterwards it is    *)
(* gone, and what was saved is what its one request has counted.           *)
Alone(c) ==
  /\ IsFiniteSet(Given(c))
  /\ gifts[c] # NoGift \/ offered[c] = NoGift => Given(c) = {}
  /\ \A r, s \in Redeeming(c) : r = s
  /\ \A r \in Redeeming(c) :
       /\ redeeming[r] = "delete" => Given(c) = {}
       /\ redeeming[r] = "save" =>
            /\ gifts[c] = NoGift
            /\ \A t \in Given(c) : t.i < next_i[r] /\ t.user = redeemer[r]
            /\ Cardinality(Given(c)) = next_i[r]

(* GiftIsGivenOnce, of one code. *)
GivenOnce(c) ==
  /\ Given(c) # {} => /\ Cardinality(Given(c)) <= offered[c].amount
                      /\ \A t \in Given(c) : MayRedeem(offered[c], t.user)
                      /\ \A s, t \in Given(c) : s.user = t.user
  /\ /\ offered[c] # NoGift /\ gifts[c] = NoGift
     /\ c \notin gift_lost /\ Redeeming(c) = {}
     => Cardinality(Given(c)) = offered[c].amount

(* The inductive invariant of the gifts. *)
GiftInv ==
  /\ GiftTypeOK /\ Carries
  /\ \A c \in Codes \ gift_raced : Alone(c) /\ GivenOnce(c)
-----------------------------------------------------------------------------
(* The property, code by code. *)
LEMMA GivenOnceEach == GiftIsGivenOnce <=> \A c \in Codes \ gift_raced : GivenOnce(c)
  BY DEF GiftIsGivenOnce, GivenOnce, Given

(* Nothing is sold at the start. *)
LEMMA GiftInitially == GiftInit => GiftInv
<1> SUFFICES ASSUME GiftInit PROVE GiftInv
  OBVIOUS
<1>1. GiftTypeOK
  BY DEF GiftInit, GiftTypeOK, NoData
<1>2. Carries
  BY DEF GiftInit, Carries, Busy
<1>3. ASSUME NEW c \in Codes
      PROVE  Alone(c) /\ GivenOnce(c)
  <2>1. Given(c) = {} /\ Redeeming(c) = {} /\ offered[c] = NoGift
    BY DEF GiftInit, Given, Redeeming
  <2> QED
    BY <2>1, FS_EmptySet DEF Alone, GivenOnce
<1> QED
  BY <1>1, <1>2, <1>3 DEF GiftInv
-----------------------------------------------------------------------------
(* A redemption that ends is back where it began. *)
LEMMA EndsTyped ==
  ASSUME GiftTypeOK, NEW r \in Redemptions, EndRedemption(r)
  PROVE  /\ redeeming' \in [Redemptions -> {"idle", "delete", "save", "done"}]
         /\ redeemer' \in [Redemptions -> Members \cup {NoGift}]
         /\ code_data' \in [Redemptions -> [code : Codes \cup {NoGift}, gift : Gift \cup {NoGift}]]
         /\ next_i' \in [Redemptions -> Nat]
         /\ redeeming'[r] = "done" /\ next_i'[r] = 0
         /\ \A q \in Redemptions \ {r} :
              /\ redeeming'[q] = redeeming[q] /\ redeemer'[q] = redeemer[q]
              /\ code_data'[q] = code_data[q] /\ next_i'[q] = next_i[q]
  BY DEF GiftTypeOK, EndRedemption, NoData

(* What a step leaves alone of a code keeps what was said of it. *)
LEMMA GiftFrame ==
  ASSUME NEW c \in Codes, Alone(c), GivenOnce(c),
         gift_tokens' = gift_tokens, gifts'[c] = gifts[c], offered'[c] = offered[c],
         gift_lost \subseteq gift_lost', Redeeming(c)' = Redeeming(c),
         \A r \in Redeeming(c) : /\ redeeming'[r] = redeeming[r] /\ next_i'[r] = next_i[r]
                                 /\ redeemer'[r] = redeemer[r]
  PROVE  Alone(c)' /\ GivenOnce(c)'
<1>1. Given(c)' = Given(c)
  BY DEF Given
<1>2. Alone(c)'
  BY <1>1 DEF Alone
<1>3. GivenOnce(c)'
  BY <1>1 DEF GivenOnce
<1> QED
  BY <1>2, <1>3

(* A code that nobody offered, nobody redeems. *)
LEMMA OnlyOffered ==
  ASSUME Carries, NEW c \in Codes, Redeeming(c) # {}
  PROVE  offered[c] \in Gift /\ offered[c] # NoGift
  BY NoGiftAssumption DEF Carries, Redeeming, Busy

(* The steps, one lemma each. *)
LEMMA CreateGiftStep ==
  ASSUME GiftInv, NEW c \in Codes, NEW g \in Gift, CreateGift(c, g)
  PROVE  GiftInv'
<1> USE DEF GiftInv
<1>1. GiftTypeOK'
  BY DEF CreateGift, GiftTypeOK
<1>2. \A r \in Redemptions : Busy(r) => code_data[r].code # c
  BY NoGiftAssumption DEF CreateGift, Carries
<1>3. /\ gifts'[c] = g /\ offered'[c] = g /\ g # NoGift
      /\ \A d \in Codes \ {c} : gifts'[d] = gifts[d] /\ offered'[d] = offered[d]
      /\ UNCHANGED <<gift_tokens, redeeming, redeemer, code_data, next_i, gift_raced, gift_lost>>
  BY NoGiftAssumption DEF CreateGift, GiftTypeOK
<1>4. Carries'
  BY <1>2, <1>3 DEF Carries, Busy, MayRedeem
<1>5. \A d \in Codes : Redeeming(d)' = Redeeming(d)
  BY <1>3 DEF Redeeming
<1>6. ASSUME NEW d \in Codes \ gift_raced, d # c
      PROVE  Alone(d)' /\ GivenOnce(d)'
  BY <1>3, <1>5, <1>6, GiftFrame
<1>7. ASSUME c \notin gift_raced
      PROVE  Alone(c)' /\ GivenOnce(c)'
  <2>1. Given(c) = {} /\ Redeeming(c) = {}
    BY <1>2, <1>7 DEF CreateGift, Alone, Redeeming, Busy
  <2>2. Given(c)' = {} /\ Redeeming(c)' = {}
    BY <1>3, <1>5, <2>1 DEF Given
  <2> QED
    BY <1>3, <2>2, FS_EmptySet DEF Alone, GivenOnce
<1> QED
  BY <1>1, <1>3, <1>4, <1>6, <1>7

LEMMA ExpireGiftStep ==
  ASSUME GiftInv, NEW c \in Codes, ExpireGift(c)
  PROVE  GiftInv'
<1> USE DEF GiftInv
<1>1. GiftTypeOK'
  BY DEF ExpireGift, GiftTypeOK
<1>2. /\ gifts[c] # NoGift /\ gifts'[c] = NoGift /\ gift_lost' = gift_lost \cup {c}
      /\ \A d \in Codes \ {c} : gifts'[d] = gifts[d]
      /\ UNCHANGED <<gift_tokens, redeeming, redeemer, code_data, next_i, offered, gift_raced>>
  BY DEF ExpireGift, GiftTypeOK
<1>3. Carries'
  BY <1>2 DEF Carries, Busy, MayRedeem
<1>4. \A d \in Codes : Redeeming(d)' = Redeeming(d)
  BY <1>2 DEF Redeeming
<1>5. ASSUME NEW d \in Codes \ gift_raced, d # c
      PROVE  Alone(d)' /\ GivenOnce(d)'
  BY <1>2, <1>4, <1>5, GiftFrame
<1>6. ASSUME c \notin gift_raced
      PROVE  Alone(c)' /\ GivenOnce(c)'
  <2>1. Given(c) = {} /\ Given(c)' = {}
    BY <1>2, <1>6 DEF Alone, Given
  <2>2. \A r \in Redeeming(c) : redeeming[r] # "save"
    BY <1>2, <1>6 DEF Alone
  <2>3. Alone(c)'
    BY <1>2, <1>4, <1>6, <2>1, <2>2, FS_EmptySet DEF Alone
  <2> QED
    BY <1>2, <2>1, <2>3 DEF GivenOnce
<1> QED
  BY <1>1, <1>2, <1>3, <1>5, <1>6

LEMMA RedeemStep ==
  ASSUME GiftInv, NEW r \in Redemptions, NEW u \in Members, NEW c \in Codes, Redeem(r, u, c)
  PROVE  GiftInv'
<1> USE DEF GiftInv
<1>1. gifts[c] \in Gift /\ gifts[c] = offered[c] /\ MayRedeem(gifts[c], u)
  BY DEF Redeem, MayRedeem, Carries, GiftTypeOK
<1>2. /\ redeeming[r] = "idle" /\ redeeming'[r] = "delete" /\ redeemer'[r] = u
      /\ code_data'[r] = [code |-> c, gift |-> gifts[c]]
      /\ \A q \in Redemptions \ {r} :
           /\ redeeming'[q] = redeeming[q] /\ redeemer'[q] = redeemer[q]
           /\ code_data'[q] = code_data[q]
      /\ UNCHANGED <<gifts, gift_tokens, next_i, offered, gift_lost>>
  BY DEF Redeem, GiftTypeOK
<1>3. GiftTypeOK'
  BY <1>1 DEF Redeem, GiftTypeOK
<1>4. next_i[r] = 0 /\ next_i \in [Redemptions -> Nat]
  BY <1>2 DEF Carries, GiftTypeOK
<1>5. gifts[c].amount \in Nat
  BY <1>1, GiftsAssumption DEF Gift
<1>6. Carries'
  BY <1>1, <1>2, <1>4, <1>5 DEF Carries, Busy, MayRedeem
<1>7. gift_raced \subseteq gift_raced' /\ (c \notin gift_raced' => Redeeming(c) = {})
  BY DEF Redeem
<1>8. /\ Redeeming(c)' = Redeeming(c) \cup {r}
      /\ \A d \in Codes \ {c} : Redeeming(d)' = Redeeming(d)
      /\ \A d \in Codes : r \notin Redeeming(d)
  BY <1>2 DEF Redeeming
<1>9. ASSUME NEW d \in Codes \ gift_raced', d # c
      PROVE  Alone(d)' /\ GivenOnce(d)'
  <2>1. \A q \in Redeeming(d) : /\ redeeming'[q] = redeeming[q] /\ next_i'[q] = next_i[q]
                                /\ redeemer'[q] = redeemer[q]
    BY <1>2, <1>8 DEF Redeeming
  <2> QED
    BY <1>2, <1>7, <1>8, <1>9, <2>1, GiftFrame
<1>10. ASSUME c \notin gift_raced'
       PROVE  Alone(c)' /\ GivenOnce(c)'
  <2>1. Given(c) = {} /\ Given(c)' = {} /\ Redeeming(c)' = {r}
    BY <1>1, <1>2, <1>7, <1>8, <1>10, NoGiftAssumption DEF Alone, Given
  <2> QED
    BY <1>1, <1>2, <2>1, FS_EmptySet DEF Alone, GivenOnce
<1> QED
  BY <1>3, <1>6, <1>9, <1>10

(* A request that ends leaves its code to nobody. *)
LEMMA EndStep ==
  ASSUME GiftInv, NEW r \in Redemptions, EndRedemption(r),
         UNCHANGED <<gifts, gift_tokens, offered, gift_raced>>,
         gift_lost \subseteq gift_lost', gift_lost' \subseteq Codes,
         \/ ~Busy(r)
         \/ code_data[r].code \in gift_lost'
         \/ redeeming[r] = "save" /\ next_i[r] = code_data[r].gift.amount
  PROVE  GiftInv'
<1> USE DEF GiftInv
<1>1. GiftTypeOK'
  BY EndsTyped DEF GiftTypeOK
<1>2. Carries'
  BY EndsTyped DEF Carries, Busy, MayRedeem
<1>3. \A d \in Codes : Redeeming(d)' = Redeeming(d) \ {r}
  BY EndsTyped DEF Redeeming
<1>4. ASSUME NEW d \in Codes \ gift_raced, r \notin Redeeming(d)
      PROVE  Alone(d)' /\ GivenOnce(d)'
  <2>1. Redeeming(d)' = Redeeming(d)
    BY <1>3, <1>4
  <2>2. \A q \in Redeeming(d) : /\ redeeming'[q] = redeeming[q] /\ next_i'[q] = next_i[q]
                                /\ redeemer'[q] = redeemer[q]
    BY <1>4, EndsTyped DEF Redeeming
  <2> QED
    BY <2>1, <2>2, GiftFrame
<1>5. ASSUME NEW d \in Codes \ gift_raced, r \in Redeeming(d)
      PROVE  Alone(d)' /\ GivenOnce(d)'
  <2>1. Redeeming(d) = {r} /\ Redeeming(d)' = {} /\ Given(d)' = Given(d)
    <3>1. \A q \in Redeeming(d) : q = r
      BY <1>5 DEF Alone
    <3>2. Given(d)' = Given(d)
      BY DEF Given
    <3> QED
      BY <1>3, <1>5, <3>1, <3>2
  <2>2. code_data[r].code = d /\ Busy(r)
    BY <1>5 DEF Redeeming, Busy
  <2>3. Alone(d)'
    BY <2>1 DEF Alone
  <2>4. d \in gift_lost' \/ Cardinality(Given(d)) = offered[d].amount
    BY <1>5, <2>2 DEF Alone, Carries
  <2>5. GivenOnce(d)'
    BY <2>1, <2>4 DEF GivenOnce
  <2> QED
    BY <2>3, <2>5
<1> QED
  BY <1>1, <1>2, <1>4, <1>5

LEMMA DeleteCodeStep ==
  ASSUME GiftInv, NEW r \in Redemptions, DeleteCode(r)
  PROVE  GiftInv'
<1> USE DEF GiftInv
<1> PICK c : c = code_data[r].code
  OBVIOUS
<1>1. c \in Codes /\ Busy(r) /\ redeeming[r] = "delete" /\ offered[c] # NoGift
  BY NoGiftAssumption DEF DeleteCode, Busy, Carries
<1>2. /\ gifts'[c] = NoGift /\ \A d \in Codes \ {c} : gifts'[d] = gifts[d]
      /\ redeeming'[r] = "save" /\ \A q \in Redemptions \ {r} : redeeming'[q] = redeeming[q]
      /\ UNCHANGED <<gift_tokens, redeemer, code_data, next_i, offered, gift_raced, gift_lost>>
  BY <1>1 DEF DeleteCode, GiftTypeOK
<1>3. GiftTypeOK'
  BY <1>1 DEF DeleteCode, GiftTypeOK
<1>4. Carries'
  BY <1>1, <1>2 DEF Carries, Busy, MayRedeem
<1>5. \A d \in Codes : Redeeming(d)' = Redeeming(d)
  BY <1>1, <1>2 DEF Redeeming
<1>6. ASSUME NEW d \in Codes \ gift_raced, d # c
      PROVE  Alone(d)' /\ GivenOnce(d)'
  <2>1. r \notin Redeeming(d)
    BY <1>6 DEF Redeeming
  <2>2. \A q \in Redeeming(d) : /\ redeeming'[q] = redeeming[q] /\ next_i'[q] = next_i[q]
                                /\ redeemer'[q] = redeemer[q]
    BY <1>2, <2>1 DEF Redeeming
  <2> QED
    BY <1>2, <1>5, <1>6, <2>2, GiftFrame
<1>7. ASSUME c \notin gift_raced
      PROVE  Alone(c)' /\ GivenOnce(c)'
  <2>1. r \in Redeeming(c) /\ next_i[r] = 0
    BY <1>1 DEF Redeeming, Carries, Busy
  <2>2. \A q \in Redeeming(c) : q = r
    BY <1>1, <1>7, <2>1 DEF Alone
  <2>3. Redeeming(c) = {r} /\ Redeeming(c)' = {r}
    BY <1>1, <1>5, <2>1, <2>2
  <2>4. Given(c) = {} /\ Given(c)' = {}
    BY <1>1, <1>2, <1>7, <2>1 DEF Alone, Given
  <2> QED
    BY <1>1, <1>2, <2>1, <2>3, <2>4, FS_EmptySet DEF Alone, GivenOnce
<1> QED
  BY <1>2, <1>3, <1>4, <1>6, <1>7

(* A token more. *)
LEMMA OneMore ==
  ASSUME NEW S, IsFiniteSet(S), NEW x, x \notin S
  PROVE  IsFiniteSet(S \cup {x}) /\ Cardinality(S \cup {x}) = Cardinality(S) + 1
  BY FS_AddElement

LEMMA SaveGiftTokenStep ==
  ASSUME GiftInv, NEW r \in Redemptions, SaveGiftToken(r)
  PROVE  GiftInv'
<1> USE DEF GiftInv
<1> PICK c : c = code_data[r].code
  OBVIOUS
<1> PICK t : t = [by |-> r, code |-> c, i |-> next_i[r], user |-> redeemer[r]]
  OBVIOUS
<1>1. /\ redeeming[r] = "save" /\ Busy(r) /\ next_i[r] \in Nat
      /\ next_i[r] < code_data[r].gift.amount
  BY DEF SaveGiftToken, Busy, GiftTypeOK
<1>2. /\ c \in Codes /\ redeemer[r] \in Members /\ code_data[r].gift \in Gift
      /\ code_data[r].gift = offered[c] /\ MayRedeem(offered[c], redeemer[r])
      /\ offered[c] # NoGift
  BY <1>1, NoGiftAssumption DEF Carries
<1>3. offered[c].amount \in Nat
  BY <1>2, GiftsAssumption DEF Gift
<1>4. /\ gift_tokens' = gift_tokens \cup {t}
      /\ next_i'[r] = next_i[r] + 1 /\ \A q \in Redemptions \ {r} : next_i'[q] = next_i[q]
      /\ UNCHANGED <<gifts, redeeming, redeemer, code_data, offered, gift_raced, gift_lost>>
  BY DEF SaveGiftToken, GiftTypeOK
<1>5. GiftTypeOK'
  <2>1. t \in [by : Redemptions, code : Codes, i : Nat, user : Members]
    BY <1>1, <1>2
  <2>2. next_i' \in [Redemptions -> Nat]
    BY DEF SaveGiftToken, GiftTypeOK
  <2> QED
    BY <1>4, <2>1, <2>2 DEF GiftTypeOK
<1>6. Carries'
  <2>1. next_i[r] + 1 <= code_data[r].gift.amount
    BY <1>1, <1>2, <1>3
  <2> QED
    BY <1>1, <1>4, <2>1 DEF Carries, Busy, MayRedeem
<1>7. t.code = c /\ t.i = next_i[r] /\ t.user = redeemer[r]
  OBVIOUS
<1>8. r \in Redeeming(c)
  BY <1>1 DEF Redeeming
<1>9. \A d \in Codes : d # c => r \notin Redeeming(d)
  BY DEF Redeeming
<1>10. /\ Given(c)' = Given(c) \cup {t}
       /\ \A d \in Codes \ {c} : Given(d)' = Given(d)
       /\ \A d \in Codes : Redeeming(d)' = Redeeming(d)
  BY <1>4, <1>7 DEF Given, Redeeming
<1>11. ASSUME NEW d \in Codes \ gift_raced, d # c
       PROVE  Alone(d)' /\ GivenOnce(d)'
  <2>1. \A q \in Redeeming(d) : next_i'[q] = next_i[q]
    BY <1>4, <1>9, <1>11 DEF Redeeming
  <2>2. Alone(d)'
    BY <1>4, <1>10, <1>11, <2>1 DEF Alone
  <2>3. GivenOnce(d)'
    BY <1>4, <1>10, <1>11 DEF GivenOnce
  <2> QED
    BY <2>2, <2>3
<1>12. ASSUME c \notin gift_raced
       PROVE  Alone(c)' /\ GivenOnce(c)'
  <2>1. /\ IsFiniteSet(Given(c)) /\ gifts[c] = NoGift
        /\ \A s \in Given(c) : s.i < next_i[r] /\ s.user = redeemer[r]
        /\ Cardinality(Given(c)) = next_i[r]
    BY <1>1, <1>2, <1>8, <1>12 DEF Alone
  <2>2. t \notin Given(c)
    BY <1>1, <1>7, <2>1
  <2>3. IsFiniteSet(Given(c)') /\ Cardinality(Given(c)') = next_i[r] + 1
    <3>1. /\ IsFiniteSet(Given(c) \cup {t})
          /\ Cardinality(Given(c) \cup {t}) = Cardinality(Given(c)) + 1
      BY <2>1, <2>2, OneMore
    <3> QED
      BY <1>10, <2>1, <3>1
  <2>4. \A q \in Redeeming(c) : q = r
    BY <1>2, <1>8, <1>12 DEF Alone
  <2>5. \A s \in Given(c)' : s.i < next_i'[r] /\ s.user = redeemer[r]
    <3>1. ASSUME NEW s \in Given(c)
          PROVE  s.i < next_i[r] + 1
      <4>1. s.i \in Nat /\ s.i < next_i[r]
        BY <2>1 DEF Given, GiftTypeOK
      <4> QED
        BY <1>1, <4>1
    <3>2. next_i[r] < next_i[r] + 1
      BY <1>1
    <3> QED
      BY <1>4, <1>7, <1>10, <2>1, <3>1, <3>2
  <2>6. Alone(c)'
    <3>1. Redeeming(c)' = Redeeming(c)
      BY <1>2, <1>10
    <3>2. \A q \in Redeeming(c)' : q = r
      BY <2>4, <3>1
    <3>3. /\ gifts' = gifts /\ redeeming' = redeeming /\ redeemer' = redeemer
          /\ offered' = offered /\ next_i'[r] = next_i[r] + 1
      BY <1>4
    <3>4. ~(gifts[c] # NoGift \/ offered[c] = NoGift)'
      BY <1>2, <2>1, <3>3
    <3> QED
      BY <1>1, <2>1, <2>3, <2>5, <3>2, <3>3, <3>4 DEF Alone
  <2>7. next_i[r] + 1 <= offered[c].amount
    BY <1>1, <1>2, <1>3
  <2>8. MayRedeem(offered[c], redeemer[r])'
    BY <1>2, <1>4 DEF MayRedeem
  <2>9. GivenOnce(c)'
    <3>1. Redeeming(c)' # {}
      BY <1>2, <1>8, <1>10
    <3>2. Cardinality(Given(c)') <= offered'[c].amount
      BY <1>4, <2>3, <2>7
    <3>3. \A s \in Given(c)' : MayRedeem(offered[c], s.user)'
      BY <1>4, <2>5, <2>8
    <3>4. \A s, u \in Given(c)' : s.user = u.user
      BY <2>5
    <3> QED
      BY <3>1, <3>2, <3>3, <3>4 DEF GivenOnce
  <2> QED
    BY <2>6, <2>9
<1> QED
  BY <1>4, <1>5, <1>6, <1>11, <1>12
-----------------------------------------------------------------------------
(* The step of the invariant, from the lemmas above. *)
LEMMA GiftStep == GiftInv /\ [GiftNext]_giftVars => GiftInv'
<1> SUFFICES ASSUME GiftInv, [GiftNext]_giftVars
             PROVE  GiftInv'
  OBVIOUS
<1>1. ASSUME NEW r \in Redemptions, NEW u \in Members, NEW c \in Codes,
             RefuseRedemption(r, u, c)
      PROVE  GiftInv'
  BY <1>1, EndStep DEF RefuseRedemption, Busy, GiftInv, GiftTypeOK
<1>2. ASSUME NEW r \in Redemptions, ThankRedeemer(r)
      PROVE  GiftInv'
  BY <1>2, EndStep DEF ThankRedeemer, GiftInv, GiftTypeOK
<1>3. ASSUME NEW r \in Redemptions, FailRedemption(r)
      PROVE  GiftInv'
  <2>1. code_data[r].code \in Codes
    BY <1>3 DEF FailRedemption, GiftInv, Carries, Busy
  <2> QED
    BY <1>3, <2>1, EndStep DEF FailRedemption, GiftInv, GiftTypeOK
<1>4. CASE UNCHANGED giftVars
  <2>1. GiftTypeOK' /\ Carries'
    BY <1>4 DEF giftVars, GiftInv, GiftTypeOK, Carries, Busy, MayRedeem
  <2>2. ASSUME NEW c \in Codes \ gift_raced
        PROVE  Alone(c)' /\ GivenOnce(c)'
    BY <1>4, <2>2, GiftFrame DEF giftVars, GiftInv, Redeeming
  <2> QED
    BY <1>4, <2>1, <2>2 DEF giftVars, GiftInv
<1> QED
  BY <1>1, <1>2, <1>3, <1>4, CreateGiftStep, ExpireGiftStep, RedeemStep, DeleteCodeStep,
     SaveGiftTokenStep DEF GiftNext

(* Whatever is created, redeemed, refused and broken off around it, a code *)
(* that no two requests redeemed at once is worth its amount, once.        *)
THEOREM GiftsAreGivenOnce == GiftSpec => []GiftIsGivenOnce
<1>1. GiftInv => GiftIsGivenOnce
  BY GivenOnceEach DEF GiftInv
<1> QED
  BY GiftInitially, GiftStep, <1>1, PTL DEF GiftSpec

(* The variables of the gifts have their types. *)
THEOREM GiftTypeCorrect == GiftSpec => []GiftTypeOK
<1>1. GiftInv => GiftTypeOK
  BY DEF GiftInv
<1>2. QED
  BY <1>1, GiftInitially, GiftStep, PTL DEF GiftSpec

-----------------------------------------------------------------------------
(* The custom cooldown. *)

(* What a moderator submits, by the modal it was typed into. *)
LEMMA SubmittedTo ==
  ASSUME NEW s \in Submissions \cup {Remove}
  PROVE  /\ s.modal \in PrefixModals =>
              s.text \in Texts \cup {Unset} /\ s.roles \in BOOLEAN
         /\ s.modal = "suggest_button_message" => s.text \in Texts \cup {Unset}
         /\ ~Unsaved(s) =>
              \/ s.modal \in PrefixModals
              \/ s.modal \in {"suggest_button_message", "custom_cooldowns",
                              "remove_custom_cooldowns"}
<1> USE DEF Submissions, Remove, PrefixModals, Unsaved
<1>1. CASE s \in [modal : PrefixModals, text : Texts \cup {Unset}, roles : BOOLEAN]
  BY <1>1
<1>2. CASE s \in [modal : {"suggest_button_message"}, text : Texts \cup {Unset}]
  BY <1>2
<1>3. CASE s \in [modal : {"custom_cooldowns"}, numeric : BOOLEAN]
  BY <1>3
<1>4. CASE s \in [modal : {"custom_name", "custom_avatar"}]
  BY <1>4
<1>5. CASE s = Remove
  BY <1>5
<1>6. QED
  BY <1>1, <1>2, <1>3, <1>4, <1>5

(* Whatever is saved is a row of settings, and only the modal for it sets  *)
(* a cooldown.                                                             *)
LEMMA SavedRow ==
  ASSUME NEW r \in Settings, NEW s \in Submissions \cup {Remove}, ~Unsaved(s)
  PROVE  /\ Changed(r, s) \in Settings
         /\ s.modal # "custom_cooldowns" =>
              Changed(r, s).cooldown_amount \in {r.cooldown_amount, Unset}
<1> USE DEF Settings
<1>0. "remove_custom_cooldowns" \notin PrefixModals /\ "suggest_button_message" \notin PrefixModals
      /\ "custom_cooldowns" \notin PrefixModals
  BY DEF PrefixModals
<1>1. CASE s.modal \in PrefixModals
  <2> DEFINE n == [text |-> s.text, roles |-> s.roles]
  <2>1. n \in Text
    BY <1>1, SubmittedTo DEF Text
  <2>2. Changed(r, s) = [r EXCEPT !.texts[s.modal] = n]
    BY <1>0, <1>1 DEF Changed
  <2>3. [r.texts EXCEPT ![s.modal] = n] \in [TextSettings -> Text]
    BY <2>1
  <2>4. QED
    BY <1>0, <1>1, <2>2, <2>3
<1>2. CASE s.modal = "suggest_button_message"
  <2> DEFINE n == [text |-> s.text, roles |-> FALSE]
             new == [t \in TextSettings |-> IF t \in ButtonTexts THEN n ELSE r.texts[t]]
  <2>1. n \in Text
    BY <1>2, SubmittedTo DEF Text
  <2>2. new \in [TextSettings -> Text]
    BY <2>1
  <2>3. Changed(r, s) = [r EXCEPT !.texts = new]
    BY <1>0, <1>2 DEF Changed
  <2>4. QED
    BY <2>2, <2>3
<1>3. CASE s.modal = "custom_cooldowns"
  <2>1. Changed(r, s) = [r EXCEPT !.cooldown_amount = Amount]
    BY <1>0, <1>3 DEF Changed
  <2>2. QED
    BY <1>3, <2>1
<1>4. CASE s.modal = "remove_custom_cooldowns"
  <2>1. Changed(r, s) = [r EXCEPT !.cooldown_amount = Unset]
    BY <1>0, <1>4 DEF Changed
  <2>2. QED
    BY <1>4, <2>1
<1>5. QED
  BY <1>1, <1>2, <1>3, <1>4, SubmittedTo

(* A menu interaction about to save has what it needs for it. *)
WishesOK ==
  \A a \in Admins : doing[a] = "save" =>
    /\ held[a] \in Settings
    /\ wish[a] \in Submissions \cup {Remove}
    /\ ~Unsaved(wish[a])

(* A check under way is a user's, and has not counted past the amount. *)
TrialsOK ==
  \A t \in Attempts :
    /\ trying[t] # "idle" => who[t] \in Suggesters
    /\ trying[t] = "counted" /\ ~refusal[t] => loaded[t][who[t]] \in 1..Amount

(* The inductive invariant: the property, and that every save and every    *)
(* check under way has what it needs.                                      *)
CooldownInv == PremiumTypeOK /\ WishesOK /\ TrialsOK /\ CooldownIsExact

(* No guild has a premium row at the start. *)
LEMMA CooldownInitially == PremiumInit => CooldownInv
<1> SUFFICES ASSUME PremiumInit PROVE CooldownInv
  OBVIOUS
<1> USE PremiumConfigAssumption DEF PremiumInit, NoCounts
<1>1. PremiumTypeOK
  BY DEF PremiumTypeOK, Settings, Text, Blank, Counts, Doing, Trying
<1>2. WishesOK /\ TrialsOK
  BY DEF WishesOK, TrialsOK
<1>3. CooldownIsExact
  BY DEF CooldownIsExact
<1>4. QED
  BY <1>1, <1>2, <1>3 DEF CooldownInv

(* A step of the menu that leaves the cooldown alone. *)
LEMMA MenuStep ==
  ASSUME CooldownInv, NEW a \in Admins,
         UNCHANGED <<settings, edits, checkVars, enabled, raced>>,
         \/ UNCHANGED <<counts, used, removed>>
         \/ counts' = NoCounts /\ used' = NoCounts /\ removed' = (settings.cooldown_amount = Unset),
         NEW d \in Doing, Step(a, d),
         NEW w \in Submissions \cup build_premium_components \cup {Unset},
         NEW h \in Settings \cup {Unset},
         wish' = [wish EXCEPT ![a] = w], held' = [held EXCEPT ![a] = h],
         d = "save" => h \in Settings /\ w \in Submissions \cup {Remove} /\ ~Unsaved(w)
  PROVE  CooldownInv'
<1> USE PremiumConfigAssumption DEF CooldownInv, checkVars
<1>1. PremiumTypeOK'
  <2>1. counts' \in Counts /\ used' \in Counts
    BY DEF PremiumTypeOK, Counts, NoCounts
  <2>2. removed' \in BOOLEAN
    BY DEF PremiumTypeOK
  <2>3. /\ doing' \in [Admins -> Doing]
        /\ wish' \in [Admins -> Submissions \cup build_premium_components \cup {Unset}]
        /\ held' \in [Admins -> Settings \cup {Unset}]
    BY DEF PremiumTypeOK, Step
  <2>4. QED
    BY <2>1, <2>2, <2>3 DEF PremiumTypeOK
<1>2. WishesOK'
  BY DEF PremiumTypeOK, WishesOK, Step
<1>3. TrialsOK'
  BY DEF TrialsOK
<1>4. CooldownIsExact'
  <2>1. CASE UNCHANGED <<counts, used, removed>>
    BY <2>1 DEF CooldownIsExact
  <2>2. CASE /\ counts' = NoCounts /\ used' = NoCounts
             /\ removed' = (settings.cooldown_amount = Unset)
    <3>1. \A u \in Suggesters : used'[u] <= Amount
      BY <2>2 DEF NoCounts
    <3>2. removed' => settings'.cooldown_amount = Unset
      BY <2>2
    <3>3. QED
      BY <2>2, <3>1, <3>2 DEF CooldownIsExact
  <2>3. QED
    BY <2>1, <2>2
<1>5. QED
  BY <1>1, <1>2, <1>3, <1>4

(* A save writes the row the modal was opened on with the fields of that   *)
(* modal, so that the cooldown it had stays or is the new one.             *)
LEMMA SaveSubmissionStep ==
  ASSUME CooldownInv, NEW a \in Admins, SaveSubmission(a)
  PROVE  CooldownInv'
<1> USE PremiumConfigAssumption DEF CooldownInv, checkVars, SaveSubmission, At
<1>0. /\ held[a] \in Settings /\ wish[a] \in Submissions \cup {Remove} /\ ~Unsaved(wish[a])
  BY DEF WishesOK
<1>1. /\ settings' \in Settings
      /\ wish[a].modal # "custom_cooldowns" =>
           settings'.cooldown_amount \in {held[a].cooldown_amount, Unset}
  BY <1>0, SavedRow
<1>2. \E d \in {"idle", "delete"} : doing' = [doing EXCEPT ![a] = d]
  BY DEF Done, Step
<1>3. /\ wish' = [wish EXCEPT ![a] = Unset] /\ held' = [held EXCEPT ![a] = Unset]
      \/ UNCHANGED <<wish, held>>
  BY DEF Done
<1>4. removed' \in BOOLEAN
  BY DEF PremiumTypeOK
<1>5. PremiumTypeOK'
  BY <1>1, <1>2, <1>3, <1>4 DEF PremiumTypeOK, Doing
<1>6. WishesOK'
  BY <1>2, <1>3 DEF PremiumTypeOK, WishesOK
<1>7. TrialsOK'
  BY DEF TrialsOK
<1>8. CooldownIsExact'
  <2> SUFFICES ASSUME ~raced'
               PROVE  removed' => settings'.cooldown_amount = Unset
    BY DEF CooldownIsExact, PremiumTypeOK
  <2>1. ~raced /\ held[a] = settings
    BY DEF PremiumTypeOK
  <2>2. CASE wish[a] = Remove
    <3>1. wish[a].modal # "custom_cooldowns" /\ removed' = removed
      BY <2>2 DEF Remove
    <3>2. removed => settings.cooldown_amount = Unset
      BY <2>1 DEF CooldownIsExact
    <3>3. QED
      BY <1>1, <2>1, <3>1, <3>2
  <2>3. CASE wish[a] # Remove
    BY <2>1, <2>3, <1>1 DEF CooldownIsExact
  <2>4. QED
    BY <2>2, <2>3
<1>9. QED
  BY <1>5, <1>6, <1>7, <1>8

(* A step of the check that stores nothing. *)
LEMMA TrialStep ==
  ASSUME CooldownInv, NEW t \in Attempts, UNCHANGED <<menuVars, enabled, counts, used, raced>>,
         NEW stage \in Trying, trying' = [trying EXCEPT ![t] = stage],
         NEW u \in Suggesters \cup {Unset}, NEW l \in Counts, NEW f \in BOOLEAN,
         who' = [who EXCEPT ![t] = u], loaded' = [loaded EXCEPT ![t] = l],
         refusal' = [refusal EXCEPT ![t] = f],
         stage # "idle" => u \in Suggesters,
         stage = "counted" /\ ~f => l[u] \in 1..Amount
  PROVE  CooldownInv'
<1> USE DEF CooldownInv, menuVars
<1>1. PremiumTypeOK'
  BY DEF PremiumTypeOK
<1>2. WishesOK' /\ CooldownIsExact'
  BY DEF WishesOK, CooldownIsExact
<1>3. TrialsOK'
  BY DEF PremiumTypeOK, TrialsOK
<1>4. QED
  BY <1>1, <1>2, <1>3

(* Two functions that agree on every suggester are the same. *)
LEMMA SameCounts ==
  ASSUME NEW f \in Counts, NEW g \in Counts, \A v \in Suggesters : f[v] = g[v]
  PROVE  f = g
  BY DEF Counts

(* What is stored is what the check read, counted up by one at most.       *)
LEMMA StoreCountsStep ==
  ASSUME CooldownInv, NEW t \in Attempts, StoreCounts(t)
  PROVE  CooldownInv'
<1> USE PremiumConfigAssumption DEF CooldownInv, menuVars, StoreCounts
<1> DEFINE u == who[t]
<1>0. /\ trying[t] = "counted" /\ u \in Suggesters /\ loaded[t] \in Counts
      /\ counts \in Counts /\ used \in Counts
      /\ refusal[t] \in BOOLEAN /\ raced \in BOOLEAN
  BY DEF PremiumTypeOK, TrialsOK
<1>1. /\ trying' = [trying EXCEPT ![t] = "idle"]
      /\ who' = [who EXCEPT ![t] = Unset]
      /\ loaded' = [loaded EXCEPT ![t] = NoCounts]
      /\ refusal' = [refusal EXCEPT ![t] = FALSE]
  BY DEF EndTrial, Trial
<1>2. used' \in Counts
  BY <1>0 DEF Counts
<1>3. PremiumTypeOK'
  BY <1>0, <1>1, <1>2 DEF PremiumTypeOK, Trying, NoCounts, Counts
<1>4. WishesOK' /\ TrialsOK'
  BY <1>1 DEF WishesOK, TrialsOK, PremiumTypeOK
<1>5. CooldownIsExact'
  <2> SUFFICES ASSUME ~raced'
               PROVE  counts' = used' /\ \A v \in Suggesters : used'[v] <= Amount
    BY DEF CooldownIsExact
  <2>1. ~raced /\ counts = Read(t) /\ counts = used /\ \A v \in Suggesters : used[v] <= Amount
    BY <1>0 DEF CooldownIsExact
  <2>2. CASE refusal[t]
    BY <2>1, <2>2 DEF Read
  <2>3. CASE ~refusal[t]
    <3>1. used = [loaded[t] EXCEPT ![u] = @ - 1] /\ used' = [used EXCEPT ![u] = @ + 1]
      BY <2>1, <2>3 DEF Read
    <3>2. /\ used'[u] = loaded[t][u]
          /\ \A v \in Suggesters \ {u} : used'[v] = loaded[t][v]
      BY <1>0, <3>1 DEF Counts
    <3>3. used' = loaded[t]
      <4>1. \A v \in Suggesters : used'[v] = loaded[t][v]
        BY <3>2
      <4> HIDE DEF StoreCounts, CooldownInv
      <4>2. QED
        BY <1>0, <1>2, <4>1, SameCounts
    <3>4. loaded[t][u] <= Amount
      BY <1>0, <2>3 DEF TrialsOK
    <3>5. QED
      BY <2>1, <3>2, <3>3, <3>4
  <2>4. QED
    BY <2>2, <2>3
<1>6. QED
  BY <1>3, <1>4, <1>5

(* The step of the invariant: a suggestion counts from the row it reads. *)
LEMMA CooldownStep == CooldownInv /\ [PremiumNext]_premiumVars => CooldownInv'
<1> SUFFICES ASSUME CooldownInv, [PremiumNext]_premiumVars
             PROVE  CooldownInv'
  OBVIOUS
<1> USE DEF menuVars
<1>0. /\ doing \in [Admins -> Doing]
      /\ wish \in [Admins -> Submissions \cup build_premium_components \cup {Unset}]
      /\ held \in [Admins -> Settings \cup {Unset}] /\ settings \in Settings
  BY DEF CooldownInv, PremiumTypeOK
<1>1. CASE PremiumEnds \/ UNCHANGED premiumVars
  <2>1. UNCHANGED <<menuVars, checkVars, counts, used, raced>> /\ enabled' \in BOOLEAN
    BY <1>1 DEF PremiumEnds, premiumVars, CooldownInv, PremiumTypeOK
  <2>2. PremiumTypeOK'
    BY <2>1 DEF checkVars, CooldownInv, PremiumTypeOK
  <2>3. WishesOK' /\ TrialsOK' /\ CooldownIsExact'
    BY <2>1 DEF checkVars, CooldownInv, WishesOK, TrialsOK, CooldownIsExact
  <2>4. QED
    BY <2>2, <2>3 DEF CooldownInv
<1>2. ASSUME NEW a \in Admins, NEW b \in build_premium_components, OpenModal(a, b)
      PROVE  CooldownInv'
  <2>1. held' = [held EXCEPT ![a] = held[a]] /\ held[a] \in Settings \cup {Unset}
    BY <1>0, <1>2 DEF OpenModal
  <2>2. QED
    BY <1>2, <2>1, MenuStep DEF OpenModal, Doing
<1>3. ASSUME NEW a \in Admins, NEW s \in Submissions, SubmitModal(a, s)
      PROVE  CooldownInv'
  BY <1>0, <1>3, MenuStep DEF SubmitModal, Doing
<1>4. ASSUME NEW a \in Admins, PressRemove(a)
      PROVE  CooldownInv'
  <2>1. Remove \in build_premium_components /\ ~Unsaved(Remove)
    BY DEF build_premium_components, Remove, Unsaved, PrefixModals
  <2>2. QED
    BY <1>0, <1>4, <2>1, MenuStep DEF PressRemove, Doing
<1>5. ASSUME NEW a \in Admins, (\E s \in Submissions : RefuseSubmission(a, s)) \/ LeaveMenu(a)
                               \/ DeleteCounts(a)
      PROVE  CooldownInv'
  BY <1>5, MenuStep DEF RefuseSubmission, LeaveMenu, DeleteCounts, Done, Doing
<1>6. ASSUME NEW a \in Admins, SaveSubmission(a)
      PROVE  CooldownInv'
  BY <1>6, SaveSubmissionStep
<1>7. ASSUME NEW t \in Attempts, NEW u \in Suggesters, Suggest(t, u)
      PROVE  CooldownInv'
  <2>1. loaded[t] \in Counts /\ refusal[t] \in BOOLEAN
        /\ loaded' = [loaded EXCEPT ![t] = loaded[t]]
        /\ refusal' = [refusal EXCEPT ![t] = refusal[t]]
    BY <1>7 DEF Suggest, CooldownInv, PremiumTypeOK
  <2>2. QED
    BY <1>7, <2>1, TrialStep DEF Suggest, Trial, Trying
<1>8. ASSUME NEW t \in Attempts, CountUp(t)
      PROVE  CooldownInv'
  <2> DEFINE u == who[t]
             refused == counts[u] >= Amount
             l == IF refused THEN counts ELSE [counts EXCEPT ![u] = @ + 1]
  <2>1. u \in Suggesters /\ counts \in Counts /\ who' = [who EXCEPT ![t] = u]
    BY <1>8 DEF CountUp, CooldownInv, PremiumTypeOK, TrialsOK
  <2>2. l \in Counts /\ refused \in BOOLEAN /\ (~refused => l[u] \in 1..Amount)
    BY <2>1, PremiumConfigAssumption DEF Counts
  <2>3. loaded' = [loaded EXCEPT ![t] = l] /\ refusal' = [refusal EXCEPT ![t] = refused]
        /\ trying' = [trying EXCEPT ![t] = "counted"]
        /\ UNCHANGED <<menuVars, enabled, counts, used, raced>>
    BY <1>8 DEF CountUp, Trial
  <2>4. QED
    BY <2>1, <2>2, <2>3, TrialStep DEF Trying
<1>9. ASSUME NEW t \in Attempts, StoreCounts(t)
      PROVE  CooldownInv'
  BY <1>9, StoreCountsStep
<1>10. ASSUME NEW t \in Attempts, FailCheck(t)
       PROVE  CooldownInv'
  <2>1. NoCounts \in Counts
    BY DEF NoCounts, Counts
  <2>2. QED
    BY <1>10, <2>1, TrialStep DEF FailCheck, EndTrial, Trial, Trying
<1>11. QED
  BY <1>1, <1>2, <1>3, <1>4, <1>5, <1>6, <1>7, <1>8, <1>9, <1>10 DEF PremiumNext

(* Unless a stale copy of the row was saved, the cooldown counts exactly   *)
(* the suggestions it allowed since it was reset, and one that was removed *)
(* stays removed, for any number of admins, suggesters and checks at once. *)
THEOREM CooldownsAreExact == PremiumSpec => []CooldownIsExact
<1>1. CooldownInv => CooldownIsExact
  BY DEF CooldownInv
<1>2. QED
  BY <1>1, CooldownInitially, CooldownStep, PTL DEF PremiumSpec

(* The settings, the counts and what the menus hold have their types. *)
THEOREM PremiumTypeCorrect == PremiumSpec => []PremiumTypeOK
<1>1. CooldownInv => PremiumTypeOK
  BY DEF CooldownInv
<1>2. QED
  BY <1>1, CooldownInitially, CooldownStep, PTL DEF PremiumSpec

-----------------------------------------------------------------------------
(* The tokens of a subscription. *)

(* The tokens a call has still to write. *)
Pending(c) == {t \in Tokens : work[c][t] # NoRow}

(* What the stage of a call says of its copies. *)
StageOK(c) ==
  /\ op[c] = NoOp <=> pc[c] \in {"idle", "done"}
  /\ pc[c] \in {"idle", "done"} => need[c] = 0
  /\ pc[c] = "absent" => op[c].kind = "created"
  /\ pc[c] \in {"counted", "adding", "choosing", "dropping"} => op[c].kind = "updated"
  /\ pc[c] = "saving" =>
       \/ op[c].kind = "updated"
       \/ op[c].kind = "paid" /\ need[c] = 0
  /\ pc[c] = "adding" => need[c] > 0
  /\ pc[c] = "choosing" => need[c] < 0
  /\ pc[c] \in {"fetched", "free"} =>
       op[c].kind = "assign" /\ work[c][op[c].token] \in Row

(* What else holds of a call that no other crosses. *)
AloneOK(c) ==
  /\ pc[c] = "absent" => Live = {}
  /\ pc[c] \in {"counted", "saving", "adding", "choosing"} /\ op[c].kind = "updated" =>
       need[c] = op[c].quantity - Cardinality(Live)
  /\ pc[c] = "dropping" =>
       Pending(c) \subseteq Live /\ Cardinality(Live \ Pending(c)) = op[c].quantity
  /\ pc[c] = "saving" /\ op[c].kind = "paid" =>
       \A t \in Live : IF t \in Pending(c) THEN work[c][t].expires = op[c].until
                       ELSE tokens[t].expires = op[c].until
  /\ pc[c] \in {"fetched", "free"} => tokens[op[c].token] = work[c][op[c].token]
  /\ pc[c] = "free" /\ tokens[op[c].token].guild # op[c].guild => ~Taken(op[c].guild)

(* The inductive invariant. *)
IInv ==
  /\ TypeOK
  /\ \A c \in Calls : StageOK(c)
  /\ \A c \in Calls \ disturbed : AloneOK(c)

(* The steps of one call; the other actions are the clock's and the        *)
(* operator's.                                                             *)
CallStep(c) == Created(c) \/ Updated(c) \/ Managed(c) \/ Abort(c)
-----------------------------------------------------------------------------
(* The fields of the operations. *)
LEMMA OpFields ==
  ASSUME NEW o \in Op
  PROVE  /\ o.kind \in {"created", "updated", "paid", "assign"}
         /\ o.kind = "created" => o.quantity \in Quantities /\ o.expires \in Period
         /\ o.kind = "updated" => o.quantity \in Quantities /\ o.until \in Period
         /\ o.kind = "paid" => o.until \in Period
         /\ o.kind = "assign" => o.token \in Tokens /\ o.guild \in Guilds \cup {NoGuild}
  BY DEF Op

(* A subscription is of one token at least. *)
LEMMA QuantityIsPositive ==
  ASSUME NEW o \in Op, o.kind \in {"created", "updated"}
  PROVE  o.quantity \in Nat /\ o.quantity \in Int /\ o.quantity > 0
<1>1. o.quantity \in Quantities
  BY OpFields
<1>2. \A q \in Quantities : q \in Nat /\ q \in Int /\ q > 0
  BY ConstantsAssumption
<1>3. QED
  BY <1>1, <1>2

(* n tokens are missing of q when there are l: with one more, one less is  *)
(* missing; and without as many as are too many there are q.               *)
LEMMA Missing ==
  ASSUME NEW q \in Int, NEW l \in Int, NEW n \in Int, n = q - l
  PROVE  n - 1 = q - (l + 1) /\ l - (0 - n) = q
  OBVIOUS

(* What a row of the table is after an edit, an insertion or a deletion,   *)
(* and how many are live.                                                  *)
LEMMA RowEdit ==
  ASSUME NEW r \in Row
  PROVE  /\ \A e \in Period : [r EXCEPT !.expires = e] \in Row
         /\ \A e \in Period : [r EXCEPT !.expires = e].expires = e
         /\ \A g \in Guilds \cup {NoGuild} : [r EXCEPT !.guild = g] \in Row
  BY DEF Row

LEMMA Nulls ==
  /\ \A e \in Period : Unassigned(e) \in Row
  /\ 0 \in Period
  /\ NoRow \notin Row /\ Unborn \notin Row /\ Gone \notin Row
  /\ Nothing \in [Tokens -> Row \cup {NoRow}]
  BY ConstantsAssumption, NullAssumption DEF Unassigned, Row, Period, Nothing

LEMMA LiveFinite ==
  ASSUME NEW S \in SUBSET Tokens
  PROVE  IsFiniteSet(S) /\ Cardinality(S) \in Nat
  BY ConstantsAssumption, FS_Subset, FS_CardinalityType

LEMMA Inserting ==
  ASSUME TypeOK, NEW n \in Nat, NEW r \in Row, NEW S \in New(n), Insert(S, r)
  PROVE  /\ tokens' \in [Tokens -> Row \cup {Unborn, Gone}]
         /\ Cardinality(Live') = Cardinality(Live) + n
<1>1. S \in SUBSET Tokens /\ Cardinality(S) = n /\ \A t \in S : tokens[t] = Unborn
  BY DEF New
<1>2. tokens' \in [Tokens -> Row \cup {Unborn, Gone}]
  BY <1>1 DEF Insert, TypeOK
<1>3. Live' = Live \cup S
  BY <1>1, Nulls DEF Insert, TypeOK, Live
<1>4. Live \cap S = {}
  BY <1>1, Nulls DEF Live
<1>5. IsFiniteSet(S) /\ IsFiniteSet(Live) /\ Cardinality(Live) \in Nat
  BY <1>1, LiveFinite DEF Live
<1>6. Cardinality(Live \cup S) = Cardinality(Live) + Cardinality(S) - Cardinality(Live \cap S)
  BY <1>5, FS_Union
<1>7. Cardinality(Live \cap S) = 0
  BY <1>4, FS_EmptySet
<1>8. QED
  BY <1>1, <1>2, <1>3, <1>5, <1>6, <1>7

LEMMA Saving ==
  ASSUME TypeOK, NEW t \in Tokens, NEW r \in Row, Save(t, r)
  PROVE  /\ tokens' \in [Tokens -> Row \cup {Unborn, Gone}]
         /\ Live' = Live
         /\ t \in Live => tokens'[t] = r
         /\ \A u \in Tokens \ {t} : tokens'[u] = tokens[u]
  BY DEF Save, TypeOK, Live

LEMMA Deleting ==
  ASSUME TypeOK, NEW S \in SUBSET Tokens, Delete(S)
  PROVE  /\ tokens' \in [Tokens -> Row \cup {Unborn, Gone}]
         /\ Live' = Live \ S
  BY Nulls DEF Delete, TypeOK, Live
-----------------------------------------------------------------------------
(* No token is sold and no call is running at the start. *)
LEMMA Initially == Init => IInv
<1> SUFFICES ASSUME Init PROVE IInv
  OBVIOUS
<1>1. TypeOK
  BY Nulls DEF Init, TypeOK, Stage
<1>2. ASSUME NEW c \in Calls
      PROVE  StageOK(c) /\ AloneOK(c)
  BY <1>2 DEF Init, StageOK, AloneOK
<1>3. QED
  BY <1>1, <1>2 DEF IInv
-----------------------------------------------------------------------------
(* What the step of a call does to the others: nothing, but a call that is *)
(* under way is disturbed by one that writes.                              *)
LEMMA Frame ==
  ASSUME TypeOK, NEW c \in Calls, CallStep(c), NEW d \in Calls \ {c}
  PROVE  /\ pc'[d] = pc[d] /\ op'[d] = op[d] /\ work'[d] = work[d] /\ need'[d] = need[d]
         /\ now' = now
         /\ d \in disturbed => d \in disturbed'
         /\ d \notin disturbed' => pc[d] \in {"idle", "done"} \/ tokens' = tokens
<1> DEFINE Goal ==
      /\ pc'[d] = pc[d] /\ op'[d] = op[d] /\ work'[d] = work[d] /\ need'[d] = need[d]
      /\ now' = now
      /\ d \in disturbed => d \in disturbed'
      /\ d \notin disturbed' => pc[d] \in {"idle", "done"} \/ tokens' = tokens
<1> USE DEF TypeOK
<1>1. CASE Exists(c)
  BY <1>1 DEF Exists, Begin, Goto
<1>2. CASE CreateTokens(c)
  BY <1>2 DEF CreateTokens, WriteAndLeave, Forget, Goto, Others
<1>3. CASE Count(c)
  BY <1>3 DEF Count, Begin, Goto
<1>4. CASE Load(c)
  BY <1>4 DEF Load, Begin, Goto
<1>5. CASE Saved(c)
  BY <1>5 DEF Saved, Leave, Forget, Goto
<1>6. CASE Add(c)
  BY <1>6 DEF Add, WriteAndLeave, Written, Forget, Goto, Others
<1>7. CASE Choose(c)
  BY <1>7 DEF Choose, Goto
<1>8. CASE Dropped(c)
  BY <1>8 DEF Dropped, Leave, Forget, Goto
<1>9. CASE Revoke(c)
  BY <1>9 DEF Revoke, WriteAndLeave, Forget, Goto, Others
<1>10. ASSUME NEW t \in Tokens, SaveExpiry(c, t) PROVE Goal
  BY <1>10 DEF SaveExpiry, Written, Others
<1>11. ASSUME NEW t \in Tokens, Drop(c, t) PROVE Goal
  BY <1>11 DEF Drop, Written, Others
<1>12. CASE FetchToken(c)
  BY <1>12 DEF FetchToken, Begin, Goto
<1>13. CASE CheckGuild(c)
  BY <1>13 DEF CheckGuild, Leave, Forget, Goto
<1>14. CASE Assign(c)
  BY <1>14 DEF Assign, WriteAndLeave, Forget, Goto, Others
<1>15. CASE Abort(c)
  BY <1>15 DEF Abort, Leave, Forget, Goto
<1>16. QED
  BY <1>1, <1>2, <1>3, <1>4, <1>5, <1>6, <1>7, <1>8, <1>9, <1>10, <1>11, <1>12,
     <1>13, <1>14, <1>15 DEF CallStep, Created, Updated, Managed
-----------------------------------------------------------------------------
(* And what it does to the call itself. *)
Kept(c) == TypeOK /\ StageOK(c) /\ (c \in disturbed \/ AloneOK(c))

(* A call that ends leaves nothing pending. *)
LEMMA Ending ==
  ASSUME TypeOK, NEW c \in Calls, NEW stage \in {"idle", "done"}, Forget(c, stage),
         tokens' \in [Tokens -> Row \cup {Unborn, Gone}], now' = now,
         disturbed' \subseteq Calls
  PROVE  Kept(c)'
<1>1. TypeOK'
  BY Nulls DEF TypeOK, Forget, Goto, Stage
<1>2. pc'[c] = stage /\ op'[c] = NoOp /\ need'[c] = 0
  BY DEF TypeOK, Forget, Goto
<1>3. StageOK(c)' /\ AloneOK(c)'
  BY <1>2 DEF StageOK, AloneOK
<1>4. QED
  BY <1>1, <1>3 DEF Kept

(* The steps of a call, one lemma each. *)
LEMMA KeptByExists ==
  ASSUME TypeOK, NEW c \in Calls, Kept(c), Exists(c)
  PROVE  Kept(c)'
<1>1. PICK o \in Op : o.kind = "created" /\ Begin(c, o)
  BY DEF Exists
<1>2. TypeOK'
  BY <1>1 DEF Exists, Begin, Goto, TypeOK, Stage
<1>3. pc'[c] = "absent" /\ op'[c] = o /\ tokens' = tokens /\ o # NoOp
  BY <1>1, NullAssumption DEF Exists, Begin, Goto, TypeOK
<1>4. Live' = {}
  BY <1>3 DEF Exists, Live
<1>5. StageOK(c)' /\ AloneOK(c)'
  BY <1>1, <1>3, <1>4 DEF StageOK, AloneOK
<1>6. QED
  BY <1>2, <1>5 DEF Kept

LEMMA KeptByCreateTokens ==
  ASSUME TypeOK, NEW c \in Calls, Kept(c), CreateTokens(c)
  PROVE  Kept(c)' /\ Cardinality(Live') = Cardinality(Live) + op[c].quantity
<1>1. op[c] \in Op /\ op[c].kind = "created"
  BY DEF Kept, StageOK, CreateTokens, TypeOK
<1>2. op[c].quantity \in Nat /\ Unassigned(op[c].expires) \in Row
  BY <1>1, OpFields, Nulls, ConstantsAssumption
<1>3. PICK S \in New(op[c].quantity) : Insert(S, Unassigned(op[c].expires))
  BY DEF CreateTokens
<1>4. /\ tokens' \in [Tokens -> Row \cup {Unborn, Gone}]
      /\ Cardinality(Live') = Cardinality(Live) + op[c].quantity
  BY <1>2, <1>3, Inserting
<1>5. Forget(c, "done") /\ now' = now /\ disturbed' \subseteq Calls
  BY DEF CreateTokens, WriteAndLeave, Others, TypeOK
<1>6. QED
  BY <1>4, <1>5, Ending

LEMMA KeptByCount ==
  ASSUME TypeOK, NEW c \in Calls, Kept(c), Count(c)
  PROVE  Kept(c)'
<1>1. PICK o \in Op : /\ o.kind = "updated" /\ Begin(c, o)
                      /\ need' = [need EXCEPT ![c] = o.quantity - Cardinality(Live)]
  BY DEF Count
<1>2. o.quantity \in Nat /\ Cardinality(Live) \in Nat
  BY <1>1, OpFields, LiveFinite, ConstantsAssumption DEF Live
<1>3. TypeOK'
  BY <1>1, <1>2 DEF Count, Begin, Goto, TypeOK, Stage
<1>4. /\ pc'[c] = "counted" /\ op'[c] = o /\ tokens' = tokens /\ o # NoOp
      /\ need'[c] = o.quantity - Cardinality(Live)
  BY <1>1, NullAssumption DEF Count, Begin, Goto, TypeOK
<1>5. Live' = Live
  BY <1>4 DEF Live
<1>6. StageOK(c)' /\ AloneOK(c)'
  BY <1>1, <1>4, <1>5 DEF StageOK, AloneOK
<1>7. QED
  BY <1>3, <1>6 DEF Kept

(* Every row that is there is read, with its new expiry. *)
LEMMA Reading ==
  ASSUME TypeOK, NEW o \in Op, o.kind \in {"updated", "paid"}
  PROVE  /\ Renewed(o) \in [Tokens -> Row \cup {NoRow}]
         /\ \A t \in Live : Renewed(o)[t] \in Row
         /\ o.kind = "paid" => \A t \in Live : Renewed(o)[t].expires = o.until
<1> DEFINE e == IF o.kind = "updated" /\ ~o.active THEN 0 ELSE o.until
<1>1. e \in Period /\ (o.kind = "paid" => e = o.until)
  BY OpFields, Nulls
<1>2. ASSUME NEW t \in Live
      PROVE  Renewed(o)[t] \in Row /\ Renewed(o)[t].expires = e
  <2>1. tokens[t] \in Row /\ t \in Tokens
    BY DEF Live
  <2>2. Renewed(o)[t] = [tokens[t] EXCEPT !.expires = e]
    BY <2>1 DEF Renewed
  <2>3. QED
    BY <1>1, <2>1, <2>2, RowEdit
<1>3. ASSUME NEW t \in Tokens \ Live
      PROVE  Renewed(o)[t] = NoRow
  BY DEF Renewed
<1>4. Renewed(o) = [t \in Tokens |-> Renewed(o)[t]]
  BY DEF Renewed
<1>5. QED
  BY <1>1, <1>2, <1>3, <1>4

LEMMA KeptByLoad ==
  ASSUME TypeOK, NEW c \in Calls, Kept(c), Load(c)
  PROVE  Kept(c)'
<1>1. /\ op'[c] \in Op /\ op'[c].kind \in {"updated", "paid"}
      /\ op' \in [Calls -> Op \cup {NoOp}]
      /\ op'[c].kind = "paid" => pc[c] \in {"idle", "done"} /\ need[c] = 0
      /\ op'[c].kind = "updated" => pc[c] = "counted" /\ op'[c] = op[c]
  <2>1. CASE pc[c] = "counted" /\ UNCHANGED op
    BY <2>1 DEF Kept, StageOK, TypeOK
  <2>2. CASE \E o \in Op : o.kind = "paid" /\ Begin(c, o)
    BY <2>2 DEF Kept, StageOK, TypeOK, Begin
  <2>3. QED
    BY <2>1, <2>2 DEF Load
<1>2. /\ Renewed(op'[c]) \in [Tokens -> Row \cup {NoRow}]
      /\ \A t \in Live : Renewed(op'[c])[t] \in Row
      /\ op'[c].kind = "paid" => \A t \in Live : Renewed(op'[c])[t].expires = op'[c].until
  BY <1>1, Reading
<1>3. /\ pc' = [pc EXCEPT ![c] = "saving"] /\ work' = [work EXCEPT ![c] = Renewed(op'[c])]
      /\ tokens' = tokens /\ now' = now /\ need' = need /\ disturbed' = disturbed
  BY DEF Load, Goto
<1>4. TypeOK'
  BY <1>1, <1>2, <1>3 DEF TypeOK, Stage
<1>5. pc'[c] = "saving" /\ work'[c] = Renewed(op'[c]) /\ op'[c] # NoOp /\ Live' = Live
  BY <1>1, <1>3, NullAssumption DEF TypeOK, Live
<1>6. StageOK(c)'
  BY <1>1, <1>3, <1>5 DEF StageOK
<1>7. ASSUME op'[c].kind = "paid", NEW t \in Live'
      PROVE  t \in Pending(c)' /\ work'[c][t].expires = op'[c].until
  BY <1>2, <1>5, <1>7, Nulls DEF Pending, Live
<1>8. c \in disturbed' \/ AloneOK(c)'
  BY <1>1, <1>3, <1>5, <1>7 DEF Kept, AloneOK
<1>9. QED
  BY <1>4, <1>6, <1>8 DEF Kept

LEMMA KeptBySaveExpiry ==
  ASSUME TypeOK, NEW c \in Calls, Kept(c), NEW t \in Tokens, SaveExpiry(c, t)
  PROVE  Kept(c)'
<1>1. work[c][t] \in Row /\ pc[c] = "saving"
  BY DEF SaveExpiry, TypeOK
<1>2. /\ tokens' \in [Tokens -> Row \cup {Unborn, Gone}]
      /\ Live' = Live
      /\ t \in Live => tokens'[t] = work[c][t]
      /\ \A u \in Tokens \ {t} : tokens'[u] = tokens[u]
  BY <1>1, Saving DEF SaveExpiry
<1>3. /\ work' = [work EXCEPT ![c][t] = NoRow] /\ pc' = pc /\ op' = op /\ need' = need
      /\ now' = now /\ disturbed' = disturbed \cup Others(c)
  BY DEF SaveExpiry, Written
<1>4. TypeOK'
  BY <1>2, <1>3 DEF TypeOK, Others
<1>5. StageOK(c)'
  BY <1>1, <1>3 DEF Kept, StageOK
<1>6. c \in disturbed' <=> c \in disturbed
  BY <1>3 DEF Others
<1>7. /\ work'[c][t] = NoRow
      /\ \A u \in Tokens \ {t} : work'[c][u] = work[c][u]
  BY <1>3 DEF TypeOK
<1>8. Pending(c)' = Pending(c) \ {t} /\ t \in Pending(c)
  BY <1>1, <1>7, Nulls DEF Pending
<1>9. ASSUME c \notin disturbed
      PROVE  AloneOK(c)'
  <2>1. AloneOK(c)
    BY <1>9 DEF Kept
  <2>2. CASE op[c].kind = "updated"
    BY <1>1, <1>2, <1>3, <2>1, <2>2 DEF AloneOK
  <2>3. CASE op[c].kind = "paid"
    <3>1. ASSUME NEW u \in Live
          PROVE  IF u \in Pending(c)' THEN work'[c][u].expires = op[c].until
                 ELSE tokens'[u].expires = op[c].until
      BY <1>1, <1>2, <1>7, <1>8, <2>1, <2>3 DEF AloneOK, Live
    <3>2. QED
      BY <1>1, <1>2, <1>3, <2>3, <3>1 DEF AloneOK
  <2>4. QED
    BY <1>1, <2>2, <2>3 DEF Kept, StageOK
<1>10. QED
  BY <1>4, <1>5, <1>6, <1>9 DEF Kept

LEMMA KeptBySaved ==
  ASSUME TypeOK, NEW c \in Calls, Kept(c), Saved(c)
  PROVE  Kept(c)'
<1>1. tokens' = tokens /\ now' = now /\ pc[c] = "saving"
  BY DEF Saved
<1>2. CASE need[c] = 0 /\ Leave(c, "done")
  BY <1>1, <1>2, Ending DEF Leave, TypeOK
<1>3. CASE /\ need[c] # 0
           /\ Goto(c, IF need[c] > 0 THEN "adding" ELSE "choosing")
           /\ UNCHANGED <<op, work, need, disturbed>>
  <2>1. need[c] \in Int /\ op[c].kind = "updated"
    BY <1>1, <1>3 DEF TypeOK, Kept, StageOK
  <2>2. TypeOK'
    BY <1>1, <1>3 DEF TypeOK, Goto, Stage
  <2>3. /\ pc'[c] \in {"adding", "choosing"}
        /\ pc'[c] = "adding" => need[c] > 0
        /\ pc'[c] = "choosing" => need[c] < 0
    BY <1>3, <2>1 DEF TypeOK, Goto
  <2>4. StageOK(c)'
    BY <1>1, <1>3, <2>1, <2>3 DEF Kept, StageOK
  <2>5. Live' = Live
    BY <1>1 DEF Live
  <2>6. c \in disturbed' \/ AloneOK(c)'
    BY <1>1, <1>3, <2>1, <2>3, <2>5 DEF Kept, AloneOK
  <2>7. QED
    BY <2>2, <2>4, <2>6 DEF Kept
<1>4. QED
  BY <1>2, <1>3 DEF Saved

LEMMA KeptByAdd ==
  ASSUME TypeOK, NEW c \in Calls, Kept(c), Add(c)
  PROVE  /\ Kept(c)'
         /\ Cardinality(Live') = Cardinality(Live) + 1
<1>1. /\ op[c] \in Op /\ op[c].kind = "updated" /\ need[c] \in Int /\ need[c] > 0
      /\ pc[c] = "adding"
  BY DEF Kept, StageOK, Add, TypeOK
<1>2. Unassigned(op[c].until) \in Row /\ Cardinality(Live) \in Nat
  BY <1>1, OpFields, Nulls, LiveFinite DEF Live
<1>3. PICK S \in New(1) : Insert(S, Unassigned(op[c].until))
  BY DEF Add
<1>4. /\ tokens' \in [Tokens -> Row \cup {Unborn, Gone}]
      /\ Cardinality(Live') = Cardinality(Live) + 1
  BY <1>2, <1>3, Inserting
<1>5. CASE need[c] = 1 /\ WriteAndLeave(c)
  <2>1. Forget(c, "done") /\ now' = now /\ disturbed' \subseteq Calls
    BY <1>5 DEF Add, WriteAndLeave, Others, TypeOK
  <2>2. QED
    BY <1>4, <2>1, Ending
<1>6. CASE /\ need[c] # 1 /\ Written(c) /\ need' = [need EXCEPT ![c] = @ - 1]
           /\ UNCHANGED <<pc, op, work>>
  <2>1. now' = now /\ (c \in disturbed' <=> c \in disturbed) /\ disturbed' \subseteq Calls
    BY <1>6 DEF Add, Written, Others, TypeOK
  <2>2. need' \in [Calls -> Int] /\ need'[c] = need[c] - 1 /\ need'[c] > 0
    <3>1. need[c] - 1 \in Int /\ need[c] - 1 > 0
      BY <1>1, <1>6
    <3>2. need' \in [Calls -> Int] /\ need'[c] = need[c] - 1
      BY <1>6, <3>1 DEF TypeOK
    <3>3. QED
      BY <3>1, <3>2
  <2>3. TypeOK'
    BY <1>4, <1>6, <2>1, <2>2 DEF TypeOK
  <2>4. StageOK(c)'
    BY <1>1, <1>6, <2>2 DEF Kept, StageOK
  <2>5. op[c].quantity \in Int
    BY <1>1, QuantityIsPositive
  <2>6. c \in disturbed \/ need'[c] = op[c].quantity - Cardinality(Live')
    <3>1. c \in disturbed \/ need[c] = op[c].quantity - Cardinality(Live)
      BY <1>1 DEF Kept, AloneOK
    <3>2. QED
      BY <1>1, <1>2, <1>4, <2>2, <2>5, <3>1, Missing
  <2>7. c \in disturbed' \/ AloneOK(c)'
    BY <1>1, <1>6, <2>1, <2>6 DEF AloneOK
  <2>8. QED
    BY <1>4, <2>3, <2>4, <2>7 DEF Kept
<1>7. QED
  BY <1>4, <1>5, <1>6 DEF Add

LEMMA KeptByChoose ==
  ASSUME TypeOK, NEW c \in Calls, Kept(c), Choose(c)
  PROVE  Kept(c)'
<1>1. /\ op[c] \in Op /\ op[c].kind = "updated" /\ need[c] \in Int /\ need[c] < 0
      /\ pc[c] = "choosing"
  BY DEF Kept, StageOK, Choose, TypeOK
<1>2. PICK S \in SUBSET Live :
        /\ \/ Cardinality(S) = 0 - need[c]
           \/ S = Live /\ Cardinality(S) < 0 - need[c]
        /\ work' = [work EXCEPT ![c] = Ids(S)]
  BY DEF Choose
<1>3. /\ pc' = [pc EXCEPT ![c] = "dropping"] /\ tokens' = tokens /\ now' = now
      /\ op' = op /\ need' = need /\ disturbed' = disturbed
  BY DEF Choose, Goto
<1>4. Ids(S) \in [Tokens -> Row \cup {NoRow}]
  BY Nulls DEF Ids
<1>5. TypeOK'
  BY <1>2, <1>3, <1>4 DEF TypeOK, Stage
<1>6. pc'[c] = "dropping" /\ work'[c] = Ids(S) /\ Live' = Live
  BY <1>2, <1>3 DEF TypeOK, Live
<1>7. StageOK(c)'
  BY <1>1, <1>3, <1>6 DEF Kept, StageOK
<1>8. Pending(c)' = S
  BY <1>2, <1>6, Nulls DEF Pending, Ids, Live
<1>9. ASSUME c \notin disturbed
      PROVE  AloneOK(c)'
  <2>1. /\ IsFiniteSet(Live) /\ IsFiniteSet(S)
        /\ Cardinality(Live) \in Nat /\ Cardinality(S) \in Nat
    BY <1>2, LiveFinite DEF Live
  <2>2. op[c].quantity \in Int /\ op[c].quantity > 0
    BY <1>1, QuantityIsPositive
  <2>3. need[c] = op[c].quantity - Cardinality(Live)
    BY <1>1, <1>9 DEF Kept, AloneOK
  <2>4. Cardinality(S) = 0 - need[c]
    <3>1. S # Live \/ ~(Cardinality(S) < 0 - need[c])
      BY <2>1, <2>2, <2>3
    <3>2. QED
      BY <1>2, <3>1
  <2>5. Cardinality(Live \ S) = Cardinality(Live) - Cardinality(Live \cap S)
    BY <2>1, FS_Difference
  <2>6. Live \cap S = S
    BY <1>2
  <2>7. Cardinality(Live \ S) = op[c].quantity
    <3>1. Cardinality(Live) - (0 - need[c]) = op[c].quantity
      BY <1>1, <2>1, <2>2, <2>3, Missing
    <3>2. QED
      BY <2>4, <2>5, <2>6, <3>1
  <2>8. QED
    BY <1>2, <1>3, <1>6, <1>8, <2>7 DEF AloneOK
<1>10. QED
  BY <1>3, <1>5, <1>7, <1>9 DEF Kept

LEMMA KeptByDrop ==
  ASSUME TypeOK, NEW c \in Calls, Kept(c), NEW t \in Tokens, Drop(c, t)
  PROVE  Kept(c)'
<1>1. pc[c] = "dropping" /\ work[c][t] # NoRow
  BY DEF Drop
<1>2. tokens' \in [Tokens -> Row \cup {Unborn, Gone}] /\ Live' = Live \ {t}
  BY Deleting DEF Drop
<1>3. /\ work' = [work EXCEPT ![c][t] = NoRow] /\ pc' = pc /\ op' = op /\ need' = need
      /\ now' = now /\ disturbed' = disturbed \cup Others(c)
  BY DEF Drop, Written
<1>4. TypeOK'
  BY <1>2, <1>3 DEF TypeOK, Others
<1>5. StageOK(c)'
  BY <1>1, <1>3 DEF Kept, StageOK
<1>6. c \in disturbed' <=> c \in disturbed
  BY <1>3 DEF Others
<1>7. /\ work'[c][t] = NoRow
      /\ \A u \in Tokens \ {t} : work'[c][u] = work[c][u]
  BY <1>3 DEF TypeOK
<1>8. Pending(c)' = Pending(c) \ {t} /\ t \in Pending(c)
  BY <1>1, <1>7 DEF Pending
<1>9. Live' \ Pending(c)' = Live \ Pending(c)
  BY <1>2, <1>8
<1>10. c \in disturbed' \/ AloneOK(c)'
  BY <1>1, <1>2, <1>3, <1>6, <1>8, <1>9 DEF Kept, AloneOK
<1>11. QED
  BY <1>4, <1>5, <1>10 DEF Kept

LEMMA KeptByFetchToken ==
  ASSUME TypeOK, NEW c \in Calls, Kept(c), FetchToken(c)
  PROVE  Kept(c)'
<1>1. PICK o \in Op : /\ o.kind = "assign" /\ o.token \in Live /\ Begin(c, o)
                      /\ work' = [work EXCEPT ![c][o.token] = tokens[o.token]]
  BY DEF FetchToken
<1>2. o.token \in Tokens /\ tokens[o.token] \in Row /\ o # NoOp
  BY <1>1, NullAssumption DEF Live
<1>3. /\ pc' = [pc EXCEPT ![c] = "fetched"] /\ op' = [op EXCEPT ![c] = o]
      /\ tokens' = tokens /\ now' = now /\ need' = need /\ disturbed' = disturbed
  BY <1>1 DEF FetchToken, Goto, Begin
<1>4. TypeOK'
  BY <1>1, <1>2, <1>3 DEF TypeOK, Stage
<1>5. pc'[c] = "fetched" /\ op'[c] = o /\ work'[c][o.token] = tokens[o.token]
  BY <1>1, <1>2, <1>3 DEF TypeOK
<1>6. StageOK(c)' /\ AloneOK(c)'
  BY <1>1, <1>2, <1>3, <1>5 DEF StageOK, AloneOK
<1>7. QED
  BY <1>4, <1>6 DEF Kept

LEMMA KeptByCheckGuild ==
  ASSUME TypeOK, NEW c \in Calls, Kept(c), CheckGuild(c)
  PROVE  Kept(c)'
<1>1. tokens' = tokens /\ now' = now /\ pc[c] = "fetched"
  BY DEF CheckGuild
<1>2. CASE Leave(c, "done")
  BY <1>1, <1>2, Ending DEF Leave, TypeOK
<1>3. CASE /\ ~(Taken(op[c].guild) /\ work[c][op[c].token].guild # op[c].guild)
           /\ Goto(c, "free") /\ UNCHANGED <<op, work, need, disturbed>>
  <2>1. TypeOK'
    BY <1>1, <1>3 DEF TypeOK, Goto, Stage
  <2>2. pc'[c] = "free"
    BY <1>3 DEF TypeOK, Goto
  <2>3. StageOK(c)'
    BY <1>1, <1>3, <2>2 DEF Kept, StageOK
  <2>4. Taken(op[c].guild)' <=> Taken(op[c].guild)
    BY <1>1, <1>3 DEF Taken, Live, Valid
  <2>5. c \in disturbed' \/ AloneOK(c)'
    BY <1>1, <1>3, <2>2, <2>4 DEF Kept, AloneOK
  <2>6. QED
    BY <2>1, <2>3, <2>5 DEF Kept
<1>4. QED
  BY <1>2, <1>3 DEF CheckGuild

LEMMA KeptByAssign ==
  ASSUME TypeOK, NEW c \in Calls, Kept(c), Assign(c)
  PROVE  Kept(c)'
<1> DEFINE r == [work[c][op[c].token] EXCEPT !.guild = op[c].guild]
<1>1. /\ op[c] \in Op /\ op[c].kind = "assign" /\ work[c][op[c].token] \in Row
  BY DEF Kept, StageOK, Assign, TypeOK
<1>2. op[c].token \in Tokens /\ r \in Row
  BY <1>1, OpFields, RowEdit
<1>3. Save(op[c].token, r)
  BY DEF Assign
<1>4. tokens' \in [Tokens -> Row \cup {Unborn, Gone}]
  BY <1>2, <1>3, Saving
<1>5. Forget(c, "done") /\ now' = now /\ disturbed' \subseteq Calls
  BY DEF Assign, WriteAndLeave, Others, TypeOK
<1>6. QED
  BY <1>4, <1>5, Ending

LEMMA KeptByRevoke ==
  ASSUME TypeOK, NEW c \in Calls, Kept(c), Revoke(c)
  PROVE  Kept(c)'
<1>1. tokens' \in [Tokens -> Row \cup {Unborn, Gone}]
  BY Deleting DEF Revoke, Live
<1>2. Forget(c, "done") /\ now' = now /\ disturbed' \subseteq Calls
  BY DEF Revoke, WriteAndLeave, Others, TypeOK
<1>3. QED
  BY <1>1, <1>2, Ending

(* So the call that steps keeps its part of the invariant, and the step    *)
(* keeps that of the others.                                               *)
LEMMA KeptBySelf ==
  ASSUME TypeOK, NEW c \in Calls, Kept(c), CallStep(c)
  PROVE  Kept(c)'
<1>1. CASE Created(c)
  BY <1>1, KeptByExists, KeptByCreateTokens DEF Created
<1>2. CASE Updated(c)
  <2>1. CASE Dropped(c)
    BY <2>1, Ending DEF Dropped, Leave, TypeOK
  <2>2. QED
    BY <1>2, <2>1, KeptByCount, KeptByLoad, KeptBySaved, KeptByAdd, KeptByChoose,
       KeptByRevoke, KeptBySaveExpiry, KeptByDrop DEF Updated
<1>3. CASE Managed(c)
  BY <1>3, KeptByFetchToken, KeptByCheckGuild, KeptByAssign DEF Managed
<1>4. CASE Abort(c)
  BY <1>4, Ending DEF Abort, Leave, TypeOK
<1>5. QED
  BY <1>1, <1>2, <1>3, <1>4 DEF CallStep

LEMMA KeptByOther ==
  ASSUME TypeOK, NEW c \in Calls, CallStep(c), NEW d \in Calls \ {c}, Kept(d), TypeOK'
  PROVE  Kept(d)'
<1>1. /\ pc'[d] = pc[d] /\ op'[d] = op[d] /\ work'[d] = work[d] /\ need'[d] = need[d]
      /\ now' = now
      /\ d \in disturbed => d \in disturbed'
      /\ d \notin disturbed' => pc[d] \in {"idle", "done"} \/ tokens' = tokens
  BY Frame
<1>2. StageOK(d)'
  BY <1>1 DEF Kept, StageOK
<1>3. CASE d \in disturbed'
  BY <1>2, <1>3 DEF Kept
<1>4. CASE d \notin disturbed' /\ pc[d] \in {"idle", "done"}
  BY <1>1, <1>2, <1>4 DEF Kept, AloneOK
<1>5. CASE d \notin disturbed' /\ tokens' = tokens
  <2>1. AloneOK(d)
    BY <1>1, <1>5 DEF Kept
  <2>2. Live' = Live /\ Pending(d)' = Pending(d)
    BY <1>1, <1>5 DEF Live, Pending
  <2>3. Taken(op[d].guild)' <=> Taken(op[d].guild)
    BY <1>1, <1>5, <2>2 DEF Taken, Valid
  <2>4. AloneOK(d)'
    BY <1>1, <1>5, <2>1, <2>2, <2>3 DEF AloneOK
  <2>5. QED
    BY <1>2, <2>4 DEF Kept
<1>6. QED
  BY <1>1, <1>3, <1>4, <1>5
-----------------------------------------------------------------------------
(* And the clock. *)
LEMMA KeptByTick ==
  ASSUME TypeOK, NEW c \in Calls, Kept(c), Tick
  PROVE  Kept(c)'
<1>1. /\ tokens' = tokens /\ pc' = pc /\ op' = op /\ work' = work /\ need' = need
      /\ disturbed' = disturbed /\ now \in Int /\ now' = now + 1 /\ now' \in Period
  BY ConstantsAssumption DEF Tick, TypeOK, Period, calls
<1>2. TypeOK'
  BY <1>1 DEF TypeOK
<1>3. Live' = Live /\ Pending(c)' = Pending(c)
  BY <1>1 DEF Live, Pending
<1>4. ASSUME NEW t \in Live, Valid(t)'
      PROVE  Valid(t)
  <2>1. tokens[t].expires \in Int
    BY ConstantsAssumption DEF Live, Row, Period
  <2>2. QED
    BY <1>1, <1>4, <2>1 DEF Valid
<1>5. Taken(op[c].guild)' => Taken(op[c].guild)
  BY <1>1, <1>3, <1>4 DEF Taken
<1>6. StageOK(c)'
  BY <1>1 DEF Kept, StageOK
<1>7. c \in disturbed' \/ AloneOK(c)'
  BY <1>1, <1>3, <1>5 DEF Kept, AloneOK
<1>8. QED
  BY <1>2, <1>6, <1>7 DEF Kept

(* The step of the invariant, from the lemmas above. *)
LEMMA IInvStep == IInv /\ [Next]_vars => IInv'
<1> SUFFICES ASSUME IInv, [Next]_vars PROVE IInv'
  OBVIOUS
<1>1. TypeOK /\ \A c \in Calls : Kept(c)
  BY DEF IInv, Kept
<1>2. ASSUME NEW c \in Calls, CallStep(c)
      PROVE  TypeOK' /\ \A d \in Calls : Kept(d)'
  <2>1. Kept(c)'
    BY <1>1, <1>2, KeptBySelf
  <2>2. TypeOK'
    BY <2>1 DEF Kept
  <2>3. QED
    BY <1>1, <1>2, <2>1, <2>2, KeptByOther
<1>3. CASE Tick
  <2>1. TypeOK'
    BY <1>1, <1>3, ConstantsAssumption DEF Tick, TypeOK, Period, calls
  <2>2. QED
    BY <1>1, <1>3, <2>1, KeptByTick DEF IInv, Kept
<1>4. CASE UNCHANGED vars
  <2>1. /\ tokens' = tokens /\ now' = now /\ pc' = pc /\ op' = op /\ work' = work
        /\ need' = need /\ disturbed' = disturbed
    BY <1>4 DEF vars, calls
  <2>2. TypeOK'
    BY <1>1, <2>1 DEF TypeOK
  <2>3. ASSUME NEW c \in Calls
        PROVE  StageOK(c)' /\ (c \in disturbed' \/ AloneOK(c)')
    <3>1. Live' = Live /\ Pending(c)' = Pending(c)
      BY <2>1 DEF Live, Pending
    <3>2. Taken(op[c].guild)' <=> Taken(op[c].guild)
      BY <2>1, <3>1 DEF Taken, Valid
    <3>3. StageOK(c) /\ (c \in disturbed \/ AloneOK(c))
      BY <1>1 DEF Kept
    <3>4. StageOK(c)'
      BY <2>1, <3>3 DEF StageOK
    <3>5. c \in disturbed' \/ AloneOK(c)'
      BY <2>1, <3>1, <3>2, <3>3 DEF AloneOK
    <3>6. QED
      BY <3>4, <3>5
  <2>4. QED
    BY <2>2, <2>3 DEF IInv
<1>5. CASE \E c \in Calls : CallStep(c)
  BY <1>2, <1>5 DEF IInv, Kept
<1>6. QED
  BY <1>3, <1>4, <1>5 DEF Next, CallStep

(* And the invariant of every behaviour. *)
LEMMA Invariant == Spec => []IInv
  BY Initially, IInvStep, PTL DEF Spec

(* TypeOK holds in every state: what is saved is a row, whatever was read  *)
(* before.                                                                 *)
THEOREM TypeCorrect == Spec => []TypeOK
<1>1. IInv => TypeOK
  BY DEF IInv
<1>2. QED
  BY <1>1, Invariant, PTL

(* A call that was under way and is done now has made one of these steps.  *)
LEMMA Endings ==
  ASSUME IInv, [Next]_vars, NEW c \in Calls, op[c] # NoOp, pc'[c] = "done"
  PROVE  \/ CreateTokens(c)
         \/ Saved(c) /\ need[c] = 0
         \/ Add(c) /\ need[c] = 1
         \/ Dropped(c)
         \/ CheckGuild(c)
         \/ Assign(c)
<1>1. TypeOK /\ pc[c] \notin {"idle", "done"}
  BY DEF IInv, StageOK
<1>2. pc' # pc
  BY <1>1
<1>3. PICK d \in Calls : CallStep(d)
  BY <1>2 DEF Next, CallStep, Tick, vars, calls
<1>4. d = c
  BY <1>1, <1>3, Frame
<1>5. ~Exists(c) /\ ~Count(c) /\ ~Load(c) /\ ~FetchToken(c) /\ ~Choose(c)
  BY <1>1 DEF Exists, Count, Load, FetchToken, Choose, Goto, TypeOK
<1>6. ~Revoke(c) /\ ~Abort(c)
  BY <1>1 DEF Revoke, Abort, Leave, Forget, Goto, TypeOK
<1>7. ~\E t \in Tokens : SaveExpiry(c, t) \/ Drop(c, t)
  BY <1>1, <1>2 DEF SaveExpiry, Drop
<1>8. Saved(c) => need[c] = 0
  BY <1>1 DEF Saved, Goto, TypeOK
<1>9. Add(c) => need[c] = 1
  BY <1>2 DEF Add
<1>10. QED
  BY <1>3, <1>4, <1>5, <1>6, <1>7, <1>8, <1>9 DEF CallStep, Created, Updated, Managed

(* QuantityIsKept: an update or a creation that nothing overlaps leaves as *)
(* many tokens as were paid for, however wrong their number was before.    *)
THEOREM QuantityKept == Spec => QuantityIsKept
<1> DEFINE A == \A c \in Calls :
                  EndsAlone(c, "updated") \/ EndsAlone(c, "created") =>
                    Cardinality(Live') = op[c].quantity
<1>1. IInv /\ [Next]_vars => A
  <2> SUFFICES ASSUME IInv, [Next]_vars, NEW c \in Calls,
                      EndsAlone(c, "updated") \/ EndsAlone(c, "created")
               PROVE  Cardinality(Live') = op[c].quantity
    OBVIOUS
  <2>1. /\ op[c] # NoOp /\ op[c].kind \in {"updated", "created"} /\ pc'[c] = "done"
        /\ TypeOK /\ StageOK(c) /\ AloneOK(c) /\ Kept(c)
    BY DEF EndsAlone, IInv, Kept
  <2>2. op[c] \in Op
    BY <2>1 DEF TypeOK
  <2>3. op[c].quantity \in Int /\ Cardinality(Live) \in Int
    BY <2>1, <2>2, QuantityIsPositive, LiveFinite DEF Live
  <2>4. CASE CreateTokens(c)
    <3>1. Cardinality(Live) = 0
      BY <2>1, <2>4, FS_EmptySet DEF AloneOK, CreateTokens
    <3>2. QED
      BY <2>1, <2>3, <2>4, <3>1, KeptByCreateTokens
  <2>5. CASE Saved(c) /\ need[c] = 0
    <3>1. Live' = Live /\ pc[c] = "saving"
      BY <2>5 DEF Saved, Live
    <3>2. op[c].kind = "updated"
      BY <2>1, <3>1 DEF StageOK
    <3>3. 0 = op[c].quantity - Cardinality(Live)
      BY <2>1, <2>5, <3>1, <3>2 DEF AloneOK
    <3>4. QED
      BY <2>3, <3>1, <3>3
  <2>6. CASE Add(c) /\ need[c] = 1
    <3>1. 1 = op[c].quantity - Cardinality(Live)
      BY <2>1, <2>6 DEF AloneOK, StageOK, Add
    <3>2. Cardinality(Live') = Cardinality(Live) + 1
      BY <2>1, <2>6, KeptByAdd
    <3>3. QED
      BY <2>3, <3>1, <3>2
  <2>7. CASE Dropped(c)
    <3>1. Pending(c) = {} /\ Live' = Live
      BY <2>7 DEF Dropped, Pending, Nothing, Live
    <3>2. Cardinality(Live \ Pending(c)) = op[c].quantity
      BY <2>1, <2>7 DEF AloneOK, Dropped
    <3>3. Live \ Pending(c) = Live
      BY <3>1
    <3>4. QED
      BY <3>1, <3>2, <3>3
  <2>8. CASE CheckGuild(c) \/ Assign(c)
    BY <2>1, <2>8 DEF StageOK, CheckGuild, Assign
  <2>9. QED
    BY <2>1, <2>4, <2>5, <2>6, <2>7, <2>8, Endings
<1>2. QED
  BY <1>1, Invariant, PTL DEF Spec, QuantityIsKept

(* RenewalReachesAll: a renewal that nothing overlaps leaves no token with *)
(* the expiry it had.                                                      *)
THEOREM RenewalReached == Spec => RenewalReachesAll
<1> DEFINE A == \A c \in Calls :
                  EndsAlone(c, "paid") => \A t \in Live' : tokens'[t].expires = op[c].until
<1>1. IInv /\ [Next]_vars => A
  <2> SUFFICES ASSUME IInv, [Next]_vars, NEW c \in Calls, EndsAlone(c, "paid"), NEW t \in Live'
               PROVE  tokens'[t].expires = op[c].until
    OBVIOUS
  <2>1. /\ op[c] # NoOp /\ op[c].kind = "paid" /\ pc'[c] = "done"
        /\ StageOK(c) /\ AloneOK(c)
    BY DEF EndsAlone, IInv
  <2>2. Saved(c)
    BY <2>1, Endings DEF StageOK, CreateTokens, Add, Dropped, CheckGuild, Assign
  <2>3. pc[c] = "saving" /\ tokens' = tokens /\ Live' = Live /\ t \notin Pending(c)
    BY <2>2 DEF Saved, Live, Pending, Nothing
  <2>4. QED
    BY <2>1, <2>3 DEF AloneOK
<1>2. QED
  BY <1>1, Invariant, PTL DEF Spec, RenewalReachesAll

(* RevokedStaysRevoked: a handler that has read a token before it was      *)
(* deleted does not bring it back, nor does a new token take its place.    *)
THEOREM RevokedForEver == Spec => RevokedStaysRevoked
<1> DEFINE A == \A t \in Tokens : tokens[t] = Gone => tokens'[t] = Gone
<1>1. IInv /\ [Next]_vars => A
  <2> SUFFICES ASSUME IInv, [Next]_vars, NEW t \in Tokens, tokens[t] = Gone
               PROVE  tokens'[t] = Gone
    OBVIOUS
  <2>1. TypeOK /\ t \notin Live
    BY Nulls DEF IInv, Live
  <2>2. ASSUME NEW n, NEW S \in New(n), NEW r, Insert(S, r)
        PROVE  tokens'[t] = Gone
    BY <2>2, NullAssumption DEF New, Insert
  <2>3. ASSUME NEW u \in Tokens, NEW r, Save(u, r)
        PROVE  tokens'[t] = Gone
    BY <2>1, <2>3 DEF Save, TypeOK
  <2>4. ASSUME NEW S, Delete(S)
        PROVE  tokens'[t] = Gone
    BY <2>1, <2>4 DEF Delete
  <2>5. ASSUME NEW c \in Calls, CallStep(c)
        PROVE  tokens'[t] = Gone
    <3>1. CASE Created(c)
      BY <2>2, <3>1 DEF Created, Exists, CreateTokens
    <3>2. CASE Updated(c)
      <4>1. CASE Count(c) \/ Load(c) \/ Saved(c) \/ Choose(c) \/ Dropped(c)
        BY <4>1 DEF Count, Load, Saved, Choose, Dropped
      <4>2. CASE Add(c) \/ Revoke(c)
        BY <2>2, <2>4, <4>2 DEF Add, Revoke
      <4>3. CASE \E u \in Tokens : SaveExpiry(c, u) \/ Drop(c, u)
        BY <2>3, <2>4, <4>3 DEF SaveExpiry, Drop
      <4>4. QED
        BY <3>2, <4>1, <4>2, <4>3 DEF Updated
    <3>3. CASE FetchToken(c) \/ CheckGuild(c) \/ Abort(c)
      BY <3>3 DEF FetchToken, CheckGuild, Abort
    <3>4. CASE Assign(c)
      <4>1. op[c].token \in Tokens
        BY <3>4, OpFields DEF IInv, StageOK, Assign, TypeOK
      <4>2. QED
        BY <2>3, <3>4, <4>1 DEF Assign
    <3>5. QED
      BY <2>5, <3>1, <3>2, <3>3, <3>4 DEF CallStep, Managed
  <2>6. QED
    BY <2>5 DEF Next, CallStep, Tick, vars
<1>2. QED
  BY <1>1, Invariant, PTL DEF Spec, RevokedStaysRevoked

(* NoSecondPremium: where nothing overlaps an assignment, the question it  *)
(* asked about the guild still has the same answer when it is saved.       *)
THEOREM OnePremium == Spec => NoSecondPremium
<1> DEFINE A == \A c \in Calls :
       EndsAlone(c, "assign") /\ pc[c] = "free" /\ op[c].guild # NoGuild
         /\ tokens[op[c].token].guild # op[c].guild =>
           \A t \in Live' \ {op[c].token} : tokens'[t].guild = op[c].guild => ~Valid(t)'
<1>1. IInv /\ [Next]_vars => A
  <2> SUFFICES ASSUME IInv, [Next]_vars, NEW c \in Calls,
                      EndsAlone(c, "assign"), pc[c] = "free", op[c].guild # NoGuild,
                      tokens[op[c].token].guild # op[c].guild,
                      NEW t \in Live' \ {op[c].token}, tokens'[t].guild = op[c].guild
               PROVE  ~Valid(t)'
    OBVIOUS
  <2> DEFINE r == [work[c][op[c].token] EXCEPT !.guild = op[c].guild]
  <2>1. /\ op[c] # NoOp /\ op[c].kind = "assign" /\ pc'[c] = "done"
        /\ TypeOK /\ StageOK(c) /\ AloneOK(c)
    BY DEF EndsAlone, IInv
  <2>2. Assign(c)
    BY <2>1, Endings DEF CreateTokens, Saved, Add, Dropped, CheckGuild
  <2>3. op[c] \in Op /\ work[c][op[c].token] \in Row
    BY <2>1 DEF StageOK, TypeOK
  <2>4. op[c].token \in Tokens /\ r \in Row
    BY <2>1, <2>3, OpFields, RowEdit
  <2>5. Save(op[c].token, r) /\ now' = now
    BY <2>2 DEF Assign
  <2>6. Live' = Live /\ \A u \in Tokens \ {op[c].token} : tokens'[u] = tokens[u]
    BY <2>1, <2>4, <2>5, Saving
  <2>7. t \in Live /\ tokens'[t] = tokens[t]
    BY <2>6 DEF Live
  <2>8. ~Taken(op[c].guild)
    BY <2>1 DEF AloneOK
  <2>9. QED
    BY <2>5, <2>7, <2>8 DEF Taken, Valid
<1>2. QED
  BY <1>1, Invariant, PTL DEF Spec, NoSecondPremium
-----------------------------------------------------------------------------
(* "Make one token per entry."  The step that makes one too many is that of *)
(* a handler which makes tokens although another one has written since it   *)
(* counted them.                                                            *)
Overrun ==
  OneTokenPerEntry /\ ~OneTokenPerEntry' => \E c \in disturbed : CreateTokens(c) \/ Add(c)

(* A step that makes no token leaves at most those there were.             *)
LEMMA FewerFit ==
  ASSUME TypeOK, TypeOK', OneTokenPerEntry, Live' \subseteq Live
  PROVE  OneTokenPerEntry'
<1>1. Live \in SUBSET Tokens /\ Live' \in SUBSET Tokens
  BY DEF Live
<1>2. /\ IsFiniteSet(Live) /\ Cardinality(Live) \in Nat /\ Cardinality(Live') \in Nat
      /\ Cardinality(Live') <= Cardinality(Live)
  BY <1>1, LiveFinite, FS_Subset
<1>3. PICK q \in Quantities : Cardinality(Live) <= q
  BY DEF OneTokenPerEntry
<1>4. q \in Nat
  BY ConstantsAssumption
<1>5. Cardinality(Live') <= q
  BY <1>2, <1>3, <1>4
<1> QED
  BY <1>3, <1>5 DEF OneTokenPerEntry

(* One that makes some had counted those there are.                        *)
LEMMA MadeFit ==
  ASSUME TypeOK, NEW c \in Calls, Kept(c), c \notin disturbed,
         CreateTokens(c) \/ Add(c)
  PROVE  OneTokenPerEntry'
<1>1. /\ op[c] \in Op /\ op[c].kind \in {"created", "updated"} /\ AloneOK(c) /\ StageOK(c)
      /\ need[c] \in Int
  BY DEF Kept, StageOK, CreateTokens, Add, TypeOK
<1>2. op[c].quantity \in Quantities /\ op[c].quantity \in Int
  BY <1>1, OpFields, QuantityIsPositive
<1>3. CASE CreateTokens(c)
  <2>1. Live = {}
    BY <1>1, <1>3 DEF AloneOK, CreateTokens
  <2>2. Cardinality(Live) = 0
    BY <2>1, FS_EmptySet
  <2>3. Cardinality(Live') = op[c].quantity
    BY <1>2, <1>3, <2>2, KeptByCreateTokens
  <2> QED
    BY <1>2, <2>3 DEF OneTokenPerEntry
<1>4. CASE Add(c)
  <2>1. need[c] > 0 /\ need[c] = op[c].quantity - Cardinality(Live)
    BY <1>1, <1>4 DEF Add, AloneOK, StageOK
  <2>2. Cardinality(Live') = Cardinality(Live) + 1 /\ Cardinality(Live) \in Nat
    BY <1>4, KeptByAdd, LiveFinite DEF Live
  <2>3. Cardinality(Live') <= op[c].quantity
    BY <1>1, <1>2, <2>1, <2>2
  <2> QED
    BY <1>2, <2>3 DEF OneTokenPerEntry
<1> QED
  BY <1>3, <1>4

(* There are no more tokens than the subscription has ever had entries,    *)
(* until a handler makes some that counted before another one wrote:       *)
(* handle_customer_subscription_updated counts outside of a transaction,   *)
(* and handle_customer_subscription_created looks before its own, and the  *)
(* run in which two are made for one entry shows what comes of that.  No   *)
(* other step, in whatever order events, renewals and assignments come,    *)
(* makes one too many.                                                     *)
THEOREM TokensPerEntry ==
  ASSUME Quantities # {}
  PROVE  Spec => OneTokenPerEntry /\ [][Overrun]_vars
<1>1. Init => OneTokenPerEntry
  <2> SUFFICES ASSUME Init PROVE OneTokenPerEntry
    OBVIOUS
  <2>1. Live = {}
    BY Nulls DEF Init, Live
  <2>2. Cardinality(Live) = 0
    BY <2>1, FS_EmptySet
  <2>3. PICK q \in Quantities : TRUE
    OBVIOUS
  <2>4. q \in Nat
    BY ConstantsAssumption
  <2>5. Cardinality(Live) <= q
    BY <2>2, <2>4
  <2> QED
    BY <2>5 DEF OneTokenPerEntry
<1>2. IInv /\ IInv' /\ [Next]_vars => Overrun
  <2> SUFFICES ASSUME IInv, IInv', OneTokenPerEntry, [Next]_vars,
                      \A c \in disturbed : ~CreateTokens(c) /\ ~Add(c)
               PROVE  OneTokenPerEntry'
    BY DEF Overrun
  <2>1. TypeOK /\ TypeOK'
    BY DEF IInv
  <2>2. ASSUME NEW c \in Calls, CreateTokens(c) \/ Add(c)
        PROVE  OneTokenPerEntry'
    <3>1. c \notin disturbed
      BY <2>2
    <3>2. Kept(c)
      BY DEF IInv, Kept
    <3> QED
      BY <2>1, <2>2, <3>1, <3>2, MadeFit
  <2>3. ASSUME NEW c \in Calls, CallStep(c), ~CreateTokens(c), ~Add(c)
        PROVE  Live' \subseteq Live
    <3>1. CASE \/ Exists(c) \/ Count(c) \/ Load(c) \/ Saved(c) \/ Choose(c) \/ Dropped(c)
               \/ FetchToken(c) \/ CheckGuild(c) \/ Abort(c)
      BY <3>1 DEF Exists, Count, Load, Saved, Choose, Dropped, FetchToken, CheckGuild,
                  Abort, Live
    <3>2. ASSUME NEW t, NEW r, Save(t, r)
          PROVE  Live' \subseteq Live
      BY <2>1, <3>2 DEF Save, TypeOK, Live
    <3>3. ASSUME NEW S, Delete(S)
          PROVE  Live' \subseteq Live
      BY <2>1, <3>3, Nulls DEF Delete, TypeOK, Live
    <3>4. CASE Revoke(c) \/ \E t \in Tokens : SaveExpiry(c, t) \/ Drop(c, t)
      BY <3>2, <3>3, <3>4 DEF Revoke, SaveExpiry, Drop
    <3>5. CASE Assign(c)
      BY <3>2, <3>5 DEF Assign
    <3> QED
      BY <2>3, <3>1, <3>4, <3>5 DEF CallStep, Created, Updated, Managed
  <2>4. CASE Tick \/ UNCHANGED vars
    <3>1. Live' = Live
      BY <2>4 DEF Tick, vars, Live
    <3> QED
      BY <2>1, <3>1, FewerFit
  <2>5. ASSUME NEW c \in Calls, CallStep(c)
        PROVE  OneTokenPerEntry'
    BY <2>1, <2>2, <2>3, <2>5, FewerFit
  <2> QED
    BY <2>4, <2>5 DEF Next, CallStep
<1> QED
  BY <1>1, <1>2, Invariant, PTL DEF Spec
=============================================================================
