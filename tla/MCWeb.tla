-------------------------------- MODULE MCWeb --------------------------------
(* The parts of the dashboard and of premium, and the weekly job that      *)
(* counts for both.  They share no state in these modules: one part is     *)
(* chosen at the start and runs alone, the others stay as they began.      *)
EXTENDS GuildTokens, Gifts, PremiumConfig, ApiTokens, OAuthLink, WeeklyAggregate

CONSTANT u3   (* a user of commands *)

(* A use may be a vote, and may come with the guild's locale. *)
MCUses ==
  {[user |-> u3, vote |-> TRUE, guild_locale |-> TRUE],
   [user |-> u3, vote |-> FALSE, guild_locale |-> FALSE]}

VARIABLE part

Parts == {"tokens", "gifts", "premium", "api", "oauth", "weeks"}

webVars == <<part, vars, giftVars, premiumVars, apiVars, oauthVars, aggregateVars>>

WebTypeOK ==
  /\ part \in Parts
  /\ TypeOK /\ GiftTypeOK /\ PremiumTypeOK /\ ApiTypeOK /\ OAuthTypeOK
  /\ AggregateTypeOK

WebInit ==
  /\ part \in Parts
  /\ Init /\ GiftInit /\ PremiumInit /\ ApiInit /\ OAuthInit /\ AggregateInit
  /\ part # "oauth" => registration /\ mail = CHOOSE m \in [People -> Emails] : TRUE

In(p, others) == part = p /\ UNCHANGED <<part, others>>

WebNext ==
  \/ In("tokens", <<giftVars, premiumVars, apiVars, oauthVars, aggregateVars>>) /\ Next
  \/ In("gifts", <<vars, premiumVars, apiVars, oauthVars, aggregateVars>>) /\ GiftNext
  \/ In("premium", <<vars, giftVars, apiVars, oauthVars, aggregateVars>>) /\ PremiumNext
  \/ In("api", <<vars, giftVars, premiumVars, oauthVars, aggregateVars>>) /\ ApiNext
  \/ In("oauth", <<vars, giftVars, premiumVars, apiVars, aggregateVars>>) /\ OAuthNext
  \/ In("weeks", <<vars, giftVars, premiumVars, apiVars, oauthVars>>) /\ AggregateNext

WebSpec == WebInit /\ [][WebNext]_webVars
=============================================================================
