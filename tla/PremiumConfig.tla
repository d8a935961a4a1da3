---------------------------- MODULE PremiumConfig ----------------------------
(***************************************************************************)
(* The premium settings of one guild and the custom cooldown on its        *)
(* suggestions.                                                            *)
(*                                                                         *)
(* Moderators change the row in premium_guild_configs through buttons and  *)
(* modals (GuildPremiumMenu).  Before a suggestion is created, the cooldown*)
(* of the guild is consulted (run_custom_suggestion_cooldown_check): its   *)
(* state, the counts of all users, is read from one Redis key, counted up  *)
(* in memory and written back.  Texts are abstracted to what decides about *)
(* them, and a behaviour is shorter than the cooldown's period.            *)
(***************************************************************************)
EXTENDS Integers

CONSTANTS
  Admins,       (* interactions of moderators with the premium menu      *)
  Attempts,     (* suggestions under way that are checked                *)
  Suggesters,   (* the users who make them                               *)
  Amount,       (* suggestions per period that a cooldown allows         *)
  TextSettings, (* the texts an instance looks at                        *)
  Texts,        (* what may be written into a text field                 *)
  Pings,        (* those of them that name @everyone or @here            *)
  CustomBot,    (* IS_CUSTOM_BOT                                         *)
  MaxEdits,     (* bound: no menu interaction starts after so many saves *)
  Unset         (* SQL NULL, an absent key, an empty field               *)

ASSUME PremiumConfigAssumption ==
  /\ Amount \in Nat \ {0}
  /\ TextSettings \subseteq {"suggestions_prefix", "queued_suggestions_prefix",
                             "suggestion_button_message_prefix",
                             "suggestion_button_message"}
  /\ Unset \notin Texts /\ Pings \subseteq Texts
  /\ CustomBot \in BOOLEAN
  /\ MaxEdits \in Nat

Text == [text : Texts \cup {Unset}, roles : BOOLEAN]
Blank == [text |-> Unset, roles |-> FALSE]
Settings == [texts : [TextSettings -> Text], cooldown_amount : {Unset, Amount}]
Counts == [Suggesters -> Nat]
NoCounts == [u \in Suggesters |-> 0]

VARIABLES
  settings,    (* the row                                                  *)
  enabled,     (* premium_is_enabled()                                     *)
  counts,      (* the cooldown's state in Redis; no key is no counts       *)
  doing,       (* how far each menu interaction has come                   *)
  wish,        (* what it is to change                                     *)
  held,        (* the copy of the row it works on                          *)
  trying,      (* how far each check has come                              *)
  who,         (* its user                                                 *)
  loaded,      (* the state it has counted up in memory                    *)
  refusal,     (* it found the user on cooldown                            *)
  edits,       (* history: saves of the row so far                         *)
  removed,     (* history: the cooldown was removed and not set since      *)
  used,        (* history: suggestions each user was allowed under a       *)
               (* cooldown since the last reset, until the first race      *)
  raced        (* history: a stale copy was saved, of the row or the counts*)

menuVars == <<settings, doing, wish, held, edits, removed>>
checkVars == <<trying, who, loaded, refusal>>
premiumVars == <<menuVars, checkVars, enabled, counts, used, raced>>
-----------------------------------------------------------------------------
(* What a moderator may submit. *)

PrefixModals == TextSettings \cap {"suggestions_prefix", "queued_suggestions_prefix"}
ButtonTexts == TextSettings \ PrefixModals

Submissions ==
  [modal : PrefixModals, text : Texts \cup {Unset}, roles : BOOLEAN]
  \cup [modal : {"suggest_button_message"}, text : Texts \cup {Unset}]
  \cup [modal : {"custom_cooldowns"}, numeric : BOOLEAN]
  \* The bot's name and avatar are Discord's to keep.
  \cup [modal : {"custom_name", "custom_avatar"}]

(* The buttons of the menu: all but one open a modal. *)
Remove == [modal |-> "remove_custom_cooldowns"]
build_premium_components == {[modal |-> s.modal] : s \in Submissions} \cup {Remove}

(* The answers that are refused or concern Discord only: nothing is saved. *)
Unsaved(s) ==
  \/ s.modal \in {"custom_name", "custom_avatar"}
  \/ s.modal \in PrefixModals /\ s.text \in Pings /\ ~CustomBot
  \/ s.modal = "custom_cooldowns" /\ ~s.numeric

Changed(row, s) ==
  CASE s.modal \in PrefixModals ->
         [row EXCEPT !.texts[s.modal] = [text |-> s.text, roles |-> s.roles]]
    [] s.modal = "suggest_button_message" ->
         [row EXCEPT !.texts = [t \in TextSettings |->
            IF t \in ButtonTexts THEN [text |-> s.text, roles |-> FALSE]
                                 ELSE row.texts[t]]]
    [] s.modal = "custom_cooldowns" -> [row EXCEPT !.cooldown_amount = Amount]
    [] s.modal = "remove_custom_cooldowns" -> [row EXCEPT !.cooldown_amount = Unset]

Doing == {"idle", "modal", "save", "delete"}
Trying == {"idle", "fetched", "counted"}

PremiumTypeOK ==
  /\ settings \in Settings /\ enabled \in BOOLEAN /\ counts \in Counts
  /\ doing \in [Admins -> Doing]
  /\ wish \in [Admins -> Submissions \cup build_premium_components \cup {Unset}]
  /\ held \in [Admins -> Settings \cup {Unset}]
  /\ trying \in [Attempts -> Trying]
  /\ who \in [Attempts -> Suggesters \cup {Unset}]
  /\ loaded \in [Attempts -> Counts]
  /\ refusal \in [Attempts -> BOOLEAN]
  /\ edits \in Nat /\ removed \in BOOLEAN /\ used \in Counts /\ raced \in BOOLEAN

PremiumInit ==
  /\ settings = [texts |-> [t \in TextSettings |-> Blank], cooldown_amount |-> Unset]
  /\ enabled = TRUE /\ counts = NoCounts
  /\ doing = [a \in Admins |-> "idle"]
  /\ wish = [a \in Admins |-> Unset]
  /\ held = [a \in Admins |-> Unset]
  /\ trying = [t \in Attempts |-> "idle"]
  /\ who = [t \in Attempts |-> Unset]
  /\ loaded = [t \in Attempts |-> NoCounts]
  /\ refusal = [t \in Attempts |-> FALSE]
  /\ edits = 0 /\ removed = FALSE /\ used = NoCounts /\ raced = FALSE
-----------------------------------------------------------------------------
(* The premium menu *)

At(a, d) == doing[a] = d
Step(a, d) == doing' = [doing EXCEPT ![a] = d]
Done(a) ==
  /\ Step(a, "idle")
  /\ wish' = [wish EXCEPT ![a] = Unset]
  /\ held' = [held EXCEPT ![a] = Unset]

(* Premium runs out (a behaviour ends before it is bought again). *)
PremiumEnds ==
  /\ enabled
  /\ enabled' = FALSE
  /\ UNCHANGED <<menuVars, checkVars, counts, used, raced>>

(* A button of the menu opens a modal, if the guild has premium by then. *)
OpenModal(a, b) ==
  /\ At(a, "idle") /\ enabled /\ edits < MaxEdits
  /\ b # Remove
  /\ Step(a, "modal")
  /\ wish' = [wish EXCEPT ![a] = b]
  /\ UNCHANGED <<settings, held, edits, removed, checkVars, enabled, counts, used, raced>>

(* A modal comes back: modal_event fetches the configuration ...  Nobody   *)
(* asks again whether the guild still has premium.                         *)
SubmitModal(a, s) ==
  /\ At(a, "modal") /\ s.modal = wish[a].modal /\ ~Unsaved(s)
  /\ Step(a, "save")
  /\ wish' = [wish EXCEPT ![a] = s]
  /\ held' = [held EXCEPT ![a] = settings]
  /\ UNCHANGED <<settings, edits, removed, checkVars, enabled, counts, used, raced>>

(* ... while the button that removes the cooldown works on the copy that   *)
(* was fetched before premium was checked.                                 *)
PressRemove(a) ==
  /\ At(a, "idle") /\ enabled /\ edits < MaxEdits
  /\ Step(a, "save")
  /\ wish' = [wish EXCEPT ![a] = Remove]
  /\ held' = [held EXCEPT ![a] = settings]
  /\ UNCHANGED <<settings, edits, removed, checkVars, enabled, counts, used, raced>>

(* A submission that is refused, or changes the bot's profile only. *)
RefuseSubmission(a, s) ==
  /\ At(a, "modal") /\ s.modal = wish[a].modal /\ Unsaved(s)
  /\ Done(a)
  /\ UNCHANGED <<settings, edits, removed, checkVars, enabled, counts, used, raced>>

(* premium.save() writes every column of the copy. *)
SaveSubmission(a) ==
  /\ At(a, "save")
  /\ settings' = Changed(held[a], wish[a])
  /\ edits' = edits + 1
  /\ raced' = (raced \/ held[a] # settings)
  /\ IF wish[a] = Remove
     THEN /\ Step(a, "delete")
          /\ UNCHANGED <<wish, held, removed>>
     ELSE /\ Done(a)
          /\ removed' = (removed /\ wish[a].modal # "custom_cooldowns")
  /\ UNCHANGED <<checkVars, enabled, counts, used>>

(* MUTANT of DeleteCounts: the row is changed and the key left alone. *)
DeleteNothing(a) ==
  /\ At(a, "delete")
  /\ Done(a)
  /\ used' = NoCounts
  /\ removed' = (settings.cooldown_amount = Unset)
  /\ UNCHANGED <<settings, edits, checkVars, enabled, counts, raced>>

(* "Delete this so it also resets peoples cooldowns" *)
DeleteCounts(a) ==
  /\ At(a, "delete")
  /\ Done(a)
  /\ counts' = NoCounts
  /\ used' = NoCounts
  /\ removed' = (settings.cooldown_amount = Unset)
  /\ UNCHANGED <<settings, edits, checkVars, enabled, raced>>

(* The modal is dismissed, or the process dies on the way. *)
LeaveMenu(a) ==
  /\ ~At(a, "idle")
  /\ Done(a)
  /\ UNCHANGED <<settings, edits, removed, checkVars, enabled, counts, used, raced>>
-----------------------------------------------------------------------------
(* The cooldown check *)

Trial(t, stage) == trying' = [trying EXCEPT ![t] = stage]
EndTrial(t) ==
  /\ Trial(t, "idle")
  /\ who' = [who EXCEPT ![t] = Unset]
  /\ loaded' = [loaded EXCEPT ![t] = NoCounts]
  /\ refusal' = [refusal EXCEPT ![t] = FALSE]

(* A user submits a suggestion, and the configuration that is fetched has  *)
(* a cooldown.  Without one the check changes nothing and is no step here. *)
Suggest(t, u) ==
  /\ trying[t] = "idle"
  /\ settings.cooldown_amount # Unset
  /\ Trial(t, "fetched")
  /\ who' = [who EXCEPT ![t] = u]
  /\ UNCHANGED <<menuVars, loaded, refusal, enabled, counts, used, raced>>

(* The state is read, and counted up in memory unless the user has used up *)
(* the amount.                                                             *)
CountUp(t) ==
  LET u == who[t] IN
  /\ trying[t] = "fetched"
  /\ Trial(t, "counted")
  /\ refusal' = [refusal EXCEPT ![t] = counts[u] >= Amount]
  /\ loaded' = [loaded EXCEPT ![t] =
                  IF counts[u] >= Amount THEN counts ELSE [counts EXCEPT ![u] = @ + 1]]
  /\ UNCHANGED <<menuVars, who, enabled, counts, used, raced>>

(* What the check read. *)
Read(t) ==
  IF refusal[t] THEN loaded[t] ELSE [loaded[t] EXCEPT ![who[t]] = @ - 1]

(* The whole state is written back, after a refusal too (once the error    *)
(* was persisted and the user told); the suggestion goes ahead if it was   *)
(* not refused.                                                            *)
StoreCounts(t) ==
  /\ trying[t] = "counted"
  /\ counts' = loaded[t]
  /\ raced' = (raced \/ counts # Read(t))
  /\ used' = IF refusal[t] \/ raced' THEN used ELSE [used EXCEPT ![who[t]] = @ + 1]
  /\ EndTrial(t)
  /\ UNCHANGED <<menuVars, enabled>>

(* The process dies, or an await raises (persisting the error does):       *)
(* nothing is written and nothing suggested.                               *)
FailCheck(t) ==
  /\ trying[t] # "idle"
  /\ EndTrial(t)
  /\ UNCHANGED <<menuVars, enabled, counts, used, raced>>

PremiumNext ==
  \/ PremiumEnds
  \/ \E a \in Admins :
       \/ \E b \in build_premium_components : OpenModal(a, b)
       \/ PressRemove(a) \/ SaveSubmission(a) \/ DeleteCounts(a) \/ LeaveMenu(a)
       \/ \E s \in Submissions : SubmitModal(a, s) \/ RefuseSubmission(a, s)
  \/ \E t \in Attempts :
       \/ CountUp(t) \/ StoreCounts(t) \/ FailCheck(t)
       \/ \E u \in Suggesters : Suggest(t, u)

PremiumSpec == PremiumInit /\ [][PremiumNext]_premiumVars
-----------------------------------------------------------------------------
(* Unless a stale copy was saved, the cooldown counts exactly the          *)
(* suggestions it allowed since it was reset: nobody is refused who has    *)
(* some left and nobody gets more than the amount; and a cooldown that was *)
(* removed stays removed until it is set again.                            *)
CooldownIsExact ==
  ~raced =>
    /\ counts = used
    /\ \A u \in Suggesters : used[u] <= Amount
    /\ removed => settings.cooldown_amount = Unset
=============================================================================
