----------------------------- MODULE Interactions -----------------------------
(***************************************************************************)
(* From a press to what it does: the bot's two event listeners, the ids    *)
(* that messages and modals carry, and the modals in between.              *)
(*                                                                         *)
(* All the bot knows of a press, and later of a modal, is its custom id    *)
(* (on_component_interaction, modal_event).  Buttons of the bot's previous *)
(* version are still pressed, their ids look different.  A modal offers    *)
(* what the guild's settings allowed when it was built; it stays open as   *)
(* long as its user likes, and the settings change meanwhile.              *)
(*                                                                         *)
(* An id is a name, perhaps an odd character after it, and the fields that *)
(* follow.  The ids that trace a press through the logs are fields without *)
(* a value here.                                                           *)
(***************************************************************************)
EXTENDS Integers, Sequences

CONSTANTS
  Clicks,       (* interactions that may be under way at once              *)
  Clickers,     (* users                                                   *)
  Entries,      (* ids of suggestions and of queued suggestions            *)
  MenuSettings, (* settings that the guild's menus offer                   *)
  MaxSwitches,  (* bound: changes of settings and of the block list        *)
  NoClick       (* nothing pressed, made or open                           *)

ASSUME InteractionsAssumption == MaxSwitches \in Nat

Settings == {"suggestions_channel_id", "can_have_images_in_suggestions",
             "can_have_anonymous_suggestions", "threads_for_suggestions",
             "allow_anonymous_moderators", "uses_suggestion_queue"}

VARIABLES
  on,        (* the guild's settings                                       *)
  blocked,   (* guild_config.blocked_users                                 *)
  switches,  (* history: how often these have changed                      *)
  progress,  (* how far each interaction has come                          *)
  by,        (* its user                                                   *)
  pressed,   (* the component that was pressed                             *)
  routed,    (* the handler that got it, and what about                    *)
  modal,     (* the modal it opened                                        *)
  unwelcome, (* history: interactions whose user was blocked as they began *)
  made       (* what the submitted modal made, under which settings        *)

clickVars == <<progress, by, pressed, routed, modal, unwelcome, made>>
interactionVars == <<on, blocked, switches, clickVars>>
-----------------------------------------------------------------------------
(* What the bot puts on the screen, its ids, and what they mean.           *)

Meaning(handler, how, about) == [handler |-> handler, how |-> how, about |-> about]
Component(id, meaning) == [id |-> id, meaning |-> meaning]
Id(name, odd, fields) == [name |-> name, odd |-> odd, fields |-> fields]
Plain(name, fields) == Id(name, FALSE, fields)
TraceLink == "link"
NoEntry == ""
PageId == "pid"

SettingMenus ==
  {Component(Plain("gcm", <<TraceLink, m>>), Meaning("GuildConfigurationMenus", m, NoEntry))
     : m \in MenuSettings}
  \cup {Component(Plain("ucm", <<TraceLink, "primary_language">>),
                  Meaning("UserConfigurationMenus", "primary_language", NoEntry))}

SuggestButton == Component(Plain("v4_suggest_button", <<>>),
                           Meaning("handle_embedded_button", "", NoEntry))

QueueButtons ==
  {Component(Plain("v4_queued_suggestion", <<how, e>>),
             Meaning("handle_physical_interaction", how, e))
     : how \in {"approve", "reject"}, e \in Entries}

PageButtons ==
  {Component(Plain("v4_queue", <<how, PageId, e, TraceLink>>),
             Meaning("handle_paginator_interaction", how, e))
     : how \in {"approve", "reject"}, e \in Entries}
  \cup {Component(Plain("v4_queue", <<how, PageId, NoEntry, TraceLink>>),
                  Meaning("handle_paginator_interaction", how, NoEntry))
          : how \in {"back", "next", "stop"}}

VoteTypes == {"UpVote", "DownVote"}
Vote(e, type) == Meaning("handle_vote", type, e)

VoteButtons ==
  {Component(Plain(IF t = "UpVote" THEN "v4_suggestions_up_vote"
                   ELSE "v4_suggestions_down_vote", <<e>>),
             Vote(e, t)) : e \in Entries, t \in VoteTypes}

(* Buttons of the previous version.  A physical queue's have no id in them *)
(* and are known by their message.                                         *)
LegacyButtons ==
  {Component(Id(IF t = "UpVote" THEN "suggestion_up_vote" ELSE "suggestion_down_vote",
                odd, <<e>>),
             Vote(e, t)) : e \in Entries, t \in VoteTypes, odd \in BOOLEAN}
  \cup {Component(Id(IF t = "UpVote" THEN "SuggestionUpVote" ELSE "SuggestionDownVote",
                     odd, <<e>>),
                  Vote(e, t)) : e \in Entries, t \in VoteTypes, odd \in BOOLEAN}
  \cup {Component(Id(IF how = "approve" THEN "queue_approve" ELSE "queue_reject", odd, <<>>),
                  Meaning("handle_physical_interaction", how, NoEntry))
          : how \in {"approve", "reject"}, odd \in BOOLEAN}

Components ==
  UNION {SettingMenus, {SuggestButton}, QueueButtons, PageButtons, VoteButtons, LegacyButtons}

(* on_component_interaction. *)
Routed(id) ==
  CASE id.name = "gcm" -> Meaning("GuildConfigurationMenus", id.fields[2], NoEntry)
    [] id.name = "ucm" -> Meaning("UserConfigurationMenus", id.fields[2], NoEntry)
    [] id.name = "v4_suggest_button" -> Meaning("handle_embedded_button", "", NoEntry)
    \* "not endswith("e") or not endswith("t")": a character always goes, and
    \* without an odd one "queue approv" is a key nobody handles.
    [] id.name \in {"queue_approve", "queue_reject"} ->
         IF id.odd
         THEN Meaning("handle_physical_interaction",
                      IF id.name = "queue_approve" THEN "approve" ELSE "reject", NoEntry)
         ELSE Meaning("Unknown Component Key", "", NoEntry)
    [] id.name = "v4_queued_suggestion" ->
         Meaning("handle_physical_interaction",
                 IF id.fields[1] = "approve" THEN "approve" ELSE "reject", id.fields[2])
    [] id.name = "v4_queue" ->
         Meaning("handle_paginator_interaction", id.fields[1], id.fields[3])
    [] id.name \in {"suggestion_up_vote", "suggestion_down_vote"} ->
         Vote(id.fields[1], IF id.name = "suggestion_up_vote" THEN "UpVote" ELSE "DownVote")
    [] id.name \in {"SuggestionUpVote", "SuggestionDownVote"} ->
         Vote(id.fields[1], IF id.name = "SuggestionUpVote" THEN "UpVote" ELSE "DownVote")
    [] id.name \in {"v4_suggestions_up_vote", "v4_suggestions_down_vote"} ->
         Vote(id.fields[1], IF id.name = "v4_suggestions_up_vote" THEN "UpVote" ELSE "DownVote")
-----------------------------------------------------------------------------
(* Modals: an id, and the fields they offer beside the text.               *)

Modal(name, about, offers) == [id |-> Plain(name, <<TraceLink, about>>), offers |-> offers]
Offered(field, setting) == IF on[setting] THEN {field} ELSE {}

build_suggest_modal ==
  Modal("suggest_modal", NoEntry,
        Offered("files", "can_have_images_in_suggestions")
          \cup Offered("anonymously", "can_have_anonymous_suggestions")
          \cup Offered("thread_name", "threads_for_suggestions"))

build_queue_modal(e) ==
  Modal("queue_resolve_modal", e,
        Offered("anonymously", "allow_anonymous_moderators")
          \cup Offered("thread_name", "threads_for_suggestions"))

build_resolve_modal(e) ==
  Modal("resolve_modal", e, Offered("anonymously", "allow_anonymous_moderators"))

ModalNames == {"suggest_modal", "queue_resolve_modal", "resolve_modal"}
Outcomes == {"refused", "suggestion", "queued", "resolved"}

(* What a user enters into the fields that are offered. *)
Inputs(m) == SUBSET m.offers

Outcome(what, input, about) ==
  [what |-> what, about |-> about, under |-> on,
   images |-> "files" \in input, anonymous |-> "anonymously" \in input]

(* MUTANT of handle_interaction: the modal offered it, so it is allowed. *)
handle_interaction_trusting(m, input) ==
  IF on["uses_suggestion_queue"]
  THEN Outcome("queued", input, NoEntry) ELSE Outcome("suggestion", input, NoEntry)

(* SuggestionMenu.handle_interaction.  A modal that offered files comes    *)
(* back with that field, filled in or not.                                 *)
handle_interaction(m, input) ==
  IF \/ "files" \in m.offers /\ ~on["can_have_images_in_suggestions"]
     \/ "anonymously" \in input /\ ~on["can_have_anonymous_suggestions"]
  THEN Outcome("refused", {}, NoEntry)
  ELSE IF on["uses_suggestion_queue"]
  THEN Outcome("queued", input, NoEntry) ELSE Outcome("suggestion", input, NoEntry)

(* resolve_suggestion asks again whether moderators may be anonymous, the  *)
(* queue's approve and reject do not.                                      *)
resolve_suggestion(m, input) ==
  IF "anonymously" \in input /\ ~on["allow_anonymous_moderators"]
  THEN Outcome("refused", {}, m.id.fields[2])
  ELSE Outcome("resolved", input, m.id.fields[2])

handle_modal_interaction(m, input) == Outcome("resolved", input, m.id.fields[2])
-----------------------------------------------------------------------------
Modals ==
  {Modal(name, about, offers) : name \in ModalNames, about \in Entries \cup {NoEntry},
     offers \in SUBSET {"files", "anonymously", "thread_name"}}

InteractionsTypeOK ==
  /\ on \in [Settings -> BOOLEAN]
  /\ blocked \subseteq Clickers
  /\ switches \in 0 .. MaxSwitches
  /\ progress \in [Clicks -> {"idle", "open", "done"}]
  /\ by \in [Clicks -> Clickers \cup {NoClick}]
  /\ pressed \in [Clicks -> Components \cup {NoClick}]
  /\ routed \in [Clicks -> {c.meaning : c \in Components}
                   \cup {Meaning("Unknown Component Key", "", NoEntry), NoClick}]
  /\ modal \in [Clicks -> Modals \cup {NoClick}]
  /\ unwelcome \subseteq Clicks
  /\ \A c \in Clicks : made[c] # NoClick => made[c].what \in Outcomes

InteractionsInit ==
  /\ \E ready \in BOOLEAN :
       on = [s \in Settings |->
               IF s = "suggestions_channel_id" THEN ready
               ELSE s \notin {"allow_anonymous_moderators", "uses_suggestion_queue"}]
  /\ blocked = {} /\ switches = 0
  /\ progress = [c \in Clicks |-> "idle"]
  /\ by = [c \in Clicks |-> NoClick]
  /\ pressed = [c \in Clicks |-> NoClick]
  /\ routed = [c \in Clicks |-> NoClick]
  /\ modal = [c \in Clicks |-> NoClick]
  /\ unwelcome = {}
  /\ made = [c \in Clicks |-> NoClick]

(* A moderator changes a setting (GuildConfig says how).  The suggestions  *)
(* channel, once set, stays set.                                           *)
Switch(s) ==
  /\ switches < MaxSwitches
  /\ s = "suggestions_channel_id" => ~on[s]
  /\ switches' = switches + 1
  /\ on' = [on EXCEPT ![s] = ~@]
  /\ UNCHANGED <<blocked, clickVars>>

ChangeBlocklist(u) ==
  /\ switches < MaxSwitches
  /\ switches' = switches + 1
  /\ blocked' = IF u \in blocked THEN blocked \ {u} ELSE blocked \cup {u}
  /\ UNCHANGED <<on, clickVars>>

Begin(c, u) ==
  /\ progress[c] = "idle"
  /\ by' = [by EXCEPT ![c] = u]
  /\ unwelcome' = IF u \in blocked THEN unwelcome \cup {c} ELSE unwelcome
  /\ UNCHANGED <<on, blocked, switches, made>>

Open(c, m) ==
  /\ progress' = [progress EXCEPT ![c] = "open"]
  /\ modal' = [modal EXCEPT ![c] = m]

End(c) ==
  /\ progress' = [progress EXCEPT ![c] = "done"]
  /\ UNCHANGED modal

(* A component is pressed.  The suggest button and the buttons of a queued *)
(* suggestion open a modal, and so may a page; the other handlers act at   *)
(* once (UserConfig, GuildConfig, QueuePages, SuggestionLifecycle).        *)
PressComponent(c, u, w) ==
  LET r == Routed(w.id) IN
  /\ Begin(c, u)
  /\ pressed' = [pressed EXCEPT ![c] = w]
  /\ routed' = [routed EXCEPT ![c] = r]
  /\ CASE r.handler = "handle_embedded_button" ->
            IF on["suggestions_channel_id"] THEN Open(c, build_suggest_modal) ELSE End(c)
       [] r.how \in {"approve", "reject"} -> \* what is gone or resolved opens none
            \/ Open(c, build_queue_modal(r.about))
            \/ End(c)
       [] OTHER -> End(c)

(* /suggest, for those who are not blocked. *)
SlashSuggest(c, u) ==
  /\ Begin(c, u)
  /\ IF on["suggestions_channel_id"] /\ u \notin blocked
     THEN Open(c, build_suggest_modal)
     ELSE End(c)
  /\ UNCHANGED <<pressed, routed>>

(* The message command "resolve". *)
ResolveMessage(c, u, e) ==
  /\ Begin(c, u)
  /\ Open(c, build_resolve_modal(e)) \/ End(c)
  /\ UNCHANGED <<pressed, routed>>

(* modal_event. *)
SubmitModal(c, input) ==
  LET m == modal[c] IN
  /\ progress[c] = "open"
  /\ made' = [made EXCEPT ![c] =
       CASE m.id.name = "suggest_modal" -> handle_interaction(m, input)
         [] m.id.name = "queue_resolve_modal" -> handle_modal_interaction(m, input)
         [] m.id.name = "resolve_modal" -> resolve_suggestion(m, input)]
  /\ End(c)
  /\ UNCHANGED <<on, blocked, switches, by, pressed, routed, unwelcome>>

(* The modal is closed, or a handler fails. *)
CloseModal(c) ==
  /\ progress[c] = "open"
  /\ End(c)
  /\ UNCHANGED <<on, blocked, switches, by, pressed, routed, unwelcome, made>>

InteractionsNext ==
  \/ \E s \in Settings : Switch(s)
  \/ \E u \in Clickers : ChangeBlocklist(u)
  \/ \E c \in Clicks :
       \/ \E u \in Clickers :
            \/ \E w \in Components : PressComponent(c, u, w)
            \/ SlashSuggest(c, u)
            \/ \E e \in Entries : ResolveMessage(c, u, e)
       \/ progress[c] = "open" /\ \E input \in Inputs(modal[c]) : SubmitModal(c, input)
       \/ CloseModal(c)

InteractionsSpec == InteractionsInit /\ [][InteractionsNext]_interactionVars
-----------------------------------------------------------------------------
(* A press does what was put on the screen, about the suggestion it was put *)
(* there for, in the old form of an id as in the new: approving rejects     *)
(* nothing, and no vote goes to another suggestion, nor does a modal that   *)
(* was opened on the way.  (Queue buttons of the old form need their odd    *)
(* character.)  And what a modal makes keeps to the settings of the moment  *)
(* it is submitted, not to those it was built under: no images, no          *)
(* anonymous author and no way around the queue when that has been turned   *)
(* off or on meanwhile.                                                     *)
DoesWhatWasMeant ==
  \A c \in Clicks :
    /\ pressed[c] # NoClick /\ (pressed[c].id.name \in {"queue_approve", "queue_reject"}
                                  => pressed[c].id.odd) =>
         /\ routed[c] = pressed[c].meaning
         /\ made[c] # NoClick => made[c].about = pressed[c].meaning.about
    /\ made[c] # NoClick /\ made[c].what \in {"suggestion", "queued"} =>
         /\ made[c].images => made[c].under["can_have_images_in_suggestions"]
         /\ made[c].anonymous => made[c].under["can_have_anonymous_suggestions"]
         /\ (made[c].what = "queued") = made[c].under["uses_suggestion_queue"]
    /\ made[c] # NoClick /\ modal[c].id.name = "resolve_modal" /\ made[c].anonymous =>
         made[c].under["allow_anonymous_moderators"]

(* "I have added that user to the blocklist. They will be unable to create *)
(* suggestions in the future.": no suggestion stems from an interaction    *)
(* that its user began when they were on the block list.                   *)
BlockedCannotSuggest ==
  \A c \in unwelcome : made[c] # NoClick => made[c].what \notin {"suggestion", "queued"}
=============================================================================
