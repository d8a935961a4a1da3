----------------------------- MODULE GuildConfig -----------------------------
(***************************************************************************)
(* The settings of one guild: the row in guild_configs, the menus that show *)
(* it, and the handlers that change it (GuildConfigurationMenus and the    *)
(* /blocklist commands).                                                   *)
(*                                                                         *)
(* Every handler fetches a copy of the row, making the row first when the  *)
(* guild has none, waits for Discord, changes its copy and saves the whole *)
(* of it.  Handlers of several moderators overlap in every order.  How     *)
(* settings look and what they are called is left out; channel names are   *)
(* labels only.                                                            *)
(***************************************************************************)
EXTENDS UserConfig

CONSTANTS
  Handlers,         (* interactions that may be under way at once          *)
  Channels,         (* text channels of the guild                          *)
  Authors,          (* users whose suggestions a moderator may act on      *)
  BoolSettings,     (* the yes/no settings an instance looks at            *)
  MaxSaves          (* bound: no interaction starts after so many saves    *)

AllBoolSettings ==
  {"threads_for_suggestions", "auto_archive_threads", "ping_on_thread_creation",
   "can_have_anonymous_suggestions", "can_have_images_in_suggestions",
   "allow_anonymous_moderators"}

ChannelSettings ==
  {"suggestions_channel_id", "log_channel_id", "update_channel_id",
   "queued_suggestion_channel_id", "queued_suggestion_log_channel_id"}

GuildRow == [channel : [ChannelSettings -> Channels \cup {None}],
             bool : [BoolSettings -> BOOLEAN],
             keep_logs : BOOLEAN,
             generic_dm_messages_disabled : BOOLEAN,
             uses_suggestion_queue : BOOLEAN,
             virtual_suggestions_queue : BOOLEAN,
             primary_language_raw : Languages,
             blocked_users : SUBSET Authors]

ASSUME GuildConfigAssumption ==
  /\ BoolSettings \subseteq AllBoolSettings
  /\ None \notin Channels /\ None \notin GuildRow
  /\ MaxSaves \in Nat

VARIABLES
  premium_row,   (* the row in premium_guild_configs exists                *)
  guild_row,     (* the row in guild_configs, or None                      *)
  stage,         (* how far each handler has come                          *)
  answer,        (* what the moderator chose                               *)
  config,        (* the copy of the row a handler works on                 *)
  saves,         (* history: how many handlers have saved                  *)
  seen,          (* history: saves when a handler fetched its copy         *)
  intended,      (* history: the row, had each answer been applied at once *)
  overtaken      (* history: a handler saved a copy others had outdated    *)

configHistory == <<saves, seen, intended, overtaken>>
configVars == <<premium_row, guild_row, stage, answer, config, configHistory>>
-----------------------------------------------------------------------------
(* The menus (Option, Select, YesNo and LanguageMenu are UserConfig's).    *)

(* A channel menu shows the channel's name as a placeholder and has no     *)
(* default: what is set is not one of the answers it marks.                *)
ChannelMenu(id) == Select(id, {Option(c, FALSE) : c \in Channels})

BoolMenus(row, ids) == {YesNo(id, row.bool[id]) : id \in ids \cap BoolSettings}

QueueMenu(row) ==
  LET uses == row.uses_suggestion_queue
      virtual == row.virtual_suggestions_queue
  IN  Select("suggestions_queue", {Option("none", ~uses),
                                   Option("virtual", uses /\ virtual),
                                   Option("channel", uses /\ ~virtual)})

build_queue_components(row) ==
  {ChannelMenu("queued_suggestion_channel_id"),
   ChannelMenu("queued_suggestion_log_channel_id")}

build_log_channel_components(row) == {ChannelMenu("log_channel_id")}

build_setup_components(row) ==
  {ChannelMenu("suggestions_channel_id"), ChannelMenu("log_channel_id"),
   QueueMenu(row), ChannelMenu("send_suggestions_button"),
   ChannelMenu("update_channel_id")}
  \cup BoolMenus(row, {"threads_for_suggestions"})

build_base_components_page_1(row) ==
  {ChannelMenu("suggestions_channel_id"), ChannelMenu("send_suggestions_button")}
  \cup BoolMenus(row, AllBoolSettings \ {"allow_anonymous_moderators"})

LogMenu(row) ==
  Select("log_channel",
         {Option("same_channel", row.keep_logs),
          Option("dedicated_channel",
                 ~row.keep_logs /\ row.channel["log_channel_id"] # None)})

build_base_components_page_2(row) ==
  {LogMenu(row), QueueMenu(row), LanguageMenu(row), ChannelMenu("update_channel_id"),
   YesNo("generic_dm_messages_disabled", ~row.generic_dm_messages_disabled)}
  \cup BoolMenus(row, {"allow_anonymous_moderators"})

Menus(row) ==
  UNION {build_queue_components(row), build_log_channel_components(row),
         build_setup_components(row), build_base_components_page_1(row),
         build_base_components_page_2(row)}
-----------------------------------------------------------------------------
(* The answers, and what a handler makes of its copy of the row.           *)

SettingAnswers ==
  {Chosen(id, c) : id \in ChannelSettings, c \in Channels}
  \* Only this menu may be emptied (min_values=0), which changes nothing.
  \cup {Chosen("update_channel_id", None)}
  \cup {Chosen(id, v) : id \in BoolSettings \cup {"generic_dm_messages_disabled"},
                        v \in {"yes", "no"}}
  \cup {Chosen("primary_language", l) : l \in Languages}
  \cup {Chosen("log_channel", v) : v \in {"same_channel", "dedicated_channel"}}
  \cup {Chosen("suggestions_queue", v) : v \in {"none", "virtual", "channel"}}
  \cup {Chosen("send_suggestions_button", c) : c \in Channels}
ViewAnswers == {Chosen("view", page) : page \in {"page_1", "page_2", "premium"}}
BlocklistAnswers == {Chosen(id, u) : id \in {"block", "unblock"}, u \in Authors}
Answers == SettingAnswers \cup ViewAnswers \cup BlocklistAnswers

SetChannel(row, id, c) ==
  IF c = None THEN row
  ELSE LET set == [row EXCEPT !.channel[id] = c]
       IN  CASE id = "log_channel_id" -> [set EXCEPT !.keep_logs = FALSE]
             [] id = "queued_suggestion_channel_id" ->
                  [set EXCEPT !.uses_suggestion_queue = TRUE,
                              !.virtual_suggestions_queue = FALSE]
             [] OTHER -> set

(* MUTANT of SetQueue: the channel is forgotten when the queue is turned   *)
(* off, but that the queue was a channel is not.                           *)
SetQueueLoosely(row, v) ==
  CASE v = "none" -> [row EXCEPT !.uses_suggestion_queue = FALSE]
    [] v = "virtual" -> [row EXCEPT !.uses_suggestion_queue = TRUE,
                                    !.channel["queued_suggestion_channel_id"] = None]
    [] v = "channel" -> row

(* "channel" only asks which channel; that answer turns the queue on. *)
SetQueue(row, v) ==
  CASE v = "none" -> [row EXCEPT !.uses_suggestion_queue = FALSE]
    [] v = "virtual" -> [row EXCEPT !.uses_suggestion_queue = TRUE,
                                    !.virtual_suggestions_queue = TRUE,
                                    !.channel["queued_suggestion_channel_id"] = None]
    [] v = "channel" -> row

(* MUTANT of SetBool: the flip is forgotten. *)
SetBoolUnflipped(row, id, v) ==
  IF id = "generic_dm_messages_disabled"
  THEN [row EXCEPT !.generic_dm_messages_disabled = (v = "yes")]
  ELSE [row EXCEPT !.bool[id] = (v = "yes")]

(* The direct messages are stored the other way round. *)
SetBool(row, id, v) ==
  IF id = "generic_dm_messages_disabled"
  THEN [row EXCEPT !.generic_dm_messages_disabled = (v = "no")]
  ELSE [row EXCEPT !.bool[id] = (v = "yes")]

(* "same_channel" keeps resolved suggestions where they are; the other     *)
(* answer only asks which channel.                                         *)
SetLog(row, v) == IF v = "same_channel" THEN [row EXCEPT !.keep_logs = TRUE] ELSE row

Block(row, u) == [row EXCEPT !.blocked_users = @ \cup {u}]
Unblock(row, u) == [row EXCEPT !.blocked_users = @ \ {u}]

Answered(row, a) ==
  CASE a.menu \in ChannelSettings -> SetChannel(row, a.menu, a.value)
    [] a.menu \in BoolSettings \cup {"generic_dm_messages_disabled"} ->
         SetBool(row, a.menu, a.value)
    [] a.menu = "primary_language" -> [row EXCEPT !.primary_language_raw = a.value]
    [] a.menu = "log_channel" -> SetLog(row, a.value)
    [] a.menu = "suggestions_queue" -> SetQueue(row, a.value)
    [] a.menu \in {"send_suggestions_button", "view"} -> row
    [] a.menu = "block" -> Block(row, a.value)
    [] a.menu = "unblock" -> Unblock(row, a.value)

(* An answer that is only responded to: nothing is saved. *)
OnlyAnswers(row, a) ==
  \/ a.value = None
  \/ a.menu \in {"send_suggestions_button", "view"}
  \/ a.menu = "log_channel" /\ a.value = "dedicated_channel"
  \/ a.menu = "suggestions_queue" /\ a.value = "channel"
  \/ a.menu = "block" /\ a.value \in row.blocked_users
  \/ a.menu = "unblock" /\ a.value \notin row.blocked_users
-----------------------------------------------------------------------------
(* The row of a guild nobody has configured. *)
NewRow ==
  [channel |-> [id \in ChannelSettings |-> None],
   bool |-> [id \in BoolSettings |-> id # "allow_anonymous_moderators"],
   keep_logs |-> FALSE,
   generic_dm_messages_disabled |-> FALSE,
   uses_suggestion_queue |-> FALSE,
   virtual_suggestions_queue |-> TRUE,
   primary_language_raw |-> DefaultLanguage,
   blocked_users |-> {}]

Stages == {"idle", "guild", "fetch", "answer"}

ConfigTypeOK ==
  /\ premium_row \in BOOLEAN
  /\ guild_row \in GuildRow \cup {None}
  /\ stage \in [Handlers -> Stages]
  /\ answer \in [Handlers -> Answers \cup {None}]
  /\ config \in [Handlers -> GuildRow \cup {None}]
  /\ saves \in Nat /\ seen \in [Handlers -> Nat]
  /\ intended \in GuildRow
  /\ overtaken \in BOOLEAN

ConfigInit ==
  /\ premium_row = FALSE
  /\ guild_row = None
  /\ stage = [h \in Handlers |-> "idle"]
  /\ answer = [h \in Handlers |-> None]
  /\ config = [h \in Handlers |-> None]
  /\ saves = 0 /\ seen = [h \in Handlers |-> 0]
  /\ intended = NewRow
  /\ overtaken = FALSE

Move(h, s) == stage' = [stage EXCEPT ![h] = s]

(* An interaction arrives.  ensure_guild_config first inserts the premium  *)
(* row, ON CONFLICT DO NOTHING, ...                                        *)
EnsurePremium(h, a) ==
  /\ stage[h] = "idle"
  /\ saves < MaxSaves
  /\ answer' = [answer EXCEPT ![h] = a]
  /\ premium_row' = TRUE
  /\ Move(h, "guild")
  /\ UNCHANGED <<guild_row, config, configHistory>>

(* MUTANT of EnsureGuild: the insert of a row that is there resets it. *)
EnsureGuildAnew(h) ==
  /\ stage[h] = "guild"
  /\ guild_row' = NewRow
  /\ Move(h, "fetch")
  /\ UNCHANGED <<premium_row, answer, config, configHistory>>

(* ... then the row that refers to it, the same way, ...                   *)
EnsureGuild(h) ==
  /\ stage[h] = "guild"
  /\ guild_row' = IF guild_row = None THEN NewRow ELSE guild_row
  /\ Move(h, "fetch")
  /\ UNCHANGED <<premium_row, answer, config, configHistory>>

(* ... and selects it.  The interaction is deferred then, and /blocklist   *)
(* looks a suggestion up: others go on meanwhile.                          *)
FetchGuild(h) ==
  /\ stage[h] = "fetch"
  /\ config' = [config EXCEPT ![h] = guild_row]
  /\ seen' = [seen EXCEPT ![h] = saves]
  /\ Move(h, "answer")
  /\ UNCHANGED <<premium_row, guild_row, answer, saves, intended, overtaken>>

Return(h) ==
  /\ Move(h, "idle")
  /\ answer' = [answer EXCEPT ![h] = None]
  /\ config' = [config EXCEPT ![h] = None]
  /\ seen' = [seen EXCEPT ![h] = 0]

(* guild_config.save() writes every column of the copy. *)
SaveAnswer(h) ==
  /\ stage[h] = "answer"
  /\ ~OnlyAnswers(config[h], answer[h])
  /\ guild_row' = Answered(config[h], answer[h])
  /\ intended' = Answered(intended, answer[h])
  /\ saves' = saves + 1
  /\ overtaken' = (overtaken \/ seen[h] # saves)
  /\ Return(h)
  /\ UNCHANGED premium_row

(* Another menu, a message with a button, "already blocked": no save. *)
OnlyRespond(h) ==
  /\ stage[h] = "answer"
  /\ OnlyAnswers(config[h], answer[h])
  /\ Return(h)
  /\ UNCHANGED <<premium_row, guild_row, saves, intended, overtaken>>

(* The process dies, or defer() raises, before the copy is saved. *)
Abandon(h) ==
  /\ stage[h] # "idle"
  /\ Return(h)
  /\ UNCHANGED <<premium_row, guild_row, saves, intended, overtaken>>

ConfigNext ==
  \E h \in Handlers :
    \/ \E a \in Answers : EnsurePremium(h, a)
    \/ EnsureGuild(h) \/ FetchGuild(h) \/ SaveAnswer(h) \/ OnlyRespond(h) \/ Abandon(h)

ConfigSpec == ConfigInit /\ [][ConfigNext]_configVars
-----------------------------------------------------------------------------
(* handle_queued_suggestion saves the queued suggestion before it looks    *)
(* for a queue channel, and gives up when the queue is a channel and there *)
(* is none.                                                                *)
HasQueueChannel(row) ==
  row.uses_suggestion_queue /\ ~row.virtual_suggestions_queue =>
    row.channel["queued_suggestion_channel_id"] # None

(* No order of menu answers, overlapping or not, leaves a guild with a     *)
(* queue that is a channel and without that channel: no queued suggestion  *)
(* is filed where nobody finds it.  Nor does any copy a command works on.  *)
QueueIsReachable ==
  /\ guild_row # None => HasQueueChannel(guild_row)
  /\ \A h \in Handlers : config[h] # None => HasQueueChannel(config[h])

(* Whole-row saves lose an answer only when interactions overlap: as long  *)
(* as no handler saved a copy that another had outdated, the row is what   *)
(* the answers make of a new row, one after the other.                     *)
AnswersStand == guild_row # None /\ ~overtaken => guild_row = intended

(* The menus show what is set.  At most one option of a menu is shown as   *)
(* chosen, and choosing it again changes nothing: what the builders invert *)
(* or derive from several columns, the handlers take apart the same way,   *)
(* for the guild's menus and for the user's.                               *)
ChosenAgainChangesNothing ==
  /\ UserChosenAgain
  /\ guild_row # None =>
       \A m \in Menus(guild_row) : \A o, p \in m.options :
         o.is_default =>
           /\ p.is_default => p = o
           /\ Answered(guild_row, Chosen(m.menu, o.value)) = guild_row
=============================================================================
