----------------------------- MODULE UserConfig ------------------------------
(***************************************************************************)
(* The settings of one user: the row in user_configs, the /configure user  *)
(* menu that shows it, and the handler that changes it                     *)
(* (UserConfigurationMenus).  The user may answer several menus, or one    *)
(* menu on two devices: each interaction fetches the row, making it first, *)
(* changes its copy and saves the whole of it.                             *)
(*                                                                         *)
(* The menu operators are the guild's menus' as well.                      *)
(***************************************************************************)
EXTENDS Naturals

CONSTANTS
  Devices,          (* answers of the user that may be under way at once *)
  Languages,        (* values of the language menu                       *)
  DefaultLanguage,  (* the language of a row nobody has changed          *)
  None              (* SQL NULL, and no row, no answer                   *)

UserRow == [generic_dm_messages_disabled : BOOLEAN,
            ping_on_thread_creation : BOOLEAN,
            primary_language_raw : Languages]

ASSUME UserConfigAssumption == DefaultLanguage \in Languages /\ None \notin UserRow

VARIABLES
  user_row,       (* the row, or None                                      *)
  user_stage,     (* how far each interaction has come                     *)
  user_answer,    (* what was chosen                                       *)
  user_config     (* the copy it works on                                  *)

userVars == <<user_row, user_stage, user_answer, user_config>>
-----------------------------------------------------------------------------
(* Menus.  An option is a value and whether it is shown as chosen.         *)

Option(v, chosen) == [value |-> v, is_default |-> chosen]
Select(id, options) == [menu |-> id, options |-> options]
YesNo(id, on) == Select(id, {Option("yes", on), Option("no", ~on)})
LanguageMenu(row) ==
  Select("primary_language",
         {Option(l, row.primary_language_raw = l) : l \in Languages})

Chosen(id, v) == [menu |-> id, value |-> v]

UserMenus(row) ==
  {YesNo("generic_dm_messages_disabled", ~row.generic_dm_messages_disabled),
   YesNo("ping_on_thread_creation", row.ping_on_thread_creation),
   LanguageMenu(row)}

UserAnswers ==
  {Chosen(id, v) : id \in {"generic_dm_messages_disabled", "ping_on_thread_creation"},
                   v \in {"yes", "no"}}
  \cup {Chosen("primary_language", l) : l \in Languages}

(* The direct messages are stored the other way round. *)
UserAnswered(row, a) ==
  CASE a.menu = "ping_on_thread_creation" ->
         [row EXCEPT !.ping_on_thread_creation = (a.value = "yes")]
    [] a.menu = "generic_dm_messages_disabled" ->
         [row EXCEPT !.generic_dm_messages_disabled = (a.value = "no")]
    [] a.menu = "primary_language" -> [row EXCEPT !.primary_language_raw = a.value]

NewUserRow(locale) ==
  [generic_dm_messages_disabled |-> FALSE, ping_on_thread_creation |-> TRUE,
   primary_language_raw |-> locale]

UserTypeOK ==
  /\ user_row \in UserRow \cup {None}
  /\ user_stage \in [Devices -> {"idle", "fetch", "save"}]
  /\ user_answer \in [Devices -> UserAnswers \cup {None}]
  /\ user_config \in [Devices -> UserRow \cup {None}]

UserInit ==
  /\ user_row = None
  /\ user_stage = [i \in Devices |-> "idle"]
  /\ user_answer = [i \in Devices |-> None]
  /\ user_config = [i \in Devices |-> None]

UserStep(i, s) == user_stage' = [user_stage EXCEPT ![i] = s]

(* ensure_user_config: the row is inserted unless it is there (ON CONFLICT *)
(* DO NOTHING).  Any other interaction of the user does that as well, some *)
(* give the user's locale.                                                 *)
EnsureUser(locale) ==
  /\ user_row = None
  /\ user_row' = NewUserRow(locale)
  /\ UNCHANGED <<user_stage, user_answer, user_config>>

(* An insert that took effect returns the row, one that conflicted nothing. *)
AnswerUserMenu(i, a) ==
  /\ user_stage[i] = "idle"
  /\ user_answer' = [user_answer EXCEPT ![i] = a]
  /\ IF user_row = None
     THEN /\ user_row' = NewUserRow(DefaultLanguage)
          /\ user_config' = [user_config EXCEPT ![i] = user_row']
          /\ UserStep(i, "save")
     ELSE UserStep(i, "fetch") /\ UNCHANGED <<user_row, user_config>>

(* Then the row that is there is selected. *)
FetchUser(i) ==
  /\ user_stage[i] = "fetch"
  /\ user_config' = [user_config EXCEPT ![i] = user_row]
  /\ UserStep(i, "save")
  /\ UNCHANGED <<user_row, user_answer>>

EndUser(i) ==
  /\ UserStep(i, "idle")
  /\ user_answer' = [user_answer EXCEPT ![i] = None]
  /\ user_config' = [user_config EXCEPT ![i] = None]

SaveUser(i) ==
  /\ user_stage[i] = "save"
  /\ user_row' = UserAnswered(user_config[i], user_answer[i])
  /\ EndUser(i)

(* The process dies, or a statement fails, before the save. *)
AbandonUser(i) ==
  /\ user_stage[i] # "idle"
  /\ EndUser(i)
  /\ UNCHANGED user_row

UserNext ==
  \/ \E l \in Languages : EnsureUser(l)
  \/ \E i \in Devices :
       \/ \E a \in UserAnswers : AnswerUserMenu(i, a)
       \/ FetchUser(i) \/ SaveUser(i) \/ AbandonUser(i)

UserSpec == UserInit /\ [][UserNext]_userVars
-----------------------------------------------------------------------------
(* The user's menu shows what is set: at most one option of a menu is shown *)
(* as chosen, and choosing it again changes nothing.  The builder turns the *)
(* direct messages around, and the handler has to turn them back.           *)
UserChosenAgain ==
  user_row # None =>
    \A m \in UserMenus(user_row) : \A o, p \in m.options :
      o.is_default =>
        /\ p.is_default => p = o
        /\ UserAnswered(user_row, Chosen(m.menu, o.value)) = user_row
=============================================================================
