-------------------------------- MODULE MCBot --------------------------------
(* The bot's parts that share no state, side by side for the model checker: *)
(* one part is chosen at the start and runs alone, the others stay as they  *)
(* began.  Each part keeps its own next-state relation and fairness.        *)
EXTENDS EditDebounce, QueueModeration, QueuePages, GuildConfig, Interactions

VARIABLE part

Parts == {"edit", "queue", "pages", "guild", "user", "press"}

botVars == <<part, editVars, vars, pageVars, configVars, userVars, interactionVars>>

BotTypeOK ==
  /\ part \in Parts
  /\ EditTypeOK /\ TypeOK /\ PagesTypeOK /\ ConfigTypeOK /\ UserTypeOK
  /\ InteractionsTypeOK

BotInit ==
  /\ part \in Parts
  /\ EditInit /\ PagesInit /\ ConfigInit /\ UserInit
  /\ Init /\ InteractionsInit
  /\ part # "press" => ~on["suggestions_channel_id"]

In(p, others) == part = p /\ UNCHANGED <<part, others>>

InEdit == In("edit", <<vars, pageVars, configVars, userVars, interactionVars>>)
InQueue == In("queue", <<editVars, pageVars, configVars, userVars, interactionVars>>)
InPages == In("pages", <<editVars, vars, configVars, userVars, interactionVars>>)
InGuild == In("guild", <<editVars, vars, pageVars, userVars, interactionVars>>)
InUser == In("user", <<editVars, vars, pageVars, configVars, interactionVars>>)
InPress == In("press", <<editVars, vars, pageVars, configVars, userVars>>)

BotNext ==
  \/ InEdit /\ EditNext
  \/ InQueue /\ Next
  \/ InPages /\ PagesNext
  \/ InGuild /\ ConfigNext
  \/ InUser /\ UserNext
  \/ InPress /\ InteractionsNext

(* EditFairness and Fairness, each of its own part. *)
BotFairness ==
  /\ \A c \in EditCalls :
       /\ WF_botVars(InEdit /\ (TakeKey(c) \/ Drop(c)))
       /\ WF_botVars(InEdit /\ Enqueue(c))
       /\ WF_botVars(InEdit /\ Fetch(c))
  /\ WF_botVars(InEdit /\ Expire)
  /\ \A c \in Calls : WF_botVars(InQueue /\ Handle(c)) /\ WF_botVars(InQueue /\ Notify(c))

BotSpec == BotInit /\ [][BotNext]_botVars /\ BotFairness
=============================================================================
