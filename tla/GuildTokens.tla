----------------------------- MODULE GuildTokens -----------------------------
(***************************************************************************)
(* The premium tokens of one Stripe subscription: one row in guild_tokens  *)
(* for each guild that was paid for, which its owner assigns to a guild.   *)
(*                                                                         *)
(* Stripe reports what happens to the subscription in webhooks.  It may    *)
(* deliver one twice, late, or in another order, and the page a purchase   *)
(* ends on does the work of the first one as well.  So a delivery is taken *)
(* to carry any quantity and any period, whatever came before.  Only the   *)
(* handler of a new subscription uses a transaction; the others read, and  *)
(* write row by row, and a row they have read is saved with all columns.   *)
(*                                                                         *)
(* A call is a slot for one delivery or one post to the dashboard at a     *)
(* time.  There is one item in the subscription that is about guilds.      *)
(***************************************************************************)
EXTENDS Integers, FiniteSets

CONSTANTS
  Calls,        (* deliveries and posts that may overlap                   *)
  Tokens,       (* ids of rows: bounds how many are ever made              *)
  Guilds,
  Quantities,   (* quantities the subscription ever has                    *)
  LastPeriod,   (* billing periods; bounds the clock                       *)
  NoGuild, NoOp, NoRow, Unborn, Gone

ASSUME ConstantsAssumption ==
  /\ IsFiniteSet(Tokens)
  /\ Quantities \subseteq Nat \ {0}
  /\ LastPeriod \in Nat
  /\ NoGuild \notin Guilds

VARIABLES
  tokens,     (* the rows of the subscription                              *)
  now,        (* the last period that is over                              *)
  pc, op,     (* how far each call is, and with what                       *)
  work,       (* the copies of rows a call has yet to write or delete      *)
  need,       (* how many tokens an update found missing, or too many      *)
  disturbed   (* history: calls during which another one wrote             *)

calls == <<pc, op, work, need, disturbed>>
vars == <<tokens, now, calls>>

Period == 0..LastPeriod   \* when a token expires; 0: already
Row == [guild : Guilds \cup {NoGuild}, expires : Period]

Op ==
  [kind : {"created"}, quantity : Quantities, expires : Period]
  \cup [kind : {"updated"}, quantity : Quantities, active : BOOLEAN, until : Period \ {0}]
  \cup [kind : {"paid"}, until : Period \ {0}]
  \cup [kind : {"assign"}, token : Tokens, guild : Guilds \cup {NoGuild}]

Stage == {"idle", "absent", "counted", "saving", "adding", "choosing", "dropping",
          "fetched", "free", "done"}

ASSUME NullAssumption == {NoRow, Unborn, Gone} \cap Row = {} /\ NoOp \notin Op /\ Unborn # Gone

TypeOK ==
  /\ tokens \in [Tokens -> Row \cup {Unborn, Gone}]
  /\ now \in Period
  /\ pc \in [Calls -> Stage]
  /\ op \in [Calls -> Op \cup {NoOp}]
  /\ work \in [Calls -> [Tokens -> Row \cup {NoRow}]]
  /\ need \in [Calls -> Int]
  /\ disturbed \subseteq Calls

Nothing == [t \in Tokens |-> NoRow]

Init ==
  /\ tokens = [t \in Tokens |-> Unborn]
  /\ now = 0
  /\ pc = [c \in Calls |-> "idle"]
  /\ op = [c \in Calls |-> NoOp]
  /\ work = [c \in Calls |-> Nothing]
  /\ need = [c \in Calls |-> 0]
  /\ disturbed = {}

Live == {t \in Tokens : tokens[t] \in Row}
Valid(t) == tokens[t].expires > now
Goto(c, stage) == pc' = [pc EXCEPT ![c] = stage]

(* Calls that are under way while c writes. *)
Others(c) == {d \in Calls \ {c} : pc[d] \notin {"idle", "done"}}
Written(c) == disturbed' = disturbed \cup Others(c)

(* The end of a handler, good or bad. *)
Forget(c, stage) ==
  /\ Goto(c, stage)
  /\ op' = [op EXCEPT ![c] = NoOp]
  /\ work' = [work EXCEPT ![c] = Nothing]
  /\ need' = [need EXCEPT ![c] = 0]

Leave(c, stage) == Forget(c, stage) /\ disturbed' = disturbed \ {c}
WriteAndLeave(c) == Forget(c, "done") /\ disturbed' = (disturbed \ {c}) \cup Others(c)

(* save() of a row that is gone updates nothing. *)
Save(t, r) == tokens' = [tokens EXCEPT ![t] = IF t \in Live THEN r ELSE @]
Insert(S, r) == tokens' = [t \in Tokens |-> IF t \in S THEN r ELSE tokens[t]]
Delete(S) == tokens' = [t \in Tokens |-> IF t \in S \cap Live THEN Gone ELSE tokens[t]]

Unassigned(e) == [guild |-> NoGuild, expires |-> e]
New(n) == {S \in SUBSET {t \in Tokens : tokens[t] = Unborn} : Cardinality(S) = n}
-----------------------------------------------------------------------------
(* A webhook is delivered, a purchase ends on its page, the owner posts.   *)
Begin(c, o) == pc[c] \in {"idle", "done"} /\ op' = [op EXCEPT ![c] = o]

(* handle_customer_subscription_created, for webhook and purchase page:    *)
(* the subscription is fetched, and if it has no token yet                 *)
Exists(c) ==
  /\ Live = {}
  /\ \E o \in Op : o.kind = "created" /\ Begin(c, o)
  /\ Goto(c, "absent")
  /\ UNCHANGED <<tokens, now, work, need, disturbed>>

(* MUTANT of CreateTokens: one token per item, not per entry.              *)
CreateOne(c) ==
  /\ pc[c] = "absent"
  /\ \E S \in New(1) : Insert(S, Unassigned(op[c].expires))
  /\ WriteAndLeave(c)
  /\ UNCHANGED now

(* The transaction commits: all of the tokens or, if it fails, none.       *)
CreateTokens(c) ==
  /\ pc[c] = "absent"
  /\ \E S \in New(op[c].quantity) : Insert(S, Unassigned(op[c].expires))
  /\ WriteAndLeave(c)
  /\ UNCHANGED now
-----------------------------------------------------------------------------
(* handle_customer_subscription_updated *)

Count(c) ==
  /\ \E o \in Op :
       /\ o.kind = "updated" /\ Begin(c, o)
       /\ need' = [need EXCEPT ![c] = o.quantity - Cardinality(Live)]
  /\ Goto(c, "counted")
  /\ UNCHANGED <<tokens, now, work, disturbed>>

(* An update, and handle_invoice_paid, which does nothing else, sets the   *)
(* expiry: it reads every token                                            *)
Renewed(o) ==
  [t \in Tokens |->
     IF t \notin Live THEN NoRow
     ELSE [tokens[t] EXCEPT !.expires = IF o.kind = "updated" /\ ~o.active THEN 0 ELSE o.until]]

(* MUTANT of Load: a token that is assigned keeps its expiry.              *)
LoadUnassigned(c) ==
  /\ \/ pc[c] = "counted" /\ UNCHANGED op
     \/ \E o \in Op : o.kind = "paid" /\ Begin(c, o)
  /\ work' = [work EXCEPT ![c] = [t \in Tokens |->
                IF t \in Live /\ tokens[t].guild = NoGuild THEN Renewed(op'[c])[t] ELSE NoRow]]
  /\ Goto(c, "saving")
  /\ UNCHANGED <<tokens, now, need, disturbed>>

Load(c) ==
  /\ \/ pc[c] = "counted" /\ UNCHANGED op
     \/ \E o \in Op : o.kind = "paid" /\ Begin(c, o)
  /\ work' = [work EXCEPT ![c] = Renewed(op'[c])]
  /\ Goto(c, "saving")
  /\ UNCHANGED <<tokens, now, need, disturbed>>

(* MUTANT of SaveExpiry: an upsert, which brings a deleted row back.       *)
SaveOrInsert(c, t) ==
  /\ pc[c] = "saving" /\ work[c][t] # NoRow
  /\ tokens' = [tokens EXCEPT ![t] = work[c][t]]
  /\ work' = [work EXCEPT ![c][t] = NoRow]
  /\ Written(c)
  /\ UNCHANGED <<now, pc, op, need>>

(* and saves one after the other. *)
SaveExpiry(c, t) ==
  /\ pc[c] = "saving" /\ work[c][t] # NoRow
  /\ Save(t, work[c][t])
  /\ work' = [work EXCEPT ![c][t] = NoRow]
  /\ Written(c)
  /\ UNCHANGED <<now, pc, op, need>>

Saved(c) ==
  /\ pc[c] = "saving" /\ work[c] = Nothing
  /\ \/ need[c] = 0 /\ Leave(c, "done")
     \/ /\ need[c] # 0
        /\ Goto(c, IF need[c] > 0 THEN "adding" ELSE "choosing")
        /\ UNCHANGED <<op, work, need, disturbed>>
  /\ UNCHANGED <<tokens, now>>

(* "We need more": one by one, with the period's end whatever the status.  *)
Add(c) ==
  /\ pc[c] = "adding"
  /\ \E S \in New(1) : Insert(S, Unassigned(op[c].until))
  /\ IF need[c] = 1 THEN WriteAndLeave(c)
     ELSE Written(c) /\ need' = [need EXCEPT ![c] = @ - 1] /\ UNCHANGED <<pc, op, work>>
  /\ UNCHANGED now

(* Rows to delete: of these the id is all that counts. *)
Ids(S) == [t \in Tokens |-> IF t \in S THEN Unassigned(0) ELSE NoRow]

(* MUTANT of Choose: one token too few is deleted.                         *)
ChooseFewer(c) ==
  /\ pc[c] = "choosing"
  /\ \E S \in SUBSET Live :
       /\ Cardinality(S) = 0 - need[c] - 1
       /\ work' = [work EXCEPT ![c] = Ids(S)]
  /\ Goto(c, "dropping")
  /\ UNCHANGED <<tokens, now, op, need, disturbed>>

(* "we need less": the first of the tokens in whatever order they come,    *)
(* assigned or not, as many as there are.                                  *)
Choose(c) ==
  /\ pc[c] = "choosing"
  /\ \E S \in SUBSET Live :
       /\ \/ Cardinality(S) = 0 - need[c]
          \/ S = Live /\ Cardinality(S) < 0 - need[c]
       /\ work' = [work EXCEPT ![c] = Ids(S)]
  /\ Goto(c, "dropping")
  /\ UNCHANGED <<tokens, now, op, need, disturbed>>

Drop(c, t) ==
  /\ pc[c] = "dropping" /\ work[c][t] # NoRow
  /\ Delete({t})
  /\ work' = [work EXCEPT ![c][t] = NoRow]
  /\ Written(c)
  /\ UNCHANGED <<now, pc, op, need>>

Dropped(c) ==
  /\ pc[c] = "dropping" /\ work[c] = Nothing
  /\ Leave(c, "done")
  /\ UNCHANGED <<tokens, now>>

(* The subscription is deleted or could not be paid, or an update has no   *)
(* item about guilds any more: one DELETE.                                 *)
Revoke(c) ==
  /\ pc[c] \in {"idle", "done"}
  /\ Delete(Live)
  /\ WriteAndLeave(c)
  /\ UNCHANGED now
-----------------------------------------------------------------------------
(* StripeController.manage_guild_tokens_post *)

(* MUTANT of FetchToken: a row that is not there is worked on. *)
FetchUnchecked(c) ==
  /\ \E o \in Op :
       /\ o.kind = "assign"
       /\ Begin(c, o)
       /\ work' = [work EXCEPT ![c][o.token] = tokens[o.token]]
  /\ Goto(c, "fetched")
  /\ UNCHANGED <<tokens, now, need, disturbed>>

FetchToken(c) ==
  /\ \E o \in Op :
       /\ o.kind = "assign" /\ o.token \in Live
       /\ Begin(c, o)
       /\ work' = [work EXCEPT ![c][o.token] = tokens[o.token]]
  /\ Goto(c, "fetched")
  /\ UNCHANGED <<tokens, now, need, disturbed>>

(* "That guild already has premium" *)
Taken(g) == g # NoGuild /\ \E t \in Live : tokens[t].guild = g /\ Valid(t)

(* MUTANT of CheckGuild: the guild is not asked about. *)
CheckNothing(c) ==
  /\ pc[c] = "fetched"
  /\ Goto(c, "free")
  /\ UNCHANGED <<tokens, now, op, work, need, disturbed>>

(* A guild that is the token's own already is not looked for.              *)
CheckGuild(c) ==
  /\ pc[c] = "fetched"
  /\ IF Taken(op[c].guild) /\ work[c][op[c].token].guild # op[c].guild
     THEN Leave(c, "done")
     ELSE Goto(c, "free") /\ UNCHANGED <<op, work, need, disturbed>>
  /\ UNCHANGED <<tokens, now>>

Assign(c) ==
  /\ pc[c] = "free"
  /\ Save(op[c].token, [work[c][op[c].token] EXCEPT !.guild = op[c].guild])
  /\ WriteAndLeave(c)
  /\ UNCHANGED now
-----------------------------------------------------------------------------
(* An exception, for which the webhook answers 500 and Stripe tries again, *)
(* or the death of the process.                                            *)
Abort(c) ==
  /\ pc[c] \notin {"idle", "done"}
  /\ Leave(c, "idle")
  /\ UNCHANGED <<tokens, now>>

Tick ==
  /\ now < LastPeriod
  /\ now' = now + 1
  /\ UNCHANGED <<tokens, calls>>

Created(c) == Exists(c) \/ CreateTokens(c)
Updated(c) ==
  \/ Count(c) \/ Load(c) \/ Saved(c) \/ Add(c) \/ Choose(c) \/ Dropped(c) \/ Revoke(c)
  \/ \E t \in Tokens : SaveExpiry(c, t) \/ Drop(c, t)
Managed(c) == FetchToken(c) \/ CheckGuild(c) \/ Assign(c)

Next ==
  \/ \E c \in Calls : Created(c) \/ Updated(c) \/ Managed(c) \/ Abort(c)
  \/ Tick

Spec == Init /\ [][Next]_vars
-----------------------------------------------------------------------------
(* c ends now, and no other handler has written since it began.            *)
EndsAlone(c, kind) ==
  op[c] # NoOp /\ op[c].kind = kind /\ pc'[c] = "done" /\ c \notin disturbed

(* Whatever was left by handlers that failed half-way or disturbed each    *)
(* other, an update that none of them overlaps sets the number of tokens   *)
(* to the quantity it carries, and so does a creation.                     *)
QuantityIsKept ==
  [][\A c \in Calls :
       EndsAlone(c, "updated") \/ EndsAlone(c, "created") =>
         Cardinality(Live') = op[c].quantity]_vars

(* A renewal that no other handler overlaps reaches every token, whether   *)
(* it is assigned or not.                                                  *)
RenewalReachesAll ==
  [][\A c \in Calls :
       EndsAlone(c, "paid") => \A t \in Live' : tokens'[t].expires = op[c].until]_vars

(* A token that was revoked stays revoked, although other handlers and the *)
(* dashboard save copies of it.                                            *)
RevokedStaysRevoked ==
  [][\A t \in Tokens : tokens[t] = Gone => tokens'[t] = Gone]_vars

(* "That guild already has premium so I didn't let you also provide it."   *)
(* A guild that a token is newly assigned to has no other valid one, where *)
(* no other handler interferes.                                            *)
NoSecondPremium ==
  [][\A c \in Calls :
       EndsAlone(c, "assign") /\ pc[c] = "free" /\ op[c].guild # NoGuild
         /\ tokens[op[c].token].guild # op[c].guild =>
           \A t \in Live' \ {op[c].token} : tokens'[t].guild = op[c].guild => ~Valid(t)']_vars

(* "Make one token per entry": a customer never has more tokens than the   *)
(* subscription has ever had entries.                                      *)
OneTokenPerEntry == \E q \in Quantities : Cardinality(Live) <= q
=============================================================================
