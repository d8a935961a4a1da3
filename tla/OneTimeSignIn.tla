---------------------------- MODULE OneTimeSignIn ----------------------------
(***************************************************************************)
(* What signing in by e-mail promises, without requests, locks and         *)
(* transactions: a link that was sent lets somebody in once, that uses it  *)
(* up, and whoever is the first to come in has the account made, in one    *)
(* step with it.  MagicLink implements it.                                 *)
(***************************************************************************)
CONSTANTS
  Tickets,   (* links to the sign-in page                                  *)
  Guests,    (* visits to it                                               *)
  Founder    (* who made an account that was there before                  *)

VARIABLES
  sent,      (* links that were mailed                                     *)
  spent,     (* links that are used up                                     *)
  entered,   (* which visit was let in with which link                     *)
  members    (* who made the account; at most one account is made          *)

signInVars == <<sent, spent, entered, members>>

OneTimeInit ==
  /\ sent = {} /\ spent = {} /\ entered = {}
  /\ members \in {{}, {Founder}}

Send(t) ==
  /\ t \notin sent
  /\ sent' = sent \cup {t}
  /\ UNCHANGED <<spent, entered, members>>

Enter(g, t) ==
  /\ t \in sent \ spent
  /\ \A e \in entered : e.guest # g
  /\ spent' = spent \cup {t}
  /\ entered' = entered \cup {[guest |-> g, ticket |-> t]}
  /\ members' = IF members = {} THEN {g} ELSE members
  /\ UNCHANGED sent

OneTimeNext == \E t \in Tickets : Send(t) \/ \E g \in Guests : Enter(g, t)

OneTimeSpec == OneTimeInit /\ [][OneTimeNext]_signInVars
=============================================================================
