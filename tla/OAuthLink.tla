------------------------------ MODULE OAuthLink ------------------------------
(***************************************************************************)
(* Signing in to the dashboard with Discord (OAuthController).             *)
(*                                                                         *)
(* A person of Discord has rows in oauth_entry, one if nothing overlaps,   *)
(* and an entry may be linked to an account.  The first sign-in makes both;*)
(* later ones find the entry by the person's id, whatever their e-mail     *)
(* address is by then; and a form lets an account take up or drop entries  *)
(* that have its address.  Every write is of a whole row that was read     *)
(* several awaits earlier.  An account is known by its e-mail address,     *)
(* which never changes; Discord's tokens and the times are left out.       *)
(***************************************************************************)
EXTENDS Integers, FiniteSets

CONSTANTS
  Visits,       (* requests that may be under way at once                  *)
  People,       (* users of Discord                                        *)
  Emails,       (* e-mail addresses                                        *)
  MaxEntries,   (* bound: rows of oauth_entry                              *)
  MaxMails,     (* bound: changes of addresses at Discord                  *)
  Nobody        (* SQL NULL, no row                                        *)

ASSUME OAuthAssumption ==
  /\ MaxEntries \in Nat
  /\ MaxMails \in Nat
  /\ Nobody \notin Emails /\ Nobody \notin People

EntryIds == 1 .. MaxEntries
Entry == [oauth_id : People, oauth_email : Emails, user : Emails \cup {Nobody}]
ASSUME NobodyAssumption == Nobody \notin Entry

VARIABLES
  registration, (* ALLOW_REGISTRATION                                    *)
  mail,         (* the address Discord has of each person                *)
  users,        (* accounts, by their address                            *)
  entries,      (* oauth_entry: the row of each id, or Nobody            *)
  visit,        (* how far each request has come                         *)
  person,       (* who signs in, and the address the profile gave        *)
  address,
  entry_id,     (* the entry a request works on, and its copy of it      *)
  copy,
  mails,        (* history: changes of addresses so far                  *)
  linked,       (* history: the account each person was last linked to   *)
  met           (* history: people two of whose requests overlapped      *)

visitVars == <<visit, person, address, entry_id, copy>>
world == <<registration, mail, mails>>
oauthVars == <<world, users, entries, visitVars, linked, met>>

OAuthTypeOK ==
  /\ registration \in BOOLEAN /\ mail \in [People -> Emails] /\ mails \in Nat
  /\ users \subseteq Emails
  /\ entries \in [EntryIds -> Entry \cup {Nobody}]
  /\ visit \in [Visits -> {"idle", "entry", "exists", "insert", "user", "link", "tokens",
                           "save"}]
  /\ person \in [Visits -> People \cup {Nobody}]
  /\ address \in [Visits -> Emails \cup {Nobody}]
  /\ entry_id \in [Visits -> EntryIds \cup {0}]
  /\ copy \in [Visits -> Entry \cup {Nobody}]
  /\ linked \in [People -> Emails \cup {Nobody}]
  /\ met \subseteq People

OAuthInit ==
  /\ registration \in BOOLEAN /\ mail \in [People -> Emails] /\ mails = 0
  /\ users = {}
  /\ entries = [i \in EntryIds |-> Nobody]
  /\ visit = [v \in Visits |-> "idle"]
  /\ person = [v \in Visits |-> Nobody]
  /\ address = [v \in Visits |-> Nobody]
  /\ entry_id = [v \in Visits |-> 0]
  /\ copy = [v \in Visits |-> Nobody]
  /\ linked = [p \in People |-> Nobody] /\ met = {}

Of(p) == {i \in EntryIds : entries[i] # Nobody /\ entries[i].oauth_id = p}
About(p) == {v \in Visits : person[v] = p}
Meet(p) == met' = IF About(p) = {} THEN met ELSE met \cup {p}

VisitStep(v, s) == visit' = [visit EXCEPT ![v] = s]
VisitDone(v) ==
  /\ VisitStep(v, "idle")
  /\ person' = [person EXCEPT ![v] = Nobody]
  /\ address' = [address EXCEPT ![v] = Nobody]
  /\ entry_id' = [entry_id EXCEPT ![v] = 0]
  /\ copy' = [copy EXCEPT ![v] = Nobody]

(* A person has another address at Discord. *)
ChangeMail(p, e) ==
  /\ mail[p] # e /\ mails < MaxMails
  /\ mails' = mails + 1
  /\ mail' = [mail EXCEPT ![p] = e]
  /\ UNCHANGED <<registration, users, entries, visitVars, linked, met>>

(* An account is made by other means: a magic link, an administrator. *)
Register(e) ==
  /\ e \notin users
  /\ users' = users \cup {e}
  /\ UNCHANGED <<world, entries, visitVars, linked, met>>
-----------------------------------------------------------------------------
(* authorize_discord: Discord's token and profile are fetched. *)
ComeBack(v, p) ==
  /\ visit[v] = "idle"
  /\ VisitStep(v, "entry")
  /\ person' = [person EXCEPT ![v] = p]
  /\ address' = [address EXCEPT ![v] = mail[p]]
  /\ Meet(p)
  /\ UNCHANGED <<world, users, entries, entry_id, copy, linked>>

(* MUTANT of FindEntry: the entry is looked up by the address. *)
FindEntryByMail(v) ==
  LET found == {i \in Of(person[v]) : entries[i].oauth_email = address[v]} IN
  /\ visit[v] = "entry"
  /\ VisitStep(v, "exists")
  /\ IF found = {}
     THEN UNCHANGED <<entry_id, copy>>
     ELSE \E i \in found :
            /\ entry_id' = [entry_id EXCEPT ![v] = i]
            /\ copy' = [copy EXCEPT ![v] = entries[i]]
  /\ UNCHANGED <<world, users, entries, person, address, linked, met>>

(* get_user_from_oauth: an entry of the person, any of them if there are   *)
(* several ...                                                             *)
FindEntry(v) ==
  LET found == Of(person[v]) IN
  /\ visit[v] = "entry"
  /\ VisitStep(v, "exists")
  /\ IF found = {}
     THEN UNCHANGED <<entry_id, copy>>
     ELSE \E i \in found :
            /\ entry_id' = [entry_id EXCEPT ![v] = i]
            /\ copy' = [copy EXCEPT ![v] = entries[i]]
  /\ UNCHANGED <<world, users, entries, person, address, linked, met>>

(* ... and whether the address has an account.  If it has, a person who is *)
(* new is an error (the missing entry's user is asked for, so the branch   *)
(* that would create the entry is never reached), and an entry that is not *)
(* linked sends them to the form.                                          *)
CheckAccount(v) ==
  /\ visit[v] = "exists"
  /\ IF address[v] \in users /\ (copy[v] = Nobody \/ (copy[v] # Nobody /\ copy[v].user = Nobody))
     THEN VisitDone(v)
     ELSE /\ VisitStep(v, IF copy[v] = Nobody THEN "insert" ELSE "link")
          /\ UNCHANGED <<person, address, entry_id, copy>>
  /\ UNCHANGED <<world, users, entries, linked, met>>

(* The entry is inserted before it is asked whether registration is open:  *)
(* if it is not, the entry stays behind, linked to nobody.                 *)
InsertEntry(v, i) ==
  /\ visit[v] = "insert"
  /\ entries[i] = Nobody /\ \A j \in 1 .. i - 1 : entries[j] # Nobody
  /\ LET row == [oauth_id |-> person[v], oauth_email |-> address[v], user |-> Nobody] IN
     /\ entries' = [entries EXCEPT ![i] = row]
     /\ IF registration
        THEN /\ VisitStep(v, "user")
             /\ entry_id' = [entry_id EXCEPT ![v] = i]
             /\ copy' = [copy EXCEPT ![v] = row]
             /\ UNCHANGED <<person, address>>
        ELSE VisitDone(v)
  /\ UNCHANGED <<world, users, linked, met>>

(* Addresses are unique: the insert of an account that was made meanwhile  *)
(* raises, and the entry stays behind.                                     *)
InsertAccount(v) ==
  /\ visit[v] = "user"
  /\ IF address[v] \in users
     THEN VisitDone(v) /\ UNCHANGED users
     ELSE /\ users' = users \cup {address[v]}
          /\ copy' = [copy EXCEPT ![v].user = address[v]]
          /\ VisitStep(v, "link")
          /\ UNCHANGED <<person, address, entry_id>>
  /\ UNCHANGED <<world, entries, linked, met>>

(* The copy is saved with the address and the time. *)
SaveLink(v) ==
  LET row == [copy[v] EXCEPT !.oauth_email = address[v]] IN
  /\ visit[v] = "link"
  /\ entries' = [entries EXCEPT ![entry_id[v]] = row]
  /\ copy' = [copy EXCEPT ![v] = row]
  /\ linked' = [linked EXCEPT ![person[v]] = row.user]
  /\ VisitStep(v, "tokens")
  /\ UNCHANGED <<world, users, person, address, entry_id, met>>

(* The copy is saved once more, with Discord's tokens.  Then the account's *)
(* last sign-in is saved and a session made (Accounts); an entry that      *)
(* stayed behind has no account to do that for, and is an error.           *)
SaveTokens(v) ==
  /\ visit[v] = "tokens"
  /\ entries' = [entries EXCEPT ![entry_id[v]] = copy[v]]
  /\ VisitDone(v)
  /\ UNCHANGED <<world, users, linked, met>>
-----------------------------------------------------------------------------
(* post_link_oauth_accounts, for one entry of the form: it is read if it   *)
(* has the account's address still, ...                                    *)
OpenForm(v, e, i) ==
  /\ visit[v] = "idle" /\ e \in users
  /\ entries[i] # Nobody /\ entries[i].oauth_email = e
  /\ VisitStep(v, "save")
  /\ person' = [person EXCEPT ![v] = entries[i].oauth_id]
  /\ address' = [address EXCEPT ![v] = e]
  /\ entry_id' = [entry_id EXCEPT ![v] = i]
  /\ copy' = [copy EXCEPT ![v] = entries[i]]
  /\ Meet(entries[i].oauth_id)
  /\ UNCHANGED <<world, users, entries, linked>>

(* ... and saved with the account, or with none. *)
SaveForm(v, u) ==
  /\ visit[v] = "save" /\ u \in {address[v], Nobody}
  /\ entries' = [entries EXCEPT ![entry_id[v]] = [copy[v] EXCEPT !.user = u]]
  /\ linked' = [linked EXCEPT ![person[v]] = u]
  /\ VisitDone(v)
  /\ UNCHANGED <<world, users, met>>

(* The process dies, or Discord or the database does not answer. *)
FailVisit(v) ==
  /\ visit[v] # "idle"
  /\ VisitDone(v)
  /\ UNCHANGED <<world, users, entries, linked, met>>

OAuthNext ==
  \/ \E p \in People, e \in Emails : ChangeMail(p, e)
  \/ \E e \in Emails : Register(e)
  \/ \E v \in Visits :
       \/ \E p \in People : ComeBack(v, p)
       \/ FindEntry(v) \/ CheckAccount(v)
       \/ \E i \in EntryIds : InsertEntry(v, i)
       \/ InsertAccount(v) \/ SaveLink(v) \/ SaveTokens(v)
       \/ \E e \in Emails, i \in EntryIds : OpenForm(v, e, i)
       \/ \E u \in Emails \cup {Nobody} : SaveForm(v, u)
       \/ FailVisit(v)

OAuthSpec == OAuthInit /\ [][OAuthNext]_oauthVars
-----------------------------------------------------------------------------
(* Who signs in again comes to the same account.  A person whose requests  *)
(* never overlapped has one entry at most, and it is linked to the account *)
(* the last sign-in or the last answer of the form linked it to: neither a *)
(* new address at Discord nor an account that got it meanwhile, nor a      *)
(* sign-in that broke off, moves them to another account or drops the link.*)
ReturningUserIsKnown ==
  \A p \in People \ met :
    /\ Cardinality(Of(p)) <= 1
    /\ \A i \in Of(p) : entries[i].user = linked[p]
    /\ linked[p] # Nobody => Of(p) # {} /\ linked[p] \in users
=============================================================================
