--------------------------- MODULE QueueModeration ---------------------------
(***************************************************************************)
(* One queued suggestion: it is filed, and moderators approve, reject or   *)
(* clear it.                                                               *)
(*                                                                         *)
(* A moderator's button opens a modal, and handling what they submit is    *)
(* one database transaction (SuggestionsQueueMenu.handle_modal_interaction *)
(* ) around calls to Discord and to the job queue, which no rollback takes *)
(* back and no isolation hides.  Postgres runs at READ COMMITTED: a reader *)
(* sees what is committed, a writer of the row waits for the transaction   *)
(* that wrote it and then writes all columns of its own copy.              *)
(*                                                                         *)
(* A call is one modal submission or one /clear.  Opening the modal reads  *)
(* the row only to find it and is not a step here: nothing of that read is *)
(* used when the modal comes back.                                         *)
(***************************************************************************)

CONSTANTS
  Calls,      (* modal submissions and /clear commands; also names the     *)
              (* suggestion that one of them may create                    *)
  Physical,   (* values that "the queue is a channel" may have             *)
  NoCall, NoRow, NoOp

ASSUME ConstantsAssumption ==
  /\ Physical \subseteq BOOLEAN
  /\ NoCall \notin Calls

VARIABLES
  filed,    (* how far the filing handler has come                         *)
  row,      (* the committed row in queued_suggestions, or NoRow           *)
  lock,     (* the call whose open transaction has written the row         *)
  posted,   (* the message in the queue channel is there                   *)
  pc, op,   (* how far each call has come and what it is about             *)
  snap,     (* the copy of the row each call works on                      *)
  draft,    (* what its transaction has written to the row                 *)
  created,  (* calls whose transaction holds a new row in suggestions      *)
  stored,   (* calls whose row in suggestions is committed                 *)
  public,   (* calls whose message is in the suggestions channel           *)
  notice,   (* what has become of each call's notification of the author   *)
  refused,  (* history: calls whose suggestion the bot refused to create   *)
  early,    (* history: a moderator acted on the row before it was filed   *)
  trouble   (* history: Discord refused something, or a process died       *)

filing == <<filed, posted>>
calls == <<pc, op, snap, draft, created>>
suggestions == <<stored, public>>
history == <<refused, early, trouble>>
vars == <<filing, row, lock, calls, suggestions, notice, history>>

State == {"PENDING", "APPROVED", "REJECTED", "CLEARED"}
Row == [state : State, link : Calls \cup {NoCall}, message : BOOLEAN]
Op == {"approve", "reject", "clear"}
Stage == {"idle", "read", "resolved", "published", "removed", "answering", "replying",
          "clearing", "done", "aborted"}
FiledStage == {"new", "row", "posted", "queued", "stranded", "refused", "aborted"}

Active(c) == pc[c] \notin {"idle", "done", "aborted"}

ASSUME NoRowAssumption == NoRow \notin Row

TypeOK ==
  /\ filed \in FiledStage
  /\ row \in Row \cup {NoRow}
  /\ lock \in Calls \cup {NoCall}
  /\ posted \in BOOLEAN
  /\ pc \in [Calls -> Stage]
  /\ op \in [Calls -> Op \cup {NoOp}]
  /\ snap \in [Calls -> Row \cup {NoRow}]
  /\ draft \in [Calls -> Row \cup {NoRow}]
  /\ created \subseteq Calls /\ stored \subseteq Calls /\ public \subseteq Calls
  /\ notice \in [Calls -> {"none", "queued", "approved", "rejected", "failed"}]
  /\ refused \subseteq Calls
  \* A call under way has a row to work on.
  /\ \A c \in Calls : Active(c) => op[c] \in Op /\ snap[c] \in Row
  /\ early \in BOOLEAN /\ trouble \in BOOLEAN

Init ==
  /\ filed = "new"
  /\ row = NoRow
  /\ lock = NoCall
  /\ posted = FALSE
  /\ pc = [c \in Calls |-> "idle"]
  /\ op = [c \in Calls |-> NoOp]
  /\ snap = [c \in Calls |-> NoRow]
  /\ draft = [c \in Calls |-> NoRow]
  /\ created = {} /\ stored = {} /\ public = {}
  /\ notice = [c \in Calls |-> "none"]
  /\ refused = {}
  /\ early = FALSE /\ trouble = FALSE

Goto(c, stage) == pc' = [pc EXCEPT ![c] = stage]
At(c, stage, o) == pc[c] = stage /\ op[c] = o
Filing == filed \in {"row", "posted"}
-----------------------------------------------------------------------------
(* SuggestionMenu.handle_queued_suggestion *)

Filed(m) == [state |-> "PENDING", link |-> NoCall, message |-> m]

FileRow ==
  /\ filed = "new"
  /\ filed' = "row"
  /\ row' = Filed(FALSE)
  /\ UNCHANGED <<posted, lock, calls, suggestions, notice, history>>

(* No queue channel, or none that can be fetched: the row stays. *)
FileStranded ==
  /\ filed = "row" /\ TRUE \in Physical
  /\ filed' = "stranded"
  /\ trouble' = TRUE
  /\ UNCHANGED <<posted, row, lock, calls, suggestions, notice, refused, early>>

(* The channel may not be written to: the row is deleted. *)
FileRefused ==
  /\ filed = "row" /\ TRUE \in Physical
  /\ lock = NoCall
  /\ filed' = "refused"
  /\ row' = NoRow
  /\ trouble' = TRUE
  /\ UNCHANGED <<posted, lock, calls, suggestions, notice, refused, early>>

FilePost ==
  /\ filed = "row" /\ TRUE \in Physical
  /\ filed' = "posted"
  /\ posted' = TRUE
  /\ UNCHANGED <<row, lock, calls, suggestions, notice, history>>

(* The last save, of a virtual or of a physical queue. *)
FileSave ==
  /\ \/ filed = "row" /\ FALSE \in Physical
     \/ filed = "posted"
  /\ lock = NoCall
  /\ filed' = "queued"
  /\ row' = Filed(filed = "posted")
  /\ UNCHANGED <<posted, lock, calls, suggestions, notice, history>>

FileAborts ==
  /\ Filing
  /\ filed' = "aborted"
  /\ trouble' = TRUE
  /\ UNCHANGED <<posted, row, lock, calls, suggestions, notice, refused, early>>
-----------------------------------------------------------------------------
(* MUTANT of Read: the row is fetched and not looked at. *)
ReadUnchecked(c, o) ==
  /\ pc[c] = "idle"
  /\ filed # "new"
  /\ Goto(c, "read")
  /\ op' = [op EXCEPT ![c] = o]
  /\ snap' = [snap EXCEPT ![c] = row]
  /\ early' = (early \/ Filing)
  /\ UNCHANGED <<filing, row, lock, draft, created, suggestions, notice, refused, trouble>>

(* handle_modal_interaction (and /clear) fetch the row.  Neither asks what *)
(* state it is in.                                                         *)
Read(c, o) ==
  /\ pc[c] = "idle"
  /\ filed # "new"
  /\ IF row = NoRow
     THEN Goto(c, "done") /\ UNCHANGED <<op, snap>>
     ELSE /\ Goto(c, "read")
          /\ op' = [op EXCEPT ![c] = o]
          /\ snap' = [snap EXCEPT ![c] = row]
  /\ early' = (early \/ Filing)
  /\ UNCHANGED <<filing, row, lock, draft, created, suggestions, notice, refused, trouble>>

(* save() within the transaction of a call that holds the row, or gets it. *)
Write(c, r) ==
  /\ lock \in {NoCall, c}
  /\ lock' = c
  /\ snap' = [snap EXCEPT ![c] = r]
  /\ draft' = [draft EXCEPT ![c] = r]

(* approve_ and reject_queued_suggestion: the new state is saved first. *)
Resolve(c) ==
  /\ pc[c] = "read" /\ op[c] \in {"approve", "reject"}
  /\ Write(c, [snap[c] EXCEPT
                 !.state = IF op[c] = "approve" THEN "APPROVED" ELSE "REJECTED"])
  /\ Goto(c, "resolved")
  /\ UNCHANGED <<filing, row, op, created, suggestions, notice, history>>

(* handle_suggestion returns None: the guild's own cooldown, which counts  *)
(* the moderator's interaction, the channel, or its permissions.  The row  *)
(* it may have made is deleted again.                                      *)
CreateRefused(c) ==
  /\ At(c, "resolved", "approve")
  /\ refused' = refused \cup {c}
  /\ Goto(c, "answering")
  /\ UNCHANGED <<filing, row, lock, op, snap, draft, created, suggestions, notice, early, trouble>>

(* The row is in the open transaction, the message in the channel.         *)
Publish(c) ==
  /\ At(c, "resolved", "approve")
  /\ created' = created \cup {c}
  /\ public' = public \cup {c}
  /\ Goto(c, "published")
  /\ UNCHANGED <<filing, row, lock, op, snap, draft, stored, notice, history>>

(* No thread can be created: the row is deleted, the message stays. *)
ThreadRefused(c) ==
  /\ pc[c] = "published"
  /\ created' = created \ {c}
  /\ refused' = refused \cup {c}
  /\ trouble' = TRUE
  /\ Goto(c, "answering")
  /\ UNCHANGED <<filing, row, lock, op, snap, draft, suggestions, notice, early>>

(* MUTANT of Link: the author is told once the whole handler is through,   *)
(* which an early return then skips.                                       *)
LinkUntold(c) ==
  /\ pc[c] = "published"
  /\ Write(c, [snap[c] EXCEPT !.link = c])
  /\ Goto(c, "answering")
  /\ UNCHANGED <<filing, row, op, created, suggestions, notice, history>>

(* The queued row is linked to the suggestion, and a job will tell the     *)
(* author in a second.                                                     *)
Link(c) ==
  /\ pc[c] = "published"
  /\ Write(c, [snap[c] EXCEPT !.link = c])
  /\ notice' = [notice EXCEPT ![c] = "queued"]
  /\ Goto(c, "answering")
  /\ UNCHANGED <<filing, row, op, created, suggestions, history>>

(* Rejected: the message is deleted from the queue channel.  When that is  *)
(* forbidden, that's all.                                                  *)
RejectDelete(c) ==
  /\ At(c, "resolved", "reject")
  /\ \/ ~snap[c].message /\ Goto(c, "removed") /\ UNCHANGED <<posted, snap, trouble>>
     \/ /\ snap[c].message /\ posted
        /\ posted' = FALSE
        /\ snap' = [snap EXCEPT ![c].message = FALSE]
        /\ Goto(c, "removed")
        /\ UNCHANGED trouble
     \/ /\ snap[c].message /\ ~posted
        /\ Goto(c, "removed")
        /\ UNCHANGED <<posted, snap, trouble>>
     \/ /\ snap[c].message /\ posted
        /\ Goto(c, "answering")
        /\ trouble' = TRUE
        /\ UNCHANGED <<posted, snap>>
  /\ UNCHANGED <<filed, row, lock, op, draft, created, suggestions, notice, refused, early>>

(* Logged where the guild has a channel for it, saved, and told. *)
RejectFinish(c) ==
  /\ pc[c] = "removed"
  /\ Write(c, snap[c])
  /\ notice' = [notice EXCEPT ![c] = "queued"]
  /\ Goto(c, "answering")
  /\ UNCHANGED <<filing, row, op, created, suggestions, history>>

(* The log channel is gone or may not be written to. *)
RejectUnlogged(c) ==
  /\ pc[c] = "removed"
  /\ trouble' = TRUE
  /\ Goto(c, "answering")
  /\ UNCHANGED <<filing, row, lock, op, snap, draft, created, suggestions, notice, refused, early>>

(* MUTANT of RemoveMessage: a suggestion that was approved is left in the  *)
(* queue channel.                                                          *)
RemoveRejected(c) ==
  /\ pc[c] = "answering"
  /\ Goto(c, "replying")
  /\ posted' = (posted /\ op[c] # "reject")
  /\ UNCHANGED <<filed, row, lock, op, snap, draft, created, suggestions, notice, history>>

(* remove_queued_suggestion, whatever came before. *)
RemoveMessage(c) ==
  /\ pc[c] = "answering"
  /\ Goto(c, "replying")
  /\ \/ snap[c].message /\ posted' = FALSE /\ UNCHANGED trouble
     \/ snap[c].message /\ posted /\ trouble' = TRUE /\ UNCHANGED posted
     \/ ~snap[c].message /\ UNCHANGED <<posted, trouble>>
  /\ UNCHANGED <<filed, row, lock, op, snap, draft, created, suggestions, notice, refused, early>>

(* MUTANT of Commit: the queued suggestion is saved outside of the         *)
(* transaction that creates the suggestion, which may yet be rolled back.  *)
CommitQueueOnly(c) ==
  /\ pc[c] = "replying"
  /\ row' = IF row = NoRow THEN NoRow ELSE draft[c]
  /\ created' = created \ {c}
  /\ lock' = NoCall
  /\ Goto(c, "done")
  /\ UNCHANGED <<filing, op, snap, draft, suggestions, notice, history>>

(* The moderator has their answer, "accepted" or "removed from the queue", *)
(* and the transaction commits.                                            *)
Commit(c) ==
  /\ pc[c] = "replying"
  /\ row' = IF row = NoRow THEN NoRow ELSE draft[c]
  /\ stored' = stored \cup (created \cap {c})
  /\ created' = created \ {c}
  /\ lock' = NoCall
  /\ Goto(c, "done")
  /\ UNCHANGED <<filing, op, snap, draft, public, notice, history>>

(* An exception or the death of the process: the database forgets, Discord *)
(* and the job queue don't.                                                *)
Abort(c) ==
  /\ Active(c)
  /\ Goto(c, "aborted")
  /\ created' = created \ {c}
  /\ lock' = IF lock = c THEN NoCall ELSE lock
  /\ trouble' = TRUE
  /\ UNCHANGED <<filing, row, op, snap, draft, suggestions, notice, refused, early>>
-----------------------------------------------------------------------------
(* /clear on a queued suggestion, without a transaction.                   *)
ClearMessage(c) ==
  /\ At(c, "read", "clear")
  /\ Goto(c, "clearing")
  /\ \/ /\ snap[c].message /\ posted
        /\ posted' = FALSE
        /\ snap' = [snap EXCEPT ![c].message = FALSE]
        /\ UNCHANGED trouble
     \/ ~snap[c].message /\ UNCHANGED <<posted, snap, trouble>>
     \/ snap[c].message /\ trouble' = TRUE /\ UNCHANGED <<posted, snap>>
  /\ UNCHANGED <<filed, row, lock, op, draft, created, suggestions, notice, refused, early>>

(* MUTANT of ClearSave: only the columns that say why are set. *)
ClearSaveNoState(c) ==
  /\ pc[c] = "clearing"
  /\ lock = NoCall
  /\ row' = IF row = NoRow THEN NoRow ELSE snap[c]
  /\ Goto(c, "done")
  /\ UNCHANGED <<filing, lock, op, snap, draft, created, suggestions, notice, history>>

ClearSave(c) ==
  /\ pc[c] = "clearing"
  /\ lock = NoCall
  /\ row' = IF row = NoRow THEN NoRow ELSE [snap[c] EXCEPT !.state = "CLEARED"]
  /\ Goto(c, "done")
  /\ UNCHANGED <<filing, lock, op, snap, draft, created, suggestions, notice, history>>
-----------------------------------------------------------------------------
(* queued_suggestion_resolved_notifications: what is not approved when the *)
(* job reads it is rejected, and approved without a suggestion is an       *)
(* exception.                                                              *)
Notify(c) ==
  /\ notice[c] = "queued"
  /\ notice' = [notice EXCEPT ![c] =
                  IF row = NoRow THEN "failed"
                  ELSE IF row.state # "APPROVED" THEN "rejected"
                  ELSE IF row.link = NoCall THEN "failed" ELSE "approved"]
  /\ UNCHANGED <<filing, row, lock, calls, suggestions, history>>
-----------------------------------------------------------------------------
File == FileRow \/ FileStranded \/ FileRefused \/ FilePost \/ FileSave

Handle(c) ==
  \/ Resolve(c) \/ CreateRefused(c) \/ Publish(c) \/ ThreadRefused(c) \/ Link(c)
  \/ RejectDelete(c) \/ RejectFinish(c) \/ RejectUnlogged(c)
  \/ RemoveMessage(c) \/ Commit(c)
  \/ ClearMessage(c) \/ ClearSave(c)

Next ==
  \/ File \/ FileAborts
  \/ \E c \in Calls : \/ \E o \in Op : Read(c, o)
                      \/ Handle(c) \/ Abort(c) \/ Notify(c)

(* Tasks that can go on do (a wait for a row lock ends, as its holder goes *)
(* on), and the worker runs its jobs.  Nobody has to press a button.       *)
Fairness ==
  \A c \in Calls : WF_vars(Handle(c)) /\ WF_vars(Notify(c))

Spec == Init /\ [][Next]_vars

FairSpec == Spec /\ Fairness
-----------------------------------------------------------------------------
Resolved == row # NoRow /\ row.state # "PENDING"
Quiet == ~Filing /\ \A c \in Calls : ~Active(c)

(* related_suggestion never names a suggestion that is not there, however  *)
(* the transactions of moderators interleave or are rolled back.           *)
LinkIsStored == row # NoRow /\ row.link # NoCall => row.link \in stored

(* Once filed and resolved, a queued suggestion is never pending again: it *)
(* cannot come up in /queue view a second time.                            *)
ResolvedStays == [][Resolved /\ ~Filing /\ row' # NoRow => row'.state # "PENDING"]_vars

(* When all is quiet and nothing failed, what the suggestions channel      *)
(* shows of this suggestion is what the database holds.                    *)
PublishedIsStored == Quiet /\ ~trouble => public = stored

(* When all is quiet and nothing failed, a resolved suggestion has left    *)
(* the queue channel.  (A moderator who is faster than the save that files *)
(* it works on a copy that knows no message.)                              *)
ResolvedLeavesQueue == Quiet /\ ~trouble /\ ~early /\ Resolved => ~posted

(* Whoever resolves it, the author is told in the end, unless something    *)
(* failed or the suggestion was refused.                                   *)
AuthorIsTold ==
  \A c \in Calls :
    pc[c] = "resolved" ~>
      trouble \/ c \in refused \/ notice[c] \in {"approved", "rejected", "failed"}

(* menus.queue_paginator.responses.already_resolved: "This queued          *)
(* suggestion has already been resolved."  One suggestion in the queue     *)
(* becomes at most one suggestion.                                         *)
ResolvedOnce == \A c, d \in stored : c = d

(* "Notifies users of when there queued suggestion has been resolved": the *)
(* author of a suggestion is not told that it was rejected when the only   *)
(* moderator there is has approved it.                                     *)
ToldAsResolved ==
  ~trouble /\ ~early /\ (\A c \in Calls : op[c] \in {"approve", NoOp}) =>
    \A c \in Calls : notice[c] # "rejected"
=============================================================================
