------------------------- MODULE SuggestionLifecycle -------------------------
(***************************************************************************)
(* One suggestion, from the handler that creates it to the jobs that edit  *)
(* its Discord message.                                                    *)
(*                                                                         *)
(* The state is spread over three places no transaction spans: the row and *)
(* its votes in Postgres, the message in Discord, the debounce key and the *)
(* scheduled jobs in Redis.  Every handler runs in its own task, often in  *)
(* another process, and others run at each of its awaits.  A handler works *)
(* on the copy of the row it fetched, and save() writes every column of    *)
(* that copy back.                                                         *)
(*                                                                         *)
(* A call is one interaction: it picks an operation, fetches the           *)
(* suggestion and goes on step by step.  When it asks for an edit, the job *)
(* it may enqueue is part of the call, as in EditDebounce.                 *)
(***************************************************************************)

CONSTANTS
  Users,            (* those who vote                                      *)
  Calls,            (* handler invocations; also names the log message one *)
                    (* of them may post                                    *)
  Notes,            (* texts of moderator notes                            *)
  Resolutions,      (* subset of the states a suggestion is resolved to    *)
  KeepLogs,         (* values guild_config.keep_logs may have              *)
  Original,         (* the message in the suggestions channel              *)
  NoCall, NoMessage, NoNote, NoRow, NoOp

ASSUME ConstantsAssumption ==
  /\ Resolutions \subseteq {"APPROVED", "REJECTED", "IMPLEMENTED", "DUPLICATE"}
  /\ KeepLogs \subseteq BOOLEAN
  /\ NoCall \notin Calls
  /\ Original \notin Calls
  /\ NoMessage \notin Calls \cup {Original}
  /\ NoNote \notin Notes

VARIABLES
  made,      (* how far the creating handler has come                      *)
  row,       (* the row in suggestions, or NoRow                           *)
  votes,     (* the rows in suggestion_votes                               *)
  shown,     (* what each Discord message shows, NoMessage: there is none  *)
  pc,        (* how far each call, and then its job, has come              *)
  op,        (* what each call is about                                    *)
  snap,      (* the copy of the row a call or its job works on             *)
  tally,     (* the votes a job has counted                                *)
  key,       (* the call whose SET NX the debounce key stems from          *)
  dirty,     (* history: a change that asks for an edit, not yet fetched   *)
  orphaned,  (* history: a crash since the last fetch may have cost an edit *)
  trouble,   (* history: some step of the bot has failed                   *)
  outdated,  (* history: the handlers whose copy of the row was saved over *)
             (* while they were still to save it; Original: the creating   *)
             (* handler                                                    *)
  outrun,    (* history: the jobs at work when a later one has fetched     *)
  lagging    (* history: the messages last edited by a job while outrun    *)

copies == <<row, outdated>>
database == <<copies, votes>>
calls == <<pc, op, snap, tally>>
edits == <<outrun, lagging>>
jobs == <<key, edits>>
history == <<dirty, orphaned, trouble>>
vars == <<made, database, shown, calls, jobs, history>>

State == {"PENDING", "CLEARED"} \cup Resolutions
VoteType == {"UpVote", "DownVote"}
Messages == Calls \cup {Original}
Row == [state : State, note : Notes \cup {NoNote}, message : Messages \cup {NoMessage}]
Vote == [user : Users, type : VoteType]

ASSUME NoRowAssumption == NoRow \notin Row

Content == [state : State, note : Notes \cup {NoNote}, votes : SUBSET Vote, final : BOOLEAN]

ASSUME NoContentAssumption == NoMessage \notin Content

Op == [kind : {"vote"}, user : Users, type : VoteType]
      \cup [kind : {"resolve"}, state : Resolutions, keep : KeepLogs]
      \cup [kind : {"clear"}]
      \cup [kind : {"note"}, note : Notes \cup {NoNote}]
Stage == {"idle", "fetched", "differs", "resaving", "resolved", "logged", "removed",
          "clearing", "saved", "keyed", "scheduled", "running", "counting", "counted", "done",
          "left",      \* over, and never asked for an edit
          "aborted"}   \* died before the edit it owed was fetched
Idle == {"idle", "done", "left", "aborted"}
MadeStage == {"new", "row", "posted", "pointed", "announced", "done",
              "refused", "withdrawn", "aborted"}

(* A job between its read of the row and its edit of the message. *)
InFlight(c) == pc[c] \in {"running", "counting", "counted"}

CallsOK ==
  /\ pc \in [Calls -> Stage]
  /\ op \in [Calls -> Op \cup {NoOp}]
  /\ snap \in [Calls -> Row \cup {NoRow}]
  /\ tally \in [Calls -> SUBSET Vote]
  \* A call under way has an operation and a row to work on.
  /\ \A c \in Calls : pc[c] \notin Idle => op[c] \in Op /\ snap[c] \in Row

TypeOK ==
  /\ made \in MadeStage
  /\ row \in Row \cup {NoRow}
  /\ votes \subseteq Vote
  /\ shown \in [Messages -> Content \cup {NoMessage}]
  /\ CallsOK
  /\ key \in Calls \cup {NoCall}
  /\ dirty \in BOOLEAN /\ orphaned \in BOOLEAN /\ trouble \in BOOLEAN
  /\ outdated \subseteq Messages /\ outrun \subseteq Calls
  /\ lagging \subseteq Messages \cup {NoMessage}

Init ==
  /\ made = "new"
  /\ row = NoRow
  /\ votes = {}
  /\ shown = [m \in Messages |-> NoMessage]
  /\ pc = [c \in Calls |-> "idle"]
  /\ op = [c \in Calls |-> NoOp]
  /\ snap = [c \in Calls |-> NoRow]
  /\ tally = [c \in Calls |-> {}]
  /\ key = NoCall
  /\ dirty = FALSE /\ orphaned = FALSE /\ trouble = FALSE
  /\ outdated = {} /\ outrun = {} /\ lagging = {}
-----------------------------------------------------------------------------
(* What the steps have in common. *)

(* Moderators' handlers between their fetch and their last save, and those *)
(* who will save the row: the creating handler among them, up to then.     *)
Writing(c) ==
  \/ pc[c] \in {"resaving", "resolved", "logged", "removed", "clearing"}
  \/ pc[c] = "fetched" /\ op[c].kind # "vote"
Creating == made \in {"row", "posted", "pointed", "announced"}
RowWriters == {c \in Calls : Writing(c)}
              \cup {m \in {Original} : made \in {"row", "posted", "pointed"}}

(* Handler h writes the row, or deletes it: if that changes it, whoever    *)
(* else is still to save the row holds a copy that it has left behind.     *)
WriteRow(h, r) ==
  /\ row' = r
  /\ outdated' = IF r = row THEN outdated ELSE outdated \cup (RowWriters \ {h})

(* Table.save() of a row that was fetched: UPDATE of all columns by primary *)
(* key.  It revives no deleted row.                                        *)
SaveRow(h, r) == WriteRow(h, IF row = NoRow THEN NoRow ELSE r)

(* as_components: the row's content, the votes, and for final the resolved *)
(* wording and no vote buttons.                                            *)
Render(r, v, final) ==
  [state |-> r.state, note |-> r.note, votes |-> v, final |-> final]

Goto(c, stage) == pc' = [pc EXCEPT ![c] = stage]

(* The call is over: its variables are gone with it. *)
Leave(c, stage) ==
  /\ Goto(c, stage)
  /\ op' = [op EXCEPT ![c] = NoOp]
  /\ snap' = [snap EXCEPT ![c] = NoRow]
  /\ tally' = [tally EXCEPT ![c] = {}]

(* The step leaves what a call works on as it is. *)
SameWork == UNCHANGED <<op, snap, tally>>

At(c, stage, kind) == pc[c] = stage /\ op[c].kind = kind

(* fetch_suggestion finds a row that names its message. *)
Published == row # NoRow /\ row.message # NoMessage

(* The vote of a user; the UNIQUE constraint keeps it to one. *)
VotesOf(u) == {v \in votes : v.user = u}
-----------------------------------------------------------------------------
(* SuggestionMenu.handle_suggestion *)

(* The row the creator holds in memory all along. *)
Fresh(m) == [state |-> "PENDING", note |-> NoNote, message |-> m]

CreateRow ==
  /\ made = "new"
  /\ made' = "row"
  /\ WriteRow(Original, Fresh(NoMessage))
  /\ UNCHANGED <<votes, shown, calls, jobs, history>>

(* Thread name too long, no suggestions channel, or no permission to fetch *)
(* it or to write to it: the row is deleted again.                         *)
CreateRefused ==
  /\ made = "row"
  /\ made' = "refused"
  /\ WriteRow(Original, NoRow)
  /\ UNCHANGED <<votes, shown, calls, jobs, history>>

(* The message is out: its buttons can be pressed from here on. *)
PostMessage ==
  /\ made = "row"
  /\ made' = "posted"
  /\ shown' = [shown EXCEPT ![Original] = Render(Fresh(NoMessage), {}, FALSE)]
  /\ UNCHANGED <<database, calls, jobs, history>>

(* Without a thread to create (threads_for_suggestions), it is the last save. *)
PointToMessage ==
  /\ made = "posted"
  /\ made' \in {"pointed", "done"}
  /\ SaveRow(Original, Fresh(Original))
  /\ UNCHANGED <<votes, shown, calls, jobs, history>>

(* The thread's id is saved, all columns with it. *)
CreateThread ==
  /\ made = "pointed"
  /\ made' = "done"
  /\ SaveRow(Original, Fresh(Original))
  /\ UNCHANGED <<votes, shown, calls, jobs, history>>

(* The thread may not be created: the row is deleted, its votes with it    *)
(* (ON DELETE CASCADE), and the message stays.                             *)
ThreadRefused ==
  /\ made = "pointed"
  /\ made' = "withdrawn"
  /\ WriteRow(Original, NoRow)
  /\ votes' = {}
  /\ UNCHANGED <<shown, calls, jobs, history>>

(* The same handler, called by the approval of a queued suggestion, works  *)
(* in that transaction: the row is seen when it commits, the message when  *)
(* it is sent.  What is refused before that leaves nothing behind.         *)
PostDraft ==
  /\ made = "new"
  /\ made' = "announced"
  /\ shown' = [shown EXCEPT ![Original] = Render(Fresh(NoMessage), {}, FALSE)]
  /\ UNCHANGED <<database, calls, jobs, history>>

CommitDraft ==
  /\ made = "announced"
  /\ made' = "done"
  /\ WriteRow(Original, Fresh(Original))
  /\ UNCHANGED <<votes, shown, calls, jobs, history>>

(* The thread may not be created: the transaction commits without the row. *)
WithdrawDraft ==
  /\ made = "announced"
  /\ made' = "withdrawn"
  /\ UNCHANGED <<database, shown, calls, jobs, history>>

(* Another exception, or the process dies: the row stays as it is, and a   *)
(* draft is rolled back.                                                   *)
CreateAborts ==
  /\ Creating
  /\ made' = "aborted"
  /\ trouble' = TRUE
  /\ UNCHANGED <<database, shown, calls, jobs, dirty, orphaned>>
-----------------------------------------------------------------------------
(* Every handler starts with fetch_suggestion.  One that finds no row, or  *)
(* a vote that finds it resolved, answers the user and is done.            *)
Fetch(c, o) ==
  /\ pc[c] = "idle"
  /\ made \notin {"new", "row", "refused"}
  /\ LET found == row # NoRow /\ (o.kind = "vote" => row.state = "PENDING")
     IN  \/ found /\ Goto(c, "fetched")
            /\ op' = [op EXCEPT ![c] = o]
            /\ snap' = [snap EXCEPT ![c] = row]
            /\ UNCHANGED tally
         \/ ~found /\ Leave(c, "left")
  /\ UNCHANGED <<made, database, shown, jobs, history>>

(* MUTANT of InsertVote: the vote is looked up first and inserted when     *)
(* there was none, without the UNIQUE constraint.                          *)
InsertVoteUnchecked(c) ==
  /\ At(c, "fetched", "vote")
  /\ row # NoRow
  /\ votes' = votes \cup {[user |-> op[c].user, type |-> op[c].type]}
  /\ dirty' = TRUE
  /\ Goto(c, "saved")
  /\ SameWork
  /\ UNCHANGED <<made, copies, shown, jobs, orphaned, trouble>>

(* MUTANT of InsertVote: a vote counter on the suggestion, saved with it.  *)
InsertVoteAndCount(c) ==
  /\ At(c, "fetched", "vote")
  /\ row # NoRow
  /\ VotesOf(op[c].user) = {}
  /\ votes' = votes \cup {[user |-> op[c].user, type |-> op[c].type]}
  /\ SaveRow(c, snap[c])
  /\ dirty' = TRUE
  /\ Goto(c, "saved")
  /\ SameWork
  /\ UNCHANGED <<made, shown, jobs, orphaned, trouble>>

(* handle_vote's transaction.  INSERT ... ON CONFLICT (user_id, suggestion) *)
(* DO NOTHING found no earlier vote: the new one is committed.             *)
InsertVote(c) ==
  /\ At(c, "fetched", "vote")
  /\ row # NoRow
  /\ VotesOf(op[c].user) = {}
  /\ votes' = votes \cup {[user |-> op[c].user, type |-> op[c].type]}
  /\ dirty' = TRUE
  /\ Goto(c, "saved")
  /\ SameWork
  /\ UNCHANGED <<made, copies, shown, jobs, orphaned, trouble>>

(* The row is gone: the foreign key refuses the vote, the handler raises.  *)
VoteOrphaned(c) ==
  /\ At(c, "fetched", "vote")
  /\ row = NoRow
  /\ Leave(c, "left")
  /\ trouble' = TRUE
  /\ UNCHANGED <<made, database, shown, jobs, dirty, orphaned>>

(* The conflict: the earlier vote is read, and the same one again is       *)
(* answered with "already voted".                                          *)
FindVote(c) ==
  /\ At(c, "fetched", "vote")
  /\ \E v \in VotesOf(op[c].user) :
       \/ v.type = op[c].type /\ Leave(c, "left")
       \/ v.type # op[c].type /\ Goto(c, "differs") /\ SameWork
  /\ UNCHANGED <<made, database, shown, jobs, history>>

(* vote_obj.save(): an UPDATE by primary key, of nothing if it is gone. *)
ChangeVote(c) ==
  /\ At(c, "differs", "vote")
  /\ LET u == op[c].user
     IN  votes' = (votes \ VotesOf(u))
                  \cup {[v EXCEPT !.type = op[c].type] : v \in VotesOf(u)}
  /\ dirty' = TRUE
  /\ Goto(c, "saved")
  /\ SameWork
  /\ UNCHANGED <<made, copies, shown, jobs, orphaned, trouble>>
-----------------------------------------------------------------------------
(* MUTANT of NoteSave: no queue_message_edit() after the save. *)
NoteSaveOnly(c) ==
  /\ At(c, "fetched", "note")
  /\ SaveRow(c, [snap[c] EXCEPT !.note = op[c].note])
  /\ Leave(c, "left")
  /\ UNCHANGED <<made, votes, shown, jobs, history>>

(* /note add and /note remove *)
NoteSave(c) ==
  /\ At(c, "fetched", "note")
  /\ SaveRow(c, [snap[c] EXCEPT !.note = op[c].note])
  /\ dirty' = TRUE
  /\ Goto(c, "saved")
  /\ SameWork
  /\ UNCHANGED <<made, votes, shown, jobs, orphaned, trouble>>
-----------------------------------------------------------------------------
(* resolve_suggestion.  Nothing in it asks what state the suggestion is in. *)
ResolveSave(c) ==
  /\ At(c, "fetched", "resolve")
  /\ snap' = [snap EXCEPT ![c].state = op[c].state]
  /\ SaveRow(c, snap'[c])
  /\ \/ op[c].keep /\ Goto(c, "resaving") /\ dirty' = TRUE
     \/ ~op[c].keep /\ Goto(c, "resolved") /\ UNCHANGED dirty
  /\ UNCHANGED <<made, votes, shown, op, tally, jobs, orphaned, trouble>>

(* keep_logs: after the thread was archived, the same row is saved again.  *)
ResolveSaveAgain(c) ==
  /\ pc[c] = "resaving"
  /\ SaveRow(c, snap[c])
  /\ dirty' = TRUE
  /\ Goto(c, "saved")
  /\ SameWork
  /\ UNCHANGED <<made, votes, shown, jobs, orphaned, trouble>>

(* No log channel, or no way to post there: an answer, and no more.  The   *)
(* row stays resolved and the message as it was.                           *)
ResolveNoLog(c) ==
  /\ pc[c] = "resolved"
  /\ Leave(c, "left")
  /\ trouble' = TRUE
  /\ UNCHANGED <<made, database, shown, jobs, dirty, orphaned>>

PostLog(c) ==
  /\ pc[c] = "resolved"
  /\ shown' = [shown EXCEPT ![c] = Render(snap[c], votes, TRUE)]
  /\ Goto(c, "logged")
  /\ SameWork
  /\ UNCHANGED <<made, database, jobs, history>>

(* The message the row named is deleted, if it can be. *)
RemoveOld(c) ==
  /\ pc[c] = "logged"
  /\ Goto(c, "removed")
  /\ LET old == snap[c].message
     IN  \/ /\ old # NoMessage
            /\ shown[old] # NoMessage
            /\ shown' = [shown EXCEPT ![old] = NoMessage]
            /\ UNCHANGED trouble
         \/ /\ old = NoMessage
            /\ UNCHANGED <<shown, trouble>>
         \/ /\ old # NoMessage                    \* fetching or deleting is refused
            /\ trouble' = TRUE
            /\ UNCHANGED shown
  /\ SameWork
  /\ UNCHANGED <<made, database, jobs, dirty, orphaned>>

PointToLog(c) ==
  /\ pc[c] = "removed"
  /\ SaveRow(c, [snap[c] EXCEPT !.message = c])
  /\ Leave(c, "left")
  /\ UNCHANGED <<made, votes, shown, jobs, history>>
-----------------------------------------------------------------------------
(* MUTANT of ClearMessage: the row keeps the id of the deleted message. *)
ClearMessageOnly(c) ==
  /\ At(c, "fetched", "clear")
  /\ Goto(c, "clearing")
  /\ snap[c].message # NoMessage
  /\ shown' = [shown EXCEPT ![snap[c].message] = NoMessage]
  /\ SameWork
  /\ UNCHANGED <<made, database, jobs, history>>

(* /clear: the message first, then the row. *)
ClearMessage(c) ==
  /\ At(c, "fetched", "clear")
  /\ Goto(c, "clearing")
  /\ LET old == snap[c].message
     IN  \/ /\ old # NoMessage
            /\ shown[old] # NoMessage
            /\ shown' = [shown EXCEPT ![old] = NoMessage]
            /\ snap' = [snap EXCEPT ![c].message = NoMessage]
            /\ UNCHANGED trouble
         \/ /\ old = NoMessage
            /\ UNCHANGED <<shown, snap, trouble>>
         \/ /\ old # NoMessage                    \* any HikariError: "This is fine"
            /\ trouble' = TRUE
            /\ UNCHANGED <<shown, snap>>
  /\ UNCHANGED <<made, database, op, tally, jobs, dirty, orphaned>>

ClearSave(c) ==
  /\ pc[c] = "clearing"
  /\ SaveRow(c, [snap[c] EXCEPT !.state = "CLEARED"])
  /\ Leave(c, "left")
  /\ UNCHANGED <<made, votes, shown, jobs, history>>
-----------------------------------------------------------------------------
(* queue_suggestion_edit: SET NX, and when it set the key, the enqueue. *)
TakeKey(c) ==
  /\ pc[c] = "saved"
  /\ key = NoCall
  /\ key' = c
  /\ Goto(c, "keyed")
  /\ SameWork
  /\ UNCHANGED <<made, database, shown, edits, history>>

Drop(c) ==
  /\ pc[c] = "saved"
  /\ key # NoCall
  /\ Leave(c, "done")
  /\ UNCHANGED <<made, database, shown, jobs, history>>

Enqueue(c) ==
  /\ pc[c] = "keyed"
  /\ Goto(c, "scheduled")
  /\ SameWork
  /\ UNCHANGED <<made, database, shown, jobs, history>>

Expire ==
  /\ key # NoCall
  /\ key' = NoCall
  /\ UNCHANGED <<made, database, shown, calls, edits, history>>

(* A job that fetches the row outruns those still at work with older copies. *)
Outrun == outrun' = outrun \cup {d \in Calls : InFlight(d)}

EndJob(c) == Leave(c, "done") /\ outrun' = outrun \ {c}

(* MUTANT of JobFetch: the job is due while its own key is still there.    *)
JobFetchEarly(c) ==
  /\ pc[c] = "scheduled"
  /\ Published
  /\ Goto(c, "running")
  /\ snap' = [snap EXCEPT ![c] = row]
  /\ Outrun
  /\ dirty' = FALSE
  /\ orphaned' = (key # NoCall /\ pc[key] = "aborted")
  /\ UNCHANGED <<made, database, shown, op, tally, key, lagging, trouble>>

(* edit_suggestion_message: fetch the row (one that is gone, or names no   *)
(* message, is logged as an error and ends the job), *)
JobFetch(c) ==
  /\ pc[c] = "scheduled"
  /\ key # c
  /\ \/ /\ ~Published
        /\ Leave(c, "done")
        /\ trouble' = TRUE
        /\ UNCHANGED outrun
     \/ /\ Published
        /\ Goto(c, "running")
        /\ snap' = [snap EXCEPT ![c] = row]
        /\ Outrun
        /\ UNCHANGED <<op, tally, trouble>>
  /\ dirty' = FALSE
  /\ orphaned' = (key # NoCall /\ pc[key] = "aborted")
  /\ UNCHANGED <<made, database, shown, key, lagging>>

(* count the votes as it renders, up votes first,                          *)
JobCountUp(c) ==
  /\ pc[c] = "running"
  /\ tally' = [tally EXCEPT ![c] = {v \in votes : v.type = "UpVote"}]
  /\ Goto(c, "counting")
  /\ UNCHANGED <<made, database, shown, op, snap, jobs, history>>

(* down votes in a query of their own,                                     *)
JobCountDown(c) ==
  /\ pc[c] = "counting"
  /\ tally' = [tally EXCEPT ![c] = @ \cup {v \in votes : v.type = "DownVote"}]
  /\ Goto(c, "counted")
  /\ UNCHANGED <<made, database, shown, op, snap, jobs, history>>

(* and edit the message the row named; one that is gone is only logged.    *)
(* The flags are those of the call that enqueued the job.                  *)
JobEdit(c) ==
  /\ pc[c] = "counted"
  /\ LET m == snap[c].message
     IN  /\ shown' = IF shown[m] = NoMessage THEN shown
                     ELSE [shown EXCEPT ![m] =
                             Render(snap[c], tally[c], op[c].kind = "resolve")]
         /\ lagging' = IF c \in outrun THEN lagging \cup {m} ELSE lagging \ {m}
  /\ EndJob(c)
  /\ UNCHANGED <<made, database, key, history>>

(* Forbidden: the guild is told, the message stays as it is. *)
JobRefused(c) ==
  /\ pc[c] = "counted"
  /\ EndJob(c)
  /\ trouble' = TRUE
  /\ UNCHANGED <<made, database, shown, key, lagging, dirty, orphaned>>

(* An exception nobody catches, or a process that dies, ends a handler or  *)
(* its job between two steps that change something.  Jobs don't retry.     *)
Abort(c) ==
  /\ \/ /\ pc[c] \in {"resolved", "logged", "removed", "clearing"}
        /\ Leave(c, "left")
        /\ UNCHANGED outrun
     \/ InFlight(c) /\ EndJob(c)
  /\ trouble' = TRUE
  /\ UNCHANGED <<made, database, shown, key, lagging, dirty, orphaned>>

(* The same while the call owes an edit. *)
Crash(c) ==
  /\ \/ pc[c] \in {"resaving", "saved", "keyed"}
     \/ pc[c] = "scheduled" /\ key # c
  /\ Leave(c, "aborted")
  /\ trouble' = TRUE /\ orphaned' = TRUE
  /\ UNCHANGED <<made, database, shown, jobs, dirty>>
-----------------------------------------------------------------------------
Create ==
  \/ CreateRow \/ CreateRefused \/ PostMessage \/ PointToMessage
  \/ CreateThread \/ ThreadRefused
  \/ PostDraft \/ CommitDraft \/ WithdrawDraft

Handle(c) ==
  \/ InsertVote(c) \/ VoteOrphaned(c) \/ FindVote(c) \/ ChangeVote(c)
  \/ NoteSave(c)
  \/ ResolveSave(c) \/ ResolveSaveAgain(c) \/ ResolveNoLog(c)
  \/ PostLog(c) \/ RemoveOld(c) \/ PointToLog(c)
  \/ ClearMessage(c) \/ ClearSave(c)
  \/ TakeKey(c) \/ Drop(c) \/ Enqueue(c)

Job(c) == JobFetch(c) \/ JobCountUp(c) \/ JobCountDown(c) \/ JobEdit(c) \/ JobRefused(c)

Next ==
  \/ Create \/ CreateAborts
  \/ \E c \in Calls : \/ \E o \in Op : Fetch(c, o)
                      \/ Handle(c) \/ Job(c) \/ Abort(c) \/ Crash(c)
  \/ Expire

(* Tasks that can go on do, Redis expires keys, the worker polls for jobs. *)
(* Nobody has to press a button, and nothing has to crash.                 *)
Fairness ==
  /\ WF_vars(Expire)
  /\ \A c \in Calls : WF_vars(Handle(c)) /\ WF_vars(Job(c))

Spec == Init /\ [][Next]_vars

FairSpec == Spec /\ Fairness
-----------------------------------------------------------------------------
(* What EditDebounce sees of a call: whether it has saved a change that    *)
(* asks for an edit, and how far the job it may have enqueued has come.    *)
Debounced(stage) ==
  CASE stage \in {"saved", "keyed", "scheduled"} -> stage
    [] stage = "resaving" -> "saved"
    [] stage \in {"running", "counting", "counted", "done"} -> "done"
    [] stage = "aborted" -> "crashed"
    [] OTHER -> "ready"

DebouncedPc == [c \in Calls |-> Debounced(pc[c])]

Debounce == INSTANCE EditDebounce WITH
  EditCalls <- Calls, NoEditCall <- NoCall, edit_pc <- DebouncedPc

(* The handlers and jobs of a suggestion, whatever else they do, use the   *)
(* debounce as EditDebounce describes it: its promises hold here as well.  *)
DebounceSpec == Debounce!EditFairSpec
-----------------------------------------------------------------------------
(* A user has one vote on a suggestion however often and wherever the      *)
(* buttons are pressed at once, and none outlives the row it refers to.    *)
VotesAreKeyed ==
  /\ \A v, w \in votes : v.user = w.user => v = w
  /\ row = NoRow => votes = {}

(* No handler is between its fetch and its last step. *)
Quiet == ~Creating /\ \A c \in Calls : pc[c] \in Idle

(* Once all is quiet and nothing failed, the messages in Discord are those *)
(* the database knows: exactly the one the row names, none if it names     *)
(* none.  (When the thread was refused, the row is gone and the original   *)
(* stays behind.)  Handlers may overlap; only where one of them saved over *)
(* a row that another was still to save can a message be left behind.      *)
MessagesMatchRow ==
  Quiet /\ ~trouble /\ outdated = {} =>
    {m \in Messages : shown[m] # NoMessage} =
      IF row # NoRow THEN {row.message} \ {NoMessage}
      ELSE IF made = "withdrawn" THEN {Original} ELSE {}

(* Once all is quiet and nothing failed, the message shows the row's state *)
(* and note, and in the suggestions channel every vote: even if the jobs   *)
(* of two edits overlapped, unless the older one was the last to edit.     *)
DisplayMatchesRow ==
  Quiet /\ ~trouble /\ outdated = {} /\ row # NoRow =>
    \A m \in Messages \ lagging :
      row.message = m /\ shown[m] # NoMessage =>
        /\ shown[m].state = row.state
        /\ shown[m].note = row.note
        /\ m = Original => shown[m].votes = votes

(* A resolution (or a clear) stands: nothing makes the suggestion pending  *)
(* again.  Handlers that overlap it must not write an older copy back.     *)
ResolutionStands ==
  [][row # NoRow /\ row.state # "PENDING" /\ row' # NoRow =>
       row'.state # "PENDING"]_vars

(* What undoes a resolution (or a clear): the /note of a moderator, or the *)
(* creating handler, who held an older copy of the row when the resolution *)
(* was saved.  No vote, no job, no later command, no command on a row that *)
(* nobody saved meanwhile, and no second resolution makes it pending again. *)
OnlyStaleCopiesReopen ==
  [][row # NoRow /\ row.state # "PENDING" /\ row' # NoRow /\ row'.state = "PENDING" =>
       \/ \E c \in Calls \cap outdated : NoteSave(c)
       \/ Original \in outdated /\ Create]_vars

(* errors.suggest.missing_create_thread_perms: "Note your suggestion was   *)
(* still created successfully."  A suggestion that people see in the       *)
(* suggestions channel, no step of the bot having failed, is in the        *)
(* database, or its buttons and commands find nothing.                     *)
PostedIsStored ==
  Quiet /\ ~trouble /\ shown[Original] # NoMessage => row # NoRow

(* commands.resolve.responses.keep_logs_edit_soon: "It will be edited in a *)
(* few seconds to reflect the new state."  Once all is quiet and nothing   *)
(* failed, a resolved suggestion has no vote buttons left.                 *)
ResolvedHasNoButtons ==
  Quiet /\ ~trouble /\ row # NoRow /\ row.state \in Resolutions
     /\ row.message # NoMessage /\ shown[row.message] # NoMessage =>
    shown[row.message].final
=============================================================================
