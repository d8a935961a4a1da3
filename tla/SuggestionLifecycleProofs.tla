---------------------- MODULE SuggestionLifecycleProofs ----------------------
(***************************************************************************)
(* What holds of a suggestion for any number of users and of overlapping   *)
(* handlers.                                                               *)
(***************************************************************************)
EXTENDS SuggestionLifecycle, TLAPS

(* What a handler reads from its operation. *)
LEMMA VoteOp ==
  ASSUME NEW o \in Op, o.kind = "vote"
  PROVE  [user |-> o.user, type |-> o.type] \in Vote
  BY DEF Op, Vote

(* The fields of the two operations that are records of several. *)
LEMMA ResolveOp ==
  ASSUME NEW o \in Op, o.kind = "resolve"
  PROVE  o.state \in Resolutions
  BY DEF Op

LEMMA NoteOp ==
  ASSUME NEW o \in Op, o.kind = "note"
  PROVE  o.note \in Notes \cup {NoNote}
  BY DEF Op

(* The state the program starts in is well typed. *)
LEMMA TypeInit == Init => TypeOK
  BY DEF Init, TypeOK, CallsOK, MadeStage, Stage, Idle

(* A call that goes on has the operation and the row it had.               *)
LEMMA GotoOK ==
  ASSUME CallsOK, NEW c \in Calls, pc[c] \notin Idle,
         NEW stage \in Stage, Goto(c, stage), SameWork
  PROVE  CallsOK'
  BY DEF CallsOK, Goto, SameWork

(* A call that is over needs none.                                         *)
LEMMA LeaveOK ==
  ASSUME CallsOK, NEW c \in Calls,
         NEW stage \in {"done", "left", "aborted"}, Leave(c, stage)
  PROVE  CallsOK'
<1> USE DEF CallsOK, Leave, Goto
<1>1. pc' \in [Calls -> Stage]
  BY DEF Stage
<1>2. op' \in [Calls -> Op \cup {NoOp}] /\ snap' \in [Calls -> Row \cup {NoRow}]
  OBVIOUS
<1>3. tally' \in [Calls -> SUBSET Vote]
  OBVIOUS
<1>4. \A d \in Calls : pc'[d] \notin Idle => op'[d] \in Op /\ snap'[d] \in Row
  BY DEF Idle
<1>5. QED
  BY <1>1, <1>2, <1>3, <1>4

(* What a moderator's handler saves is a row.                              *)
LEMMA RowSaved ==
  ASSUME TypeOK, NEW c \in Calls,
         \/ NoteSave(c) \/ ResolveSave(c) \/ ResolveSaveAgain(c)
         \/ PointToLog(c) \/ ClearSave(c)
  PROVE  \E r \in Row : SaveRow(c, r)
<1> USE DEF TypeOK, CallsOK, Idle, At
<1>1. CASE NoteSave(c)
  <2>1. [snap[c] EXCEPT !.note = op[c].note] \in Row
    BY <1>1, NoteOp DEF NoteSave, Row
  <2>2. QED
    BY <1>1, <2>1 DEF NoteSave
<1>2. CASE ResolveSave(c)
  <2>1. snap'[c] = [snap[c] EXCEPT !.state = op[c].state]
    BY <1>2 DEF ResolveSave
  <2>2. snap'[c] \in Row
    BY <1>2, <2>1, ResolveOp DEF ResolveSave, Row, State
  <2>3. QED
    BY <1>2, <2>2 DEF ResolveSave
<1>3. CASE ResolveSaveAgain(c)
  BY <1>3 DEF ResolveSaveAgain
<1>4. CASE PointToLog(c)
  <2>1. [snap[c] EXCEPT !.message = c] \in Row
    BY <1>4 DEF PointToLog, Row, Messages
  <2>2. QED
    BY <1>4, <2>1 DEF PointToLog
<1>5. CASE ClearSave(c)
  <2>1. [snap[c] EXCEPT !.state = "CLEARED"] \in Row
    BY <1>5 DEF ClearSave, Row, State
  <2>2. QED
    BY <1>5, <2>1 DEF ClearSave
<1>6. QED
  BY <1>1, <1>2, <1>3, <1>4, <1>5

(* A row as add_suggestion writes it is a row. *)
LEMMA FreshRow ==
  \A m \in Messages \cup {NoMessage} : Fresh(m) \in Row /\ Fresh(m).state = "PENDING"
  BY DEF Fresh, Row, State

(* Each action keeps the types, and leaves no call under way without a row *)
(* and an operation.                                                       *)
LEMMA TypeNext == TypeOK /\ [Next]_vars => TypeOK'
<1> SUFFICES ASSUME TypeOK, [Next]_vars
             PROVE  TypeOK'
  OBVIOUS
<1> USE DEF TypeOK, copies, database, calls, edits, jobs, history
<1> DEFINE RestOK == /\ made' \in MadeStage
                     /\ row' \in Row \cup {NoRow}
                     /\ votes' \subseteq Vote
                     /\ shown' \in [Messages -> Content \cup {NoMessage}]
                     /\ key' \in Calls \cup {NoCall}
                     /\ dirty' \in BOOLEAN /\ orphaned' \in BOOLEAN /\ trouble' \in BOOLEAN
                     /\ outdated' \subseteq Messages /\ outrun' \subseteq Calls
                     /\ lagging' \subseteq Messages \cup {NoMessage}
<1>0. RowWriters \subseteq Messages
  BY DEF RowWriters, Messages
<1>1. CASE Create \/ CreateAborts
  <2>1. CallsOK'
    BY <1>1 DEF CallsOK, Create, CreateRow, CreateRefused, PostMessage, PointToMessage,
                CreateThread, ThreadRefused, PostDraft, CommitDraft, WithdrawDraft, CreateAborts
  <2>2. RestOK
    <3> USE DEF MadeStage
    <3>1. CASE CreateRow
      BY <1>0, <3>1 DEF CreateRow, WriteRow, Fresh, Row, State
    <3>2. CASE CreateRefused
      BY <1>0, <3>2 DEF CreateRefused, WriteRow
    <3>3. CASE PostMessage
      BY <3>3 DEF PostMessage, Fresh, Render, Content, State, Messages
    <3>4. CASE PointToMessage
      BY <1>0, <3>4 DEF PointToMessage, SaveRow, WriteRow, Fresh, Row, State, Messages
    <3>5. CASE CreateThread
      BY <1>0, <3>5 DEF CreateThread, SaveRow, WriteRow, Fresh, Row, State, Messages
    <3>6. CASE ThreadRefused
      BY <1>0, <3>6 DEF ThreadRefused, WriteRow
    <3>7. CASE PostDraft
      BY <3>7 DEF PostDraft, Fresh, Render, Content, State, Messages
    <3>8. CASE CommitDraft
      BY <1>0, <3>8 DEF CommitDraft, WriteRow, Fresh, Row, State, Messages
    <3>9. CASE WithdrawDraft \/ CreateAborts
      BY <3>9 DEF WithdrawDraft, CreateAborts
    <3>10. QED
      BY <1>1, <3>1, <3>2, <3>3, <3>4, <3>5, <3>6, <3>7, <3>8, <3>9 DEF Create
  <2>3. QED
    BY <2>1, <2>2
<1>2. ASSUME NEW c \in Calls, NEW o \in Op, Fetch(c, o)
      PROVE  TypeOK'
  <2>1. CallsOK'
    <3>1. CASE Leave(c, "left")
      BY <3>1, LeaveOK
    <3>2. CASE /\ row # NoRow /\ Goto(c, "fetched")
               /\ op' = [op EXCEPT ![c] = o]
               /\ snap' = [snap EXCEPT ![c] = row]
               /\ UNCHANGED tally
      BY <3>2 DEF CallsOK, Goto, Stage
    <3>3. QED
      BY <1>2, <3>1, <3>2 DEF Fetch
  <2>2. QED
    BY <1>2, <2>1 DEF Fetch
<1>3. ASSUME NEW c \in Calls, Handle(c)
      PROVE  TypeOK'
  <2>1. CASE InsertVote(c)
    <3>1. CallsOK'
      BY <2>1, GotoOK DEF InsertVote, At, Stage, Idle
    <3>2. QED
      BY <2>1, <3>1, VoteOp DEF InsertVote, CallsOK, Idle, At
  <2>2. CASE VoteOrphaned(c)
    <3>1. CallsOK'
      BY <2>2, LeaveOK DEF VoteOrphaned
    <3>2. QED
      BY <2>2, <3>1 DEF VoteOrphaned
  <2>3. CASE FindVote(c)
    <3>1. CallsOK'
      <4>1. CASE Leave(c, "left")
        BY <4>1, LeaveOK
      <4>2. CASE Goto(c, "differs") /\ SameWork
        BY <2>3, <4>2, GotoOK DEF FindVote, At, Stage, Idle
      <4>3. QED
        BY <2>3, <4>1, <4>2 DEF FindVote
    <3>2. QED
      BY <2>3, <3>1 DEF FindVote
  <2>4. CASE ChangeVote(c)
    <3>1. CallsOK'
      BY <2>4, GotoOK DEF ChangeVote, At, Stage, Idle
    <3>2. votes' \subseteq Vote
      <4>1. op[c].type \in VoteType
        BY <2>4, VoteOp DEF ChangeVote, At, CallsOK, Idle, Vote
      <4>2. QED
        BY <2>4, <4>1 DEF ChangeVote, VotesOf, Vote
    <3>3. QED
      BY <2>4, <3>1, <3>2 DEF ChangeVote
  <2>5. CASE NoteSave(c)
    <3>1. CallsOK'
      BY <2>5, GotoOK DEF NoteSave, At, Stage, Idle
    <3>2. QED
      BY <1>0, <2>5, <3>1, NoteOp DEF NoteSave, CallsOK, Idle, At, SaveRow, WriteRow, Row
  <2>6. CASE ResolveSave(c)
    <3> USE ResolveOp DEF ResolveSave, At, Goto, CallsOK
    <3>0. op[c] \in Op /\ snap[c] \in Row /\ op[c].kind = "resolve"
      BY <2>6 DEF Idle
    <3>2. snap'[c] \in Row
      BY <2>6, <3>0 DEF Row, State
    <3>1. CallsOK'
      <4>1. snap' \in [Calls -> Row \cup {NoRow}]
        BY <2>6, <3>2
      <4>2. QED
        BY <2>6, <3>0, <3>2, <4>1 DEF Stage
    <3>5. QED
      BY <1>0, <2>6, <3>1, <3>0, <3>2 DEF SaveRow, WriteRow
  <2>7. CASE ResolveSaveAgain(c)
    <3>1. CallsOK'
      BY <2>7, GotoOK DEF ResolveSaveAgain, At, Stage, Idle
    <3>2. QED
      BY <1>0, <2>7, <3>1 DEF ResolveSaveAgain, CallsOK, Idle, SaveRow, WriteRow
  <2>8. CASE ResolveNoLog(c)
    <3>1. CallsOK'
      BY <2>8, LeaveOK DEF ResolveNoLog
    <3>2. QED
      BY <2>8, <3>1 DEF ResolveNoLog
  <2>9. CASE PostLog(c)
    <3>1. CallsOK'
      BY <2>9, GotoOK DEF PostLog, At, Stage, Idle
    <3>2. QED
      BY <2>9, <3>1 DEF PostLog, CallsOK, Idle, Render, Content, Row, Messages
  <2>10. CASE RemoveOld(c)
    <3>1. CallsOK'
      BY <2>10, GotoOK DEF RemoveOld, At, Stage, Idle
    <3>2. QED
      BY <2>10, <3>1 DEF RemoveOld
  <2>11. CASE PointToLog(c)
    <3>1. CallsOK'
      BY <2>11, LeaveOK DEF PointToLog
    <3>2. QED
      BY <1>0, <2>11, <3>1 DEF PointToLog, CallsOK, Idle, SaveRow, WriteRow, Row, Messages
  <2>12. CASE ClearMessage(c)
    <3> USE DEF ClearMessage, At, Goto, CallsOK
    <3>0. op[c] \in Op /\ snap[c] \in Row
      BY <2>12 DEF Idle
    <3>2. CASE snap' = [snap EXCEPT ![c].message = NoMessage]
      <4>1. snap'[c] \in Row
        BY <2>12, <3>0, <3>2 DEF Row
      <4>2. snap' \in [Calls -> Row \cup {NoRow}]
        BY <2>12, <3>2, <4>1
      <4>3. CallsOK'
        BY <2>12, <3>0, <4>1, <4>2 DEF Stage
      <4>4. QED
        BY <2>12, <4>3
    <3>3. CASE UNCHANGED snap
      <4>1. CallsOK'
        BY <2>12, <3>0, <3>3 DEF Stage
      <4>2. QED
        BY <2>12, <4>1
    <3>4. QED
      BY <2>12, <3>2, <3>3
  <2>13. CASE ClearSave(c)
    <3>1. CallsOK'
      BY <2>13, LeaveOK DEF ClearSave
    <3>2. QED
      BY <1>0, <2>13, <3>1 DEF ClearSave, CallsOK, Idle, SaveRow, WriteRow, Row, State
  <2>14. CASE TakeKey(c)
    <3>1. CallsOK'
      BY <2>14, GotoOK DEF TakeKey, At, Stage, Idle
    <3>2. QED
      BY <2>14, <3>1 DEF TakeKey
  <2>15. CASE Drop(c)
    <3>1. CallsOK'
      BY <2>15, LeaveOK DEF Drop
    <3>2. QED
      BY <2>15, <3>1 DEF Drop
  <2>16. CASE Enqueue(c)
    <3>1. CallsOK'
      BY <2>16, GotoOK DEF Enqueue, At, Stage, Idle
    <3>2. QED
      BY <2>16, <3>1 DEF Enqueue
  <2>17. QED
    BY <1>3, <2>1, <2>2, <2>3, <2>4, <2>5, <2>6, <2>7, <2>8, <2>9, <2>10, <2>11, <2>12,
       <2>13, <2>14, <2>15, <2>16 DEF Handle
<1>4. ASSUME NEW c \in Calls, Job(c)
      PROVE  TypeOK'
  <2>1. CASE JobFetch(c)
    <3>1. CallsOK'
      <4>1. CASE Leave(c, "done")
        BY <4>1, LeaveOK
      <4>2. CASE ~Leave(c, "done")
        BY <2>1, <4>2 DEF JobFetch, Published, CallsOK, Goto, Stage, Idle
      <4>3. QED
        BY <4>1, <4>2
    <3>2. QED
      BY <2>1, <3>1 DEF JobFetch, Outrun
  <2>2. CASE JobCountUp(c) \/ JobCountDown(c)
    <3>1. CallsOK'
      BY <2>2 DEF JobCountUp, JobCountDown, CallsOK, Goto, Stage, Idle
    <3>2. QED
      BY <2>2, <3>1 DEF JobCountUp, JobCountDown
  <2>3. CASE JobEdit(c)
    <3>1. CallsOK'
      BY <2>3, LeaveOK DEF JobEdit, EndJob
    <3>2. snap[c] \in Row /\ tally[c] \subseteq Vote
      BY <2>3 DEF JobEdit, CallsOK, Idle
    <3>3. shown' \in [Messages -> Content \cup {NoMessage}]
      BY <2>3, <3>2 DEF JobEdit, Render, Content, Row
    <3>4. lagging' \subseteq Messages \cup {NoMessage}
      BY <2>3, <3>2 DEF JobEdit, Row
    <3>5. QED
      BY <2>3, <3>1, <3>3, <3>4 DEF JobEdit, EndJob
  <2>4. CASE JobRefused(c)
    <3>1. CallsOK'
      BY <2>4, LeaveOK DEF JobRefused, EndJob
    <3>2. QED
      BY <2>4, <3>1 DEF JobRefused, EndJob
  <2>5. QED
    BY <1>4, <2>1, <2>2, <2>3, <2>4 DEF Job
<1>5. ASSUME NEW c \in Calls, Abort(c) \/ Crash(c)
      PROVE  TypeOK'
  <2>1. CallsOK'
    BY <1>5, LeaveOK DEF Abort, Crash, EndJob
  <2>2. QED
    BY <1>5, <2>1 DEF Abort, Crash, EndJob
<1>6. CASE Expire
  BY <1>6 DEF Expire, CallsOK
<1>7. CASE UNCHANGED vars
  BY <1>7 DEF vars, CallsOK
<1>8. QED
  BY <1>1, <1>2, <1>3, <1>4, <1>5, <1>6, <1>7 DEF Next

(* The state of a suggestion keeps its shape in every handler and job.     *)
THEOREM TypeCorrect == Spec => []TypeOK
  BY TypeInit, TypeNext, PTL DEF Spec
-----------------------------------------------------------------------------
(* One vote per user.  That no vote outlives the row takes more than the   *)
(* foreign key: while the creating handler may still delete the row for    *)
(* want of a channel, or has not committed it, no handler has got hold of  *)
(* the suggestion.                                                         *)
UnseenInv ==
  /\ made \in {"new", "announced"} => row = NoRow
  /\ made \in {"new", "row", "announced"} =>
       votes = {} /\ \A c \in Calls : pc[c] \in {"idle", "left"}

(* The inductive invariant of the vote counts. *)
VotesInv == TypeOK /\ UnseenInv /\ VotesAreKeyed

(* There are no votes and no handlers at the start. *)
LEMMA VotesInit == Init => VotesInv
  BY TypeInit DEF Init, VotesInv, UnseenInv, VotesAreKeyed

(* A handler that has not read the row yet has no copy of it, whatever step *)
(* is taken.                                                               *)
LEMMA UnseenNext == TypeOK /\ UnseenInv /\ [Next]_vars => UnseenInv'
<1> SUFFICES ASSUME TypeOK, UnseenInv, [Next]_vars
             PROVE  UnseenInv'
  OBVIOUS
<1> USE DEF UnseenInv, copies, database, calls, edits, jobs, history
<1>1. CASE Create \/ CreateAborts
  BY <1>1 DEF Create, CreateRow, CreateRefused, PostMessage, PointToMessage,
              CreateThread, ThreadRefused,
              PostDraft, CommitDraft, WithdrawDraft, CreateAborts, Creating
<1>2. ASSUME NEW c \in Calls, NEW o \in Op, Fetch(c, o)
      PROVE  UnseenInv'
  BY <1>2 DEF Fetch, Leave, Goto, TypeOK, CallsOK
<1>3. ASSUME NEW c \in Calls, Handle(c) \/ Job(c) \/ Abort(c) \/ Crash(c)
      PROVE  UnseenInv'
  <2>1. pc[c] \notin {"idle", "left"} /\ UNCHANGED made
    BY <1>3 DEF Handle, InsertVote, VoteOrphaned, FindVote, ChangeVote, NoteSave,
                ResolveSave, ResolveSaveAgain, ResolveNoLog, PostLog, RemoveOld,
                PointToLog, ClearMessage, ClearSave, TakeKey, Drop, Enqueue,
                Job, JobFetch, JobCountUp, JobCountDown, JobEdit, JobRefused, Abort, InFlight, Crash, At
  <2>2. QED
    BY <2>1
<1>4. CASE Expire \/ UNCHANGED vars
  BY <1>4 DEF Expire, vars
<1>5. QED
  BY <1>1, <1>2, <1>3, <1>4 DEF Next

(* One case per action; only those that write the votes table or the copies *)
(* of the row can disturb the invariant.                                   *)
LEMMA VotesNext == VotesInv /\ [Next]_vars => VotesInv'
<1> SUFFICES ASSUME VotesInv, [Next]_vars
             PROVE  VotesAreKeyed'
  BY TypeNext, UnseenNext DEF VotesInv
<1> USE DEF VotesInv, VotesAreKeyed, copies, database, calls, edits, jobs, history
<1>1. CASE Create \/ CreateAborts
  <2>1. row' = NoRow => row = NoRow \/ votes' = {}
    BY <1>1, FreshRow, NoRowAssumption
    DEF Create, CreateRow, CreateRefused, PostMessage, PointToMessage, SaveRow, WriteRow,
        Messages, CreateThread, ThreadRefused, PostDraft, CommitDraft, WithdrawDraft, CreateAborts, UnseenInv
  <2>2. votes' \in {votes, {}}
    BY <1>1 DEF Create, CreateRow, CreateRefused, PostMessage, PointToMessage,
                CreateThread, ThreadRefused, PostDraft, CommitDraft, WithdrawDraft, CreateAborts
  <2>3. QED
    BY <2>1, <2>2
<1>2. ASSUME NEW c \in Calls, NEW o \in Op, Fetch(c, o)
      PROVE  VotesAreKeyed'
  BY <1>2 DEF Fetch
<1>3. ASSUME NEW c \in Calls, InsertVote(c)
      PROVE  VotesAreKeyed'
  BY <1>3 DEF InsertVote, VotesOf
<1>4. ASSUME NEW c \in Calls, ChangeVote(c)
      PROVE  VotesAreKeyed'
  <2> DEFINE u == op[c].user
             changed(v) == [v EXCEPT !.type = op[c].type]
  <2>1. \A w \in votes : changed(w).user = w.user
    BY DEF TypeOK, Vote
  <2>2. \A v \in votes' :
          \/ v \in votes /\ v.user # u
          \/ \E w \in votes : w.user = u /\ v = changed(w)
    BY <1>4 DEF ChangeVote, VotesOf
  <2>3. \A v, w \in votes' : v.user = w.user => v = w
    <3> HIDE DEF u, changed
    <3>1. SUFFICES ASSUME NEW v \in votes', NEW w \in votes', v.user = w.user
                   PROVE  v = w
      OBVIOUS
    <3>2. CASE v.user = u
      <4>1. PICK x \in votes : x.user = u /\ v = changed(x)
        BY <2>2, <3>2
      <4>2. PICK y \in votes : y.user = u /\ w = changed(y)
        BY <2>2, <3>1, <3>2
      <4>3. x = y
        BY <4>1, <4>2
      <4>4. QED
        BY <4>1, <4>2, <4>3
    <3>3. CASE v.user # u
      <4>1. v \in votes /\ w \in votes
        BY <2>1, <2>2, <3>1, <3>3
      <4>2. QED
        BY <3>1, <4>1
    <3>4. QED
      BY <3>2, <3>3
  <2>4. row' = row /\ (row = NoRow => votes' = {})
    BY <1>4 DEF ChangeVote, VotesOf
  <2>5. QED
    BY <2>3, <2>4
<1>5. ASSUME NEW c \in Calls,
             \/ NoteSave(c) \/ ResolveSave(c) \/ ResolveSaveAgain(c)
             \/ PointToLog(c) \/ ClearSave(c)
      PROVE  VotesAreKeyed'
  <2>1. UNCHANGED votes
    BY <1>5 DEF NoteSave, ResolveSave, ResolveSaveAgain, PointToLog, ClearSave
  <2>2. \E r \in Row : SaveRow(c, r)
    BY <1>5, RowSaved
  <2>3. row' = NoRow => row = NoRow
    BY <2>2, NoRowAssumption DEF SaveRow, WriteRow
  <2>4. QED
    BY <2>1, <2>3
<1>6. ASSUME NEW c \in Calls,
             \/ VoteOrphaned(c) \/ FindVote(c) \/ ResolveNoLog(c) \/ PostLog(c)
             \/ RemoveOld(c) \/ ClearMessage(c) \/ TakeKey(c) \/ Drop(c) \/ Enqueue(c)
             \/ Job(c) \/ Abort(c) \/ Crash(c)
      PROVE  VotesAreKeyed'
  BY <1>6 DEF VoteOrphaned, FindVote, ResolveNoLog, PostLog, RemoveOld, ClearMessage,
              TakeKey, Drop, Enqueue, Job, JobFetch, JobCountUp, JobCountDown, JobEdit, JobRefused,
              Abort, Crash
<1>7. CASE Expire \/ UNCHANGED vars
  BY <1>7 DEF Expire, vars
<1>8. QED
  BY <1>1, <1>2, <1>3, <1>4, <1>5, <1>6, <1>7 DEF Next, Handle

(* However many users press the buttons, and however the handlers of one   *)
(* user's presses overlap, a user has one vote (UNIQUE, ON CONFLICT DO     *)
(* NOTHING), and a deleted suggestion has none (ON DELETE CASCADE).        *)
THEOREM VotesStayKeyed == Spec => []VotesAreKeyed
<1>1. VotesInv => VotesAreKeyed
  BY DEF VotesInv
<1>2. QED
  BY <1>1, VotesInit, VotesNext, PTL DEF Spec
-----------------------------------------------------------------------------
(* The debounce within the whole: each step of a handler or a job is a     *)
(* step of EditDebounce or leaves it as it is.                             *)
(* A call's new stage shows in the debounce as what it maps to. *)
LEMMA Mapped ==
  ASSUME pc \in [Calls -> Stage], NEW c \in Calls, NEW stage, Goto(c, stage)
  PROVE  DebouncedPc' = [DebouncedPc EXCEPT ![c] = Debounced(stage)]
  BY DEF DebouncedPc, Goto

(* What the stages of a job in the lifecycle are in EditDebounce. *)
LEMMA StageMap ==
  /\ \A s \in {"idle", "fetched", "differs", "resolved", "logged", "removed",
                "clearing", "left"} : Debounced(s) = "ready"
  /\ Debounced("resaving") = "saved" /\ Debounced("saved") = "saved"
  /\ Debounced("keyed") = "keyed" /\ Debounced("scheduled") = "scheduled"
  /\ \A s \in {"running", "counting", "counted", "done"} : Debounced(s) = "done"
  /\ Debounced("aborted") = "crashed"
  BY DEF Debounced

(* The debounce asks of a key's call only whether it died. *)
LEMMA KeyMap ==
  ASSUME TypeOK, key # NoCall
  PROVE  DebouncedPc[key] = "crashed" <=> pc[key] = "aborted"
  BY StageMap DEF TypeOK, CallsOK, Stage, DebouncedPc, Debounced

(* Steps that move a call without moving it in the debounce. *)
LEMMA Stutter ==
  ASSUME pc \in [Calls -> Stage], NEW c \in Calls, NEW stage, Goto(c, stage),
         Debounced(stage) = Debounced(pc[c]), UNCHANGED <<key, dirty, orphaned>>
  PROVE  UNCHANGED Debounce!editVars
<1>1. DebouncedPc[c] = Debounced(pc[c])
  BY DEF DebouncedPc
<1>2. DebouncedPc' = [DebouncedPc EXCEPT ![c] = Debounced(pc[c])]
  BY Mapped
<1>3. DebouncedPc' = DebouncedPc
  BY <1>1, <1>2 DEF DebouncedPc
<1>4. QED
  BY <1>3 DEF Debounce!editVars

(* The initial states map to initial states. *)
LEMMA DebounceInit == Init => Debounce!EditInit
<1> SUFFICES ASSUME Init
             PROVE  Debounce!EditInit
  OBVIOUS
<1>1. DebouncedPc = [c \in Calls |-> "ready"]
  BY StageMap DEF Init, DebouncedPc
<1>2. QED
  BY <1>1 DEF Init, Debounce!EditInit

(* Every step maps to a step of EditDebounce, or to a stutter. *)
LEMMA DebounceNext == TypeOK /\ [Next]_vars => [Debounce!EditNext]_(Debounce!editVars)
<1> SUFFICES ASSUME TypeOK, [Next]_vars
             PROVE  Debounce!EditNext \/ UNCHANGED Debounce!editVars
  OBVIOUS
<1>0. pc \in [Calls -> Stage]
  BY DEF TypeOK, CallsOK
<1> USE StageMap DEF copies, database, calls, edits, jobs, history
<1>1. CASE Create \/ CreateAborts
  <2>1. UNCHANGED <<pc, key, dirty, orphaned>>
    BY <1>1 DEF Create, CreateRow, CreateRefused, PostMessage, PointToMessage,
                CreateThread, ThreadRefused, PostDraft, CommitDraft, WithdrawDraft, CreateAborts
  <2>2. QED
    BY <2>1 DEF Debounce!editVars, DebouncedPc
<1>2. ASSUME NEW c \in Calls, NEW o \in Op, Fetch(c, o)
      PROVE  UNCHANGED Debounce!editVars
  <2>1. PICK stage \in {"fetched", "left"} : Goto(c, stage)
    BY <1>2 DEF Fetch, Leave
  <2>2. pc[c] = "idle" /\ UNCHANGED <<key, dirty, orphaned>>
    BY <1>2 DEF Fetch
  <2>3. QED
    BY <1>0, <2>1, <2>2, Stutter
\* The steps of a handler that the debounce does not see.
<1>3. ASSUME NEW c \in Calls,
             \/ VoteOrphaned(c) \/ FindVote(c) \/ ResolveNoLog(c) \/ PostLog(c)
             \/ RemoveOld(c) \/ PointToLog(c) \/ ClearMessage(c) \/ ClearSave(c)
             \/ Abort(c) /\ ~InFlight(c)
             \/ ResolveSave(c) /\ ~op[c].keep
      PROVE  UNCHANGED Debounce!editVars
  <2> DEFINE Unseen == {"fetched", "differs", "resolved", "logged", "removed", "clearing", "left"}
  <2>1. pc[c] \in Unseen /\ UNCHANGED <<key, dirty, orphaned>>
    BY <1>3 DEF VoteOrphaned, FindVote, ResolveNoLog, PostLog, RemoveOld, PointToLog,
                ClearMessage, ClearSave, Abort, ResolveSave, At
  <2>2. PICK stage \in Unseen : Goto(c, stage)
    BY <1>3 DEF VoteOrphaned, FindVote, ResolveNoLog, PostLog, RemoveOld, PointToLog,
                ClearMessage, ClearSave, Abort, ResolveSave, Leave
  <2>3. QED
    BY <1>0, <2>1, <2>2, Stutter
\* A job once it has fetched the suggestion.
<1>4. ASSUME NEW c \in Calls,
             \/ JobCountUp(c) \/ JobCountDown(c) \/ JobEdit(c) \/ JobRefused(c)
             \/ Abort(c) /\ InFlight(c)
      PROVE  UNCHANGED Debounce!editVars
  <2>1. pc[c] \in {"running", "counting", "counted"} /\ UNCHANGED <<key, dirty, orphaned>>
    BY <1>4 DEF JobCountUp, JobCountDown, JobEdit, JobRefused, Abort, InFlight
  <2>2. PICK stage \in {"counting", "counted", "done"} : Goto(c, stage)
    BY <1>4 DEF JobCountUp, JobCountDown, JobEdit, JobRefused, Abort, InFlight, EndJob, Leave
  <2>3. QED
    BY <1>0, <2>1, <2>2, Stutter
<1>5. ASSUME NEW c \in Calls,
             \/ InsertVote(c) \/ ChangeVote(c) \/ NoteSave(c) \/ ResolveSaveAgain(c)
             \/ ResolveSave(c) /\ op[c].keep
      PROVE  Debounce!Save(c)
  <2>1. /\ pc[c] \in {"fetched", "differs", "resaving"}
        /\ dirty' = TRUE
        /\ UNCHANGED <<key, orphaned>>
    BY <1>5 DEF InsertVote, ChangeVote, NoteSave, ResolveSaveAgain, ResolveSave, At
  <2>2. PICK stage \in {"saved", "resaving"} : Goto(c, stage)
    BY <1>5 DEF InsertVote, ChangeVote, NoteSave, ResolveSaveAgain, ResolveSave
  <2>3. DebouncedPc' = [DebouncedPc EXCEPT ![c] = "saved"]
    BY <1>0, <2>2, Mapped
  <2>4. DebouncedPc[c] \in {"ready", "saved"}
    BY <2>1 DEF DebouncedPc
  <2>5. QED
    BY <2>1, <2>3, <2>4 DEF Debounce!Save
<1>6. ASSUME NEW c \in Calls, TakeKey(c)
      PROVE  Debounce!TakeKey(c)
  <2>1. DebouncedPc' = [DebouncedPc EXCEPT ![c] = "keyed"] /\ DebouncedPc[c] = "saved"
    BY <1>0, <1>6, Mapped DEF TakeKey, DebouncedPc
  <2>2. QED
    BY <1>6, <2>1 DEF TakeKey, Debounce!TakeKey
<1>7. ASSUME NEW c \in Calls, Drop(c)
      PROVE  Debounce!Drop(c)
  <2>1. DebouncedPc' = [DebouncedPc EXCEPT ![c] = "done"] /\ DebouncedPc[c] = "saved"
    BY <1>0, <1>7, Mapped DEF Drop, Leave, DebouncedPc
  <2>2. QED
    BY <1>7, <2>1 DEF Drop, Debounce!Drop
<1>8. ASSUME NEW c \in Calls, Enqueue(c)
      PROVE  Debounce!Enqueue(c)
  <2>1. DebouncedPc' = [DebouncedPc EXCEPT ![c] = "scheduled"] /\ DebouncedPc[c] = "keyed"
    BY <1>0, <1>8, Mapped DEF Enqueue, DebouncedPc
  <2>2. QED
    BY <1>8, <2>1 DEF Enqueue, Debounce!Enqueue
<1>9. ASSUME NEW c \in Calls, JobFetch(c)
      PROVE  Debounce!Fetch(c)
  <2>1. PICK stage \in {"running", "done"} : Goto(c, stage)
    BY <1>9 DEF JobFetch, Leave
  <2>2. DebouncedPc' = [DebouncedPc EXCEPT ![c] = "done"] /\ DebouncedPc[c] = "scheduled"
    BY <1>0, <1>9, <2>1, Mapped DEF JobFetch, DebouncedPc
  <2>3. (key # NoCall /\ DebouncedPc[key] = "crashed")
          = (key # NoCall /\ pc[key] = "aborted")
    BY KeyMap
  <2>4. QED
    BY <1>9, <2>2, <2>3 DEF JobFetch, Debounce!Fetch
<1>10. ASSUME NEW c \in Calls, Crash(c)
       PROVE  Debounce!Crash(c)
  <2>1. DebouncedPc' = [DebouncedPc EXCEPT ![c] = "crashed"]
    BY <1>0, <1>10, Mapped DEF Crash, Leave
  <2>2. \/ DebouncedPc[c] \in {"saved", "keyed"}
        \/ DebouncedPc[c] = "scheduled" /\ key # c
    BY <1>10 DEF Crash, DebouncedPc
  <2>3. QED
    BY <1>10, <2>1, <2>2 DEF Crash, Debounce!Crash
<1>11. CASE Expire
  BY <1>11 DEF Expire, Debounce!EditNext, Debounce!Expire, DebouncedPc
<1>12. CASE UNCHANGED vars
  BY <1>12 DEF vars, Debounce!editVars, DebouncedPc
<1>13. QED
  <2>1. ASSUME NEW c \in Calls, Handle(c) \/ Job(c) \/ Abort(c) \/ Crash(c)
        PROVE  Debounce!EditNext \/ UNCHANGED Debounce!editVars
    BY <2>1, <1>3, <1>4, <1>5, <1>6, <1>7, <1>8, <1>9, <1>10
    DEF Handle, Job, Abort, Debounce!EditNext
  <2>2. QED
    BY <2>1, <1>1, <1>2, <1>11, <1>12 DEF Next

(* Whatever else the handlers and jobs of a suggestion do, their requests  *)
(* for an edit behave as EditDebounce says (queue_suggestion_edit and      *)
(* edit_suggestion_message).                                               *)
THEOREM ImplementsDebounce == Spec => Debounce!EditSpec
  BY TypeInit, TypeNext, DebounceInit, DebounceNext, PTL DEF Spec, Debounce!EditSpec
(* EditDebounce's theorems, of this debounce. *)
Thm == INSTANCE EditDebounceProofs WITH
  EditCalls <- Calls, NoEditCall <- NoCall, edit_pc <- DebouncedPc

(* A change of a suggestion that asks for an edit gets one, however the    *)
(* handlers overlap: one of them is on its way to a job that will fetch    *)
(* the change, unless a crash may have cost the edit.                      *)
THEOREM ChangesAreNotLost == Spec => []Debounce!NoLostEdit
<1>1. Debounce!EditSpec <=> Thm!EditSpec
  BY PTL DEF Debounce!EditSpec, Thm!EditSpec, Debounce!EditInit, Thm!EditInit,
     Debounce!EditNext, Thm!EditNext, Debounce!editVars, Thm!editVars,
     Debounce!Save, Thm!Save, Debounce!TakeKey, Thm!TakeKey,
     Debounce!Drop, Thm!Drop, Debounce!Enqueue, Thm!Enqueue, Debounce!Fetch, Thm!Fetch,
     Debounce!Crash, Thm!Crash, Debounce!Expire, Thm!Expire
<1>2. Thm!NoLostEdit <=> Debounce!NoLostEdit
  BY DEF Thm!NoLostEdit, Debounce!NoLostEdit, Debounce!Pending, Thm!Pending
<1>3. NoCall \notin Calls
  BY ConstantsAssumption
<1>4. Thm!EditSpec => []Thm!NoLostEdit
  BY <1>3, Thm!EditsAreNotLost
<1>5. QED
  BY ImplementsDebounce, <1>1, <1>2, <1>4, PTL
-----------------------------------------------------------------------------
(* Handlers overlap as they like, so a moderator's handler may hold a copy *)
(* of the row that another has saved over.  What makes the suggestion      *)
(* predictable all the same: whoever is not outdated holds the row as it   *)
(* is, and who resolves it holds a resolved copy.                          *)
(* A step of a call is of no other call. *)
CallStep(c) == (\E o \in Op : Fetch(c, o)) \/ Handle(c) \/ Job(c) \/ Abort(c) \/ Crash(c)

(* The steps that save the row. *)
Saves(c) ==
  \/ NoteSave(c) \/ ResolveSave(c) \/ ResolveSaveAgain(c)
  \/ PointToLog(c) \/ ClearSave(c)

(* A step of one handler leaves the stages of the others alone. *)
LEMMA OthersSame ==
  ASSUME TypeOK, NEW c \in Calls, CallStep(c)
  PROVE  \A d \in Calls \ {c} : /\ pc'[d] = pc[d] /\ op'[d] = op[d]
                               /\ snap'[d] = snap[d] /\ tally'[d] = tally[d]
<1>0. /\ pc \in [Calls -> Stage] /\ op \in [Calls -> Op \cup {NoOp}]
      /\ snap \in [Calls -> Row \cup {NoRow}] /\ tally \in [Calls -> SUBSET Vote]
  BY DEF TypeOK, CallsOK
<1>1. CASE \E o \in Op : Fetch(c, o)
  BY <1>0, <1>1 DEF Fetch, Goto, Leave
<1>2. CASE Handle(c)
  BY <1>0, <1>2
  DEF Handle, InsertVote, VoteOrphaned, FindVote, ChangeVote, NoteSave, ResolveSave,
      ResolveSaveAgain, ResolveNoLog, PostLog, RemoveOld, PointToLog, ClearMessage,
      ClearSave, TakeKey, Drop, Enqueue, Goto, Leave, SameWork
<1>3. CASE Job(c) \/ Abort(c) \/ Crash(c)
  BY <1>0, <1>3 DEF Job, JobFetch, JobCountUp, JobCountDown, JobEdit, JobRefused, Abort, Crash,
                    EndJob, Goto, Leave, SameWork
<1>4. QED
  BY <1>1, <1>2, <1>3 DEF CallStep

(* Over is over. *)
LEMMA LeftStays ==
  ASSUME NEW c \in Calls, CallStep(c)
  PROVE  pc[c] \notin {"left", "done", "aborted"}
  BY DEF CallStep, Fetch, Handle, InsertVote, VoteOrphaned, FindVote, ChangeVote, NoteSave,
         ResolveSave, ResolveSaveAgain, ResolveNoLog, PostLog, RemoveOld, PointToLog,
         ClearMessage, ClearSave, TakeKey, Drop, Enqueue, Job, JobFetch, JobCountUp,
         JobCountDown, JobEdit, JobRefused, Abort, InFlight, Crash, At

(* Only a handler that saves the row writes it. *)
LEMMA CallKeeps ==
  ASSUME NEW c \in Calls, CallStep(c)
  PROVE  UNCHANGED made /\ (UNCHANGED copies \/ Saves(c))
  BY DEF CallStep, Saves, database, Fetch, Handle, InsertVote, VoteOrphaned, FindVote,
         ChangeVote, NoteSave, ResolveSave, ResolveSaveAgain, ResolveNoLog, PostLog, RemoveOld,
         PointToLog, ClearMessage, ClearSave, TakeKey, Drop, Enqueue, Job, JobFetch, JobCountUp,
         JobCountDown, JobEdit, JobRefused, Abort, Crash

(* What a call's own copy of the row becomes. *)
LEMMA OwnCopy ==
  ASSUME TypeOK, NEW c \in Calls, CallStep(c), snap'[c] # NoRow
  PROVE  \/ snap'[c] = row
         \/ snap[c] \in Row /\ snap'[c].message \in {snap[c].message, NoMessage}
<1>0. pc \in [Calls -> Stage] /\ snap \in [Calls -> Row \cup {NoRow}]
  BY DEF TypeOK, CallsOK
<1>1. CASE \E o \in Op : Fetch(c, o)
  BY <1>0, <1>1 DEF Fetch, Leave
<1>2. CASE Handle(c)
  <2>1. snap[c] \in Row
    BY <1>2 DEF Handle, InsertVote, VoteOrphaned, FindVote, ChangeVote, NoteSave, ResolveSave,
      ResolveSaveAgain, ResolveNoLog, PostLog, RemoveOld, PointToLog, ClearMessage,
      ClearSave, TakeKey, Drop, Enqueue, At, TypeOK, CallsOK, Idle
  <2>2. snap'[c] = NoRow \/ snap'[c].message \in {snap[c].message, NoMessage}
    BY <1>0, <1>2, <2>1
    DEF Handle, InsertVote, VoteOrphaned, FindVote, ChangeVote, NoteSave, ResolveSave,
        ResolveSaveAgain, ResolveNoLog, PostLog, RemoveOld, PointToLog, ClearMessage,
        ClearSave, TakeKey, Drop, Enqueue, Leave, SameWork, Row
  <2>3. QED
    BY <2>1, <2>2
<1>3. CASE Job(c) \/ Abort(c) \/ Crash(c)
  <2>1. snap[c] \in Row
    BY <1>3 DEF Job, JobFetch, JobCountUp, JobCountDown, JobEdit, JobRefused, Abort, Crash,
                InFlight, TypeOK, CallsOK, Idle
  <2>2. snap'[c] \in {NoRow, row, snap[c]}
    BY <1>0, <1>3 DEF Job, JobFetch, JobCountUp, JobCountDown, JobEdit, JobRefused, Abort, Crash,
                EndJob, Leave
  <2>3. QED
    BY <2>1, <2>2
<1>4. QED
  BY <1>1, <1>2, <1>3 DEF CallStep

(* How far the creating handler has come says whether there is a row.      *)
RowMade ==
  /\ made \in {"new", "announced", "refused", "withdrawn"} => row = NoRow
  /\ made \in {"row", "posted", "pointed", "done"} => row # NoRow

(* The copy a handler is to save, but for the message it has just deleted. *)
CopyOf(c) ==
  /\ snap[c].state = row.state
  /\ snap[c].note = row.note
  /\ pc[c] # "clearing" => snap[c].message = row.message

(* Whoever is to save the row and is not outdated has it as it is.         *)
CopiesInv ==
  /\ \A c \in Calls : Writing(c) /\ c \notin outdated => row # NoRow /\ CopyOf(c)
  /\ Original \notin outdated =>
       /\ made \in {"row", "posted"} => row = Fresh(NoMessage)
       /\ made = "pointed" => row = Fresh(Original)

(* A handler that has resolved the suggestion has a resolved copy.         *)
Resolved(c) == pc[c] \in {"resaving", "resolved", "logged", "removed"}
ResolvedInv == \A c \in Calls : Resolved(c) => snap[c].state \in Resolutions

(* Whoever posted a message that a row or a copy of it names is over.      *)
NamesInv ==
  /\ row # NoRow /\ row.message \in Calls => pc[row.message] = "left"
  /\ \A c \in Calls : snap[c] # NoRow /\ snap[c].message \in Calls =>
       pc[snap[c].message] = "left"

(* The inductive invariant of the row and its copies.                      *)
CopyInv == RowMade /\ CopiesInv /\ ResolvedInv /\ NamesInv

(* There is neither at first. *)
LEMMA CopyInit == Init => CopyInv
  BY DEF Init, CopyInv, RowMade, CopiesInv, ResolvedInv, Resolved, NamesInv, Writing

(* A save revives no row and loses none. *)
LEMMA SaveKeeps ==
  ASSUME TypeOK, NEW c \in Calls, Saves(c)
  PROVE  /\ row' = NoRow <=> row = NoRow
         /\ outdated \subseteq outdated'
         /\ row' = row => outdated' = outdated
         /\ row' # row => RowWriters \ {c} \subseteq outdated'
<1>1. PICK r \in Row : SaveRow(c, r)
  BY RowSaved DEF Saves
<1>2. QED
  BY <1>1, NoRowAssumption DEF SaveRow, WriteRow

(* The same of a creating handler's steps, and the rows it writes. *)
LEMMA CreateKeeps ==
  ASSUME Create \/ CreateAborts
  PROVE  /\ row' \in {row, NoRow, Fresh(NoMessage), Fresh(Original)}
         /\ outdated \subseteq outdated'
         /\ row' = row => outdated' = outdated
         /\ row' # row => RowWriters \ {Original} \subseteq outdated'
         /\ UNCHANGED <<pc, op, snap, tally>>
  BY DEF Create, CreateRow, CreateRefused, PostMessage, PointToMessage, CreateThread,
         ThreadRefused, PostDraft, CommitDraft, WithdrawDraft, CreateAborts, SaveRow, WriteRow,
         database, copies, calls

(* Only the creating handler makes the row or deletes it. *)
LEMMA RowMadeNext ==
  ASSUME TypeOK, RowMade, Next
  PROVE  RowMade'
<1> USE DEF RowMade
<1>1. CASE Create
  <2>1. Fresh(NoMessage) # NoRow /\ Fresh(Original) # NoRow
    BY FreshRow, NoRowAssumption DEF Messages
  <2>2. QED
    BY <1>1, <2>1
    DEF Create, CreateRow, CreateRefused, PostMessage, PointToMessage, CreateThread,
        ThreadRefused, PostDraft, CommitDraft, WithdrawDraft, SaveRow, WriteRow,
        database, copies
<1>2. CASE CreateAborts
  BY <1>2 DEF CreateAborts
<1>3. ASSUME NEW c \in Calls, CallStep(c)
      PROVE  RowMade'
  BY <1>3, CallKeeps, SaveKeeps DEF copies
<1>4. CASE Expire
  BY <1>4 DEF Expire, database, copies
<1>5. QED
  BY <1>1, <1>2, <1>3, <1>4 DEF Next, CallStep

(* Who goes on to save the row has fetched it, resolved it or kept it.     *)
LEMMA WriterCopy ==
  ASSUME TypeOK, NEW c \in Calls, CallStep(c), Writing(c)'
  PROVE  \/ row # NoRow /\ snap'[c] = row /\ UNCHANGED copies /\ pc'[c] = "fetched"
         \/ ResolveSave(c)
         \/ /\ Writing(c) /\ UNCHANGED copies /\ pc[c] # "clearing"
            /\ snap'[c].state = snap[c].state /\ snap'[c].note = snap[c].note
            /\ pc'[c] # "clearing" => snap'[c].message = snap[c].message
            /\ Resolved(c)' <=> Resolved(c)
<1>0. /\ pc \in [Calls -> Stage] /\ snap \in [Calls -> Row \cup {NoRow}]
      /\ op \in [Calls -> Op \cup {NoOp}]
  BY DEF TypeOK, CallsOK
<1>1. CASE \E o \in Op : Fetch(c, o)
  BY <1>0, <1>1 DEF Fetch, Goto, Leave, Writing, database
<1>2. CASE PostLog(c) \/ RemoveOld(c) \/ ClearMessage(c)
  <2>1. Writing(c) /\ UNCHANGED copies /\ pc[c] # "clearing" /\ snap[c] \in Row
    BY <1>2 DEF PostLog, RemoveOld, ClearMessage, At, Writing, database, TypeOK, CallsOK, Idle
  <2>2. /\ snap'[c].state = snap[c].state /\ snap'[c].note = snap[c].note
        /\ pc'[c] # "clearing" => snap'[c].message = snap[c].message
        /\ Resolved(c)' <=> Resolved(c)
    <3>1. CASE PostLog(c) \/ RemoveOld(c)
      BY <1>0, <3>1 DEF PostLog, RemoveOld, Goto, SameWork, Resolved
    <3>2. CASE ClearMessage(c)
      <4>1. pc[c] = "fetched" /\ pc'[c] = "clearing"
        BY <1>0, <3>2 DEF ClearMessage, At, Goto
      <4>2. snap'[c].state = snap[c].state /\ snap'[c].note = snap[c].note
        BY <1>0, <2>1, <3>2 DEF ClearMessage, Row
      <4>3. QED
        BY <4>1, <4>2 DEF Resolved
    <3>3. QED
      BY <1>2, <3>1, <3>2
  <2>3. QED
    BY <2>1, <2>2
<1>3. CASE Handle(c) /\ ~PostLog(c) /\ ~RemoveOld(c) /\ ~ClearMessage(c) /\ ~ResolveSave(c)
  <2>1. pc'[c] \in {"differs", "saved", "keyed", "scheduled", "done", "left"}
    BY <1>0, <1>3 DEF Handle, InsertVote, VoteOrphaned, FindVote, ChangeVote, NoteSave,
      ResolveSaveAgain, ResolveNoLog, PointToLog, ClearSave, TakeKey, Drop, Enqueue, Goto, Leave
  <2>2. QED
    BY <2>1 DEF Writing
<1>4. CASE Job(c) \/ Abort(c) \/ Crash(c)
  <2>1. pc'[c] \in {"running", "counting", "counted", "done", "left", "aborted"}
    BY <1>0, <1>4 DEF Job, JobFetch, JobCountUp, JobCountDown, JobEdit, JobRefused, Abort, Crash,
                      EndJob, Goto, Leave
  <2>2. QED
    BY <2>1 DEF Writing
<1>5. QED
  BY <1>1, <1>2, <1>3, <1>4 DEF CallStep

(* What a handler resolves the row to, it has in its copy. *)
LEMMA ResolvedCopy ==
  ASSUME TypeOK, NEW c \in Calls, ResolveSave(c)
  PROVE  /\ snap'[c] \in Row /\ snap'[c].state \in Resolutions
         /\ row # NoRow => row' = snap'[c]
         /\ Writing(c) /\ pc'[c] \in {"resaving", "resolved"}
<1>0. pc \in [Calls -> Stage] /\ snap \in [Calls -> Row \cup {NoRow}]
  BY DEF TypeOK, CallsOK
<1>1. op[c] \in Op /\ snap[c] \in Row /\ op[c].state \in Resolutions
  BY ResolveOp DEF ResolveSave, At, TypeOK, CallsOK, Idle
<1>2. snap'[c] = [snap[c] EXCEPT !.state = op[c].state]
  BY <1>0 DEF ResolveSave
<1>3. snap'[c] \in Row /\ snap'[c].state \in Resolutions
  BY <1>1, <1>2 DEF Row, State
<1>4. QED
  BY <1>0, <1>3 DEF ResolveSave, SaveRow, WriteRow, Writing, At, Goto

(* A save that changes the row leaves the copies of all others behind. *)
LEMMA CopiesNext ==
  ASSUME TypeOK, RowMade, CopiesInv, Next
  PROVE  CopiesInv'
<1> USE DEF CopiesInv
<1>1. CASE Create \/ CreateAborts
  <2>1. \A c \in Calls : Writing(c)' = Writing(c)
    BY <1>1, CreateKeeps DEF Writing
  <2>2. \A c \in Calls : Writing(c) => c \in RowWriters \ {Original}
    BY ConstantsAssumption DEF RowWriters
  <2>3. ASSUME NEW c \in Calls, Writing(c)', c \notin outdated'
        PROVE  row' # NoRow /\ CopyOf(c)'
    <3>1. row' = row /\ c \notin outdated /\ Writing(c)
      BY <1>1, <2>1, <2>2, <2>3, CreateKeeps
    <3>2. QED
      BY <1>1, <3>1, CreateKeeps DEF CopyOf
  <2>4. Original \notin outdated' =>
          /\ made' \in {"row", "posted"} => row' = Fresh(NoMessage)
          /\ made' = "pointed" => row' = Fresh(Original)
    BY <1>1, CreateKeeps
    DEF Create, CreateRow, CreateRefused, PostMessage, PointToMessage, CreateThread, SaveRow,
        WriteRow, ThreadRefused, PostDraft, CommitDraft, WithdrawDraft, CreateAborts, RowMade,
        database, copies
  <2>5. QED
    BY <2>3, <2>4
<1>2. ASSUME NEW c \in Calls, CallStep(c)
      PROVE  CopiesInv'
  <2>1. UNCHANGED made /\ outdated \subseteq outdated' /\ (row' = NoRow <=> row = NoRow)
    BY <1>2, CallKeeps, SaveKeeps DEF copies
  <2>2. row' = row \/ RowWriters \ {c} \subseteq outdated'
    BY <1>2, CallKeeps, SaveKeeps DEF copies
  <2>3. ASSUME NEW d \in Calls, Writing(d)', d \notin outdated', d # c
        PROVE  row' # NoRow /\ CopyOf(d)'
    <3>1. Writing(d) /\ pc'[d] = pc[d] /\ snap'[d] = snap[d]
      BY <1>2, <2>3, OthersSame DEF Writing
    <3>2. row' = row
      BY <2>2, <2>3, <3>1 DEF RowWriters
    <3>3. QED
      BY <2>1, <2>3, <3>1, <3>2 DEF CopyOf
  <2>4. ASSUME Writing(c)', c \notin outdated'
        PROVE  row' # NoRow /\ CopyOf(c)'
    <3>1. CASE ResolveSave(c)
      <4>1. Writing(c) /\ row # NoRow
        BY <2>1, <2>4, <3>1, ResolvedCopy
      <4>2. QED
        BY <2>1, <3>1, <4>1, ResolvedCopy DEF CopyOf
    <3>2. CASE ~ResolveSave(c)
      BY <1>2, <2>1, <2>4, <3>2, WriterCopy DEF CopyOf, copies
    <3>3. QED
      BY <3>1, <3>2
  <2>5. Original \notin outdated' /\ made \in {"row", "posted", "pointed"} => row' = row
    BY <2>2, ConstantsAssumption DEF RowWriters
  <2>6. QED
    BY <2>1, <2>3, <2>4, <2>5
<1>3. CASE Expire
  BY <1>3 DEF Expire, database, copies, calls, CopyOf, Writing
<1>4. QED
  BY <1>1, <1>2, <1>3 DEF Next, CallStep

(* A handler has resolved its copy when it has resolved the row. *)
LEMMA ResolvedNext ==
  ASSUME TypeOK, ResolvedInv, Next
  PROVE  ResolvedInv'
<1> USE DEF ResolvedInv, Resolved
<1>1. CASE Create \/ CreateAborts
  BY <1>1, CreateKeeps
<1>2. ASSUME NEW c \in Calls, CallStep(c)
      PROVE  ResolvedInv'
  <2>1. \A d \in Calls \ {c} : Resolved(d)' => snap'[d].state \in Resolutions
    BY <1>2, OthersSame
  <2>2. Resolved(c)' => snap'[c].state \in Resolutions
    BY <1>2, WriterCopy, ResolvedCopy DEF Writing
  <2>3. QED
    BY <2>1, <2>2
<1>3. CASE Expire
  BY <1>3 DEF Expire, calls
<1>4. QED
  BY <1>1, <1>2, <1>3 DEF Next, CallStep

(* What a save makes of the row, by the copy it saves. *)
LEMMA SavedRow ==
  ASSUME TypeOK, NEW c \in Calls, Saves(c), row # NoRow
  PROVE  /\ Writing(c) /\ snap[c] \in Row /\ row' \in Row
         /\ row'.state = CASE ResolveSave(c) -> op[c].state
                           [] ClearSave(c) -> "CLEARED"
                           [] OTHER -> snap[c].state
         /\ row'.note = IF NoteSave(c) THEN op[c].note ELSE snap[c].note
         /\ row'.message = IF PointToLog(c) THEN c ELSE snap[c].message
<1>0. pc \in [Calls -> Stage] /\ snap \in [Calls -> Row \cup {NoRow}]
  BY DEF TypeOK, CallsOK
<1>1. Writing(c) /\ snap[c] \in Row
  BY DEF Saves, NoteSave, ResolveSave, ResolveSaveAgain, PointToLog, ClearSave, Writing, At,
         TypeOK, CallsOK, Idle
<1>2. PICK r \in Row : SaveRow(c, r)
  BY RowSaved DEF Saves
<1>3. row' \in Row
  BY <1>2 DEF SaveRow, WriteRow
<1>4. CASE NoteSave(c)
  <2>1. row' = [snap[c] EXCEPT !.note = op[c].note]
    BY <1>4 DEF NoteSave, SaveRow, WriteRow
  <2>2. ~ResolveSave(c) /\ ~ClearSave(c) /\ ~PointToLog(c)
    BY <1>4 DEF NoteSave, ResolveSave, ClearSave, PointToLog, At
  <2>3. QED
    BY <1>1, <1>3, <1>4, <2>1, <2>2 DEF Row
<1>5. CASE ResolveSave(c)
  <2>1. row' = [snap[c] EXCEPT !.state = op[c].state]
    BY <1>0, <1>5 DEF ResolveSave, SaveRow, WriteRow
  <2>2. ~NoteSave(c) /\ ~PointToLog(c) /\ ~ClearSave(c)
    BY <1>5 DEF NoteSave, ResolveSave, ClearSave, PointToLog, At
  <2>3. QED
    BY <1>1, <1>3, <1>5, <2>1, <2>2 DEF Row
<1>6. CASE ResolveSaveAgain(c)
  <2>1. row' = snap[c]
    BY <1>6 DEF ResolveSaveAgain, SaveRow, WriteRow
  <2>2. ~NoteSave(c) /\ ~PointToLog(c) /\ ~ResolveSave(c) /\ ~ClearSave(c)
    BY <1>6 DEF NoteSave, ResolveSaveAgain, ResolveSave, ClearSave, PointToLog, At
  <2>3. QED
    BY <1>1, <1>3, <2>1, <2>2
<1>7. CASE PointToLog(c)
  <2>1. row' = [snap[c] EXCEPT !.message = c]
    BY <1>7 DEF PointToLog, SaveRow, WriteRow
  <2>2. ~NoteSave(c) /\ ~ResolveSave(c) /\ ~ClearSave(c)
    BY <1>7 DEF NoteSave, ResolveSave, ClearSave, PointToLog, At
  <2>3. QED
    BY <1>1, <1>3, <1>7, <2>1, <2>2 DEF Row
<1>8. CASE ClearSave(c)
  <2>1. row' = [snap[c] EXCEPT !.state = "CLEARED"]
    BY <1>8 DEF ClearSave, SaveRow, WriteRow
  <2>2. ~NoteSave(c) /\ ~ResolveSave(c) /\ ~PointToLog(c)
    BY <1>8 DEF NoteSave, ResolveSave, ClearSave, PointToLog, At
  <2>3. QED
    BY <1>1, <1>3, <1>8, <2>1, <2>2 DEF Row
<1>9. QED
  BY <1>4, <1>5, <1>6, <1>7, <1>8 DEF Saves

(* Handlers name messages of handlers that are over, or their own in the   *)
(* last step.                                                              *)
LEMMA NamesNext ==
  ASSUME TypeOK, NamesInv, Next
  PROVE  NamesInv'
<1> USE DEF NamesInv
<1>1. CASE Create \/ CreateAborts
  <2>1. Fresh(NoMessage).message \notin Calls /\ Fresh(Original).message \notin Calls
    BY ConstantsAssumption DEF Fresh
  <2>2. QED
    BY <1>1, <2>1, CreateKeeps
<1>2. ASSUME NEW c \in Calls, CallStep(c)
      PROVE  NamesInv'
  <2>1. \A d \in Calls : pc[d] = "left" => pc'[d] = "left"
    BY <1>2, OthersSame, LeftStays
  <2>2. ASSUME NEW d \in Calls, snap'[d] # NoRow, snap'[d].message \in Calls
        PROVE  pc'[snap'[d].message] = "left"
    <3>1. CASE d # c
      BY <1>2, <2>1, <2>2, <3>1, OthersSame
    <3>2. CASE d = c
      BY <1>2, <2>1, <2>2, <3>2, OwnCopy, ConstantsAssumption, NoRowAssumption
    <3>3. QED
      BY <3>1, <3>2
  <2>3. row' # NoRow /\ row'.message \in Calls => pc'[row'.message] = "left"
    <3>1. CASE UNCHANGED copies
      BY <2>1, <3>1 DEF copies
    <3>2. CASE Saves(c)
      <4> SUFFICES ASSUME row' # NoRow, row'.message \in Calls
                   PROVE  pc'[row'.message] = "left"
        OBVIOUS
      <4>1. row # NoRow
        BY <3>2, SaveKeeps
      <4>2. CASE PointToLog(c)
        <5>1. pc'[c] = "left"
          BY <4>2 DEF PointToLog, Leave, Goto, TypeOK, CallsOK
        <5>2. QED
          BY <3>2, <4>1, <4>2, <5>1, SavedRow
      <4>3. CASE ~PointToLog(c)
        BY <2>1, <3>2, <4>1, <4>3, SavedRow, NoRowAssumption
      <4>4. QED
        BY <4>2, <4>3
    <3>3. QED
      BY <1>2, <3>1, <3>2, CallKeeps
  <2>4. QED
    BY <2>2, <2>3
<1>3. CASE Expire
  BY <1>3 DEF Expire, calls, database, copies
<1>4. QED
  BY <1>1, <1>2, <1>3 DEF Next, CallStep

(* Each step keeps the row and its copies in step. *)
LEMMA CopyNext == TypeOK /\ CopyInv /\ [Next]_vars => CopyInv'
<1>1. CASE UNCHANGED vars
  BY <1>1 DEF vars, calls, database, copies, CopyInv, RowMade, CopiesInv, CopyOf, ResolvedInv,
              Resolved, NamesInv, Writing
<1>2. QED
  BY <1>1, RowMadeNext, CopiesNext, ResolvedNext, NamesNext DEF CopyInv

(* Who may make a resolved suggestion pending again. *)
Reopening ==
  row # NoRow /\ row.state # "PENDING" /\ row' # NoRow /\ row'.state = "PENDING" =>
    \/ \E c \in Calls \cap outdated : NoteSave(c)
    \/ Original \in outdated /\ Create

(* A step that saves a pending row over a resolved one saves a copy that   *)
(* the resolution has left behind.                                         *)
LEMMA ReopeningNext == TypeOK /\ CopyInv /\ [Next]_vars => [Reopening]_vars
<1> SUFFICES ASSUME TypeOK, CopyInv, Next,
                    row # NoRow, row.state # "PENDING", row' # NoRow, row'.state = "PENDING"
             PROVE  \/ \E c \in Calls \cap outdated : NoteSave(c)
                    \/ Original \in outdated /\ Create
  BY DEF Reopening
<1>1. CASE Create
  <2>1. Fresh(NoMessage).state = "PENDING" /\ Fresh(Original).state = "PENDING"
    BY FreshRow DEF Messages
  <2>2. PointToMessage \/ CreateThread
    BY <1>1 DEF Create, CreateRow, CreateRefused, PostMessage, ThreadRefused, PostDraft,
                CommitDraft, WithdrawDraft, WriteRow, database, copies, CopyInv, RowMade
  <2>3. Original \in outdated
    BY <2>1, <2>2 DEF PointToMessage, CreateThread, CopyInv, CopiesInv
  <2>4. QED
    BY <1>1, <2>3
<1>2. CASE CreateAborts \/ Expire
  BY <1>2 DEF CreateAborts, Expire, database, copies
<1>3. ASSUME NEW c \in Calls, CallStep(c)
      PROVE  \E d \in Calls \cap outdated : NoteSave(d)
  <2>1. Saves(c)
    BY <1>3, CallKeeps DEF copies
  <2>2. ~ResolveSave(c) /\ ~ClearSave(c) /\ row'.state = snap[c].state
    <3>1. CASE ResolveSave(c)
      <4>1. row'.state \in Resolutions
        BY <3>1, ResolvedCopy
      <4>2. QED
        BY <4>1, ConstantsAssumption
    <3>2. CASE ClearSave(c)
      <4>1. ~ResolveSave(c)
        BY <3>2 DEF ResolveSave, ClearSave, At
      <4>2. QED
        BY <2>1, <3>2, <4>1, SavedRow
    <3>3. QED
      BY <2>1, <3>1, <3>2, SavedRow
  <2>3. ~ResolveSaveAgain(c) /\ ~PointToLog(c)
    <3>1. Resolved(c) => snap[c].state \in Resolutions
      BY DEF CopyInv, ResolvedInv
    <3>2. QED
      BY <2>2, <3>1, ConstantsAssumption DEF ResolveSaveAgain, PointToLog, Resolved
  <2>4. c \in outdated
    BY <2>1, <2>2, SavedRow DEF CopyInv, CopiesInv, CopyOf
  <2>5. QED
    BY <2>1, <2>2, <2>3, <2>4 DEF Saves
<1>4. QED
  BY <1>1, <1>2, <1>3 DEF Next, CallStep

(* However votes, jobs, and the commands of moderators overlap, only two   *)
(* steps make a resolved or cleared suggestion pending again: the save of  *)
(* a /note, and that of the creating handler, whose copy of the row the    *)
(* resolution was saved over (resolve.py, notes.py, suggestion_menu.py:    *)
(* save() writes all columns).                                             *)
THEOREM ReopenedByStaleCopies == Spec => OnlyStaleCopiesReopen
<1>1. Init => TypeOK /\ CopyInv
  BY TypeInit, CopyInit
<1>2. TypeOK /\ CopyInv /\ [Next]_vars => (TypeOK /\ CopyInv)' /\ [Reopening]_vars
  BY TypeNext, CopyNext, ReopeningNext
<1>3. QED
  BY <1>1, <1>2, PTL DEF Spec, OnlyStaleCopiesReopen, Reopening
-----------------------------------------------------------------------------
(* Why Discord and the database agree on the messages.  MessagesMatchRow   *)
(* speaks of the end; the invariant says, at each stage of the handlers    *)
(* that post or delete messages, which ones there are.  It rests on        *)
(* CopyInv: while nobody is outdated, every handler that is to save the    *)
(* row knows it, and one that changes it is alone.                         *)
Clean == ~trouble /\ outdated = {}

(* Nothing in the bot forgets that a step has failed, or a save overtaken. *)
LEMMA CleanStays == TypeOK /\ [Next]_vars /\ Clean' => Clean
<1> SUFFICES ASSUME TypeOK, [Next]_vars, Clean'
             PROVE  Clean
  OBVIOUS
<1>1. ~trouble
  BY DEF Clean, TypeOK, Next, vars, history, Create, CreateRow, CreateRefused, PostMessage,
         PointToMessage, CreateThread, ThreadRefused,
         PostDraft, CommitDraft, WithdrawDraft, CreateAborts, Fetch, Handle,
         InsertVote, VoteOrphaned, FindVote, ChangeVote, NoteSave, ResolveSave,
         ResolveSaveAgain, ResolveNoLog, PostLog, RemoveOld, PointToLog, ClearMessage,
         ClearSave, TakeKey, Drop, Enqueue, Job, JobFetch, JobCountUp, JobCountDown, JobEdit,
         JobRefused, Abort, Crash, Expire
<1>2. outdated \subseteq outdated'
  <2>1. CASE Create \/ CreateAborts
    BY <2>1, CreateKeeps
  <2>2. ASSUME NEW c \in Calls, CallStep(c)
        PROVE  outdated \subseteq outdated'
    BY <2>2, CallKeeps, SaveKeeps DEF copies
  <2>3. CASE Expire \/ UNCHANGED vars
    BY <2>3 DEF Expire, vars, database, copies
  <2>4. QED
    BY <2>1, <2>2, <2>3 DEF Next, CallStep
<1>3. QED
  BY <1>1, <1>2 DEF Clean

(* The messages there are, and the one the row names, if it names one.     *)
Posted == {m \in Messages : shown[m] # NoMessage}
Named == {row.message} \ {NoMessage}

(* A handler has deleted that one; handlers have posted one the row does   *)
(* not name yet.                                                           *)
Emptied == \E c \in Calls : pc[c] \in {"removed", "clearing"}
Logged == {c \in Calls : pc[c] \in {"logged", "removed"}}

(* What the creating handler has posted by now.                            *)
CreationInv ==
  /\ made # "aborted"
  /\ made \in {"new", "row", "refused"} => Posted = {}
  /\ made \in {"posted", "announced", "withdrawn"} => Posted = {Original}

(* Who clears the suggestion has deleted the message, if there was one.    *)
ClearingInv == \A c \in Calls : pc[c] = "clearing" => snap[c].message = NoMessage

(* The messages, once the row names one.                                   *)
PostedInv ==
  made \in {"pointed", "done"} =>
    Posted = (IF Emptied THEN {} ELSE Named) \cup Logged

(* The inductive invariant of the messages.                                *)
ExactInv == CreationInv /\ ClearingInv /\ PostedInv
MessagesInv == Clean => ExactInv

(* At first there is neither.                                              *)
LEMMA MessagesInit == Init => MessagesInv
  BY DEF Init, MessagesInv, ExactInv, CreationInv, ClearingInv, PostedInv, Posted

(* Who is to save the row knows it. *)
LEMMA WriterKnows ==
  ASSUME TypeOK, CopyInv, Clean, NEW c \in Calls, Writing(c)
  PROVE  row \in Row /\ snap[c] \in Row /\ CopyOf(c)
<1>1. snap[c] \in Row
  BY DEF TypeOK, CallsOK, Writing, Idle
<1>2. QED
  BY <1>1 DEF CopyInv, CopiesInv, Clean, TypeOK

(* Nobody has resolved the suggestion that is still to be announced.       *)
LEMMA ResolvedLate ==
  ASSUME TypeOK, CopyInv, Clean, CreationInv, NEW c \in Calls, Resolved(c)
  PROVE  made = "done"
<1>1. Writing(c)
  BY DEF Resolved, Writing
<1>2. row # NoRow /\ row.state \in Resolutions
  BY <1>1, WriterKnows, NoRowAssumption DEF CopyInv, ResolvedInv, CopyOf
<1>3. row # Fresh(NoMessage) /\ row # Fresh(Original)
  BY <1>2, FreshRow, ConstantsAssumption DEF Messages
<1>4. QED
  BY <1>2, <1>3 DEF CopyInv, RowMade, CopiesInv, Clean, CreationInv, TypeOK, MadeStage

(* A step that changes the row is taken while nobody else is to save it.   *)
LEMMA CreatorAlone ==
  ASSUME Create, Clean', row' # row, NEW c \in Calls
  PROVE  ~Writing(c)
<1>1. Writing(c) => c \in RowWriters \ {Original}
  BY ConstantsAssumption DEF RowWriters
<1>2. QED
  BY <1>1, CreateKeeps DEF Clean

LEMMA SaverAlone ==
  ASSUME TypeOK, Clean', NEW c \in Calls, Saves(c), row' # row
  PROVE  made \notin {"row", "posted", "pointed"} /\ \A d \in Calls \ {c} : ~Writing(d)
<1>1. RowWriters \ {c} = {}
  BY SaveKeeps DEF Clean
<1>2. QED
  BY <1>1, ConstantsAssumption DEF RowWriters

(* What the creating handler does. *)
LEMMA ExactCreate ==
  ASSUME TypeOK, UnseenInv, CopyInv, ExactInv, Create, Clean, Clean'
  PROVE  ExactInv'
<1> USE ConstantsAssumption DEF calls, history, Create
<1>1. UNCHANGED <<pc, op, snap>> /\ made # "done" /\ made' # "aborted"
  BY DEF CreateRow, CreateRefused, PostMessage, PointToMessage, CreateThread, ThreadRefused,
         PostDraft, CommitDraft, WithdrawDraft
<1>2. row' # row => ~Emptied /\ Logged = {}
  <2>1. \A c \in Calls : Writing(c) => row' = row
    BY CreatorAlone
  <2>2. QED
    BY <2>1 DEF Emptied, Logged, Writing
<1>3. Emptied' = Emptied /\ Logged' = Logged
  BY <1>1 DEF Emptied, Logged
<1>4. /\ Fresh(Original).message = Original /\ Fresh(NoMessage).message = NoMessage
      /\ Fresh(NoMessage) # NoRow /\ Fresh(Original) # NoRow
  BY FreshRow, NoRowAssumption DEF Fresh, Messages
<1>5. Render(Fresh(NoMessage), {}, FALSE) # NoMessage
  <2>1. Render(Fresh(NoMessage), {}, FALSE) \in Content
    BY DEF Render, Fresh, Content, State
  <2>2. QED
    BY <2>1, NoContentAssumption
<1>6. PostMessage \/ PostDraft => Posted' = Posted \cup {Original}
  BY <1>5 DEF PostMessage, PostDraft, Posted, Messages, TypeOK
<1>7. ~PostMessage /\ ~PostDraft => Posted' = Posted
  BY DEF CreateRow, CreateRefused, PointToMessage, CreateThread, ThreadRefused,
         CommitDraft, WithdrawDraft, Posted
<1>8. ClearingInv'
  BY <1>1 DEF ExactInv, ClearingInv
<1>9. CASE CreateRow \/ CreateRefused \/ PostMessage \/ PostDraft \/ WithdrawDraft
  BY <1>6, <1>7, <1>8, <1>9
  DEF CreateRow, CreateRefused, PostMessage, PostDraft, WithdrawDraft, ExactInv, CreationInv,
      PostedInv
<1>10. CASE PointToMessage \/ CommitDraft
  <2>1. row' = Fresh(Original) /\ row # Fresh(Original)
    BY <1>4, <1>10 DEF PointToMessage, CommitDraft, SaveRow, WriteRow, CopyInv, RowMade,
                       CopiesInv, Clean
  <2>2. Posted' = {Original} /\ made' \in {"pointed", "done"} /\ ~Emptied' /\ Logged' = {}
    <3>1. Posted = {Original} /\ made' \in {"pointed", "done"}
      BY <1>10 DEF PointToMessage, CommitDraft, ExactInv, CreationInv
    <3>2. ~PostMessage /\ ~PostDraft
      BY <1>10 DEF PointToMessage, CommitDraft, PostMessage, PostDraft
    <3>3. QED
      BY <1>2, <1>3, <1>7, <2>1, <3>1, <3>2
  <2>3. Named' = {Original}
    BY <1>4, <2>1 DEF Named
  <2>4. PostedInv'
    BY <2>2, <2>3 DEF PostedInv
  <2>5. QED
    BY <1>8, <2>2, <2>4 DEF ExactInv, CreationInv
<1>11. CASE CreateThread
  <2>1. row' = row /\ made = "pointed" /\ made' = "done" /\ Posted' = Posted
    BY <1>7, <1>11 DEF CreateThread, PostMessage, PostDraft, SaveRow, WriteRow, CopyInv, RowMade,
                       CopiesInv, Clean
  <2>2. PostedInv'
    BY <1>3, <2>1 DEF ExactInv, PostedInv, Named
  <2>3. QED
    BY <1>8, <2>1, <2>2 DEF ExactInv, CreationInv
<1>12. CASE ThreadRefused
  <2>1. /\ row = Fresh(Original) /\ row' # row /\ made = "pointed" /\ made' = "withdrawn"
        /\ Posted' = Posted
    BY <1>4, <1>7, <1>12 DEF ThreadRefused, PostMessage, PostDraft, WriteRow, CopyInv, CopiesInv,
                             Clean
  <2>2. Posted = {Original}
    BY <1>2, <1>4, <2>1 DEF ExactInv, PostedInv, Named
  <2>3. QED
    BY <1>8, <2>1, <2>2 DEF ExactInv, CreationInv, PostedInv
<1>13. QED
  BY <1>9, <1>10, <1>11, <1>12

(* A step that leaves the messages as they are, and the one the row names, *)
(* of a call that is not and does not become one at the messages.          *)
Replacing(c) == pc[c] \in {"logged", "removed", "clearing"}

LEMMA ExactSame ==
  ASSUME TypeOK, ExactInv, NEW c \in Calls, CallStep(c),
         Named' = Named, Posted' = Posted, ~Replacing(c), ~Replacing(c)'
  PROVE  ExactInv'
<1>1. UNCHANGED made
  BY CallKeeps
<1>2. \A d \in Calls \ {c} : pc'[d] = pc[d] /\ snap'[d] = snap[d]
  BY OthersSame
<1>3. Emptied' = Emptied /\ Logged' = Logged
  BY <1>2 DEF Emptied, Logged, Replacing
<1>4. ClearingInv'
  BY <1>2 DEF ExactInv, ClearingInv, Replacing
<1>5. QED
  BY <1>1, <1>3, <1>4 DEF ExactInv, CreationInv, PostedInv

(* What becomes of the messages when a handler deletes the one the row     *)
(* names, or would.                                                        *)
LEMMA OldRemoved ==
  ASSUME TypeOK, NamesInv, row \in Row, PostedInv, made \in {"pointed", "done"},
         \/ row.message = NoMessage /\ UNCHANGED shown
         \/ /\ row.message # NoMessage
            /\ shown' = [shown EXCEPT ![row.message] = NoMessage]
  PROVE  Posted' = Logged
<1>1. shown \in [Messages -> Content \cup {NoMessage}] /\ row # NoRow
  BY NoRowAssumption DEF TypeOK
<1>2. row.message \notin Logged
  BY <1>1 DEF NamesInv, Logged
<1>3. Posted \ {row.message} = Logged \ {row.message}
  BY DEF PostedInv, Named
<1>4. CASE row.message = NoMessage
  <2>1. Posted' = Posted /\ Named = {}
    BY <1>4 DEF Posted, Named
  <2>2. QED
    BY <2>1 DEF PostedInv
<1>5. CASE row.message # NoMessage
  <2>1. Posted' = Posted \ {row.message}
    BY <1>1, <1>5 DEF Posted
  <2>2. QED
    BY <1>2, <1>3, <2>1
<1>6. QED
  BY <1>4, <1>5

(* What a moderator's handler does, step by step. *)
LEMMA ExactWriter ==
  ASSUME TypeOK, CopyInv, ExactInv, NEW c \in Calls, Handle(c), Writing(c), Clean, Clean'
  PROVE  ExactInv'
<1>0. CallStep(c) /\ ~trouble'
  BY DEF CallStep, Clean
<1>1. row \in Row /\ row # NoRow /\ snap[c] \in Row /\ CopyOf(c)
  BY WriterKnows, NoRowAssumption
<1>2. /\ pc \in [Calls -> Stage] /\ snap \in [Calls -> Row \cup {NoRow}]
      /\ shown \in [Messages -> Content \cup {NoMessage}]
  BY DEF TypeOK, CallsOK
<1>3. UNCHANGED made /\ \A d \in Calls \ {c} : pc'[d] = pc[d] /\ snap'[d] = snap[d]
  BY <1>0, CallKeeps, OthersSame
<1>4. Resolved(c) => made = "done"
  BY ResolvedLate DEF ExactInv
<1> USE ConstantsAssumption
\* A save of another state or note, of the same message.
<1>5. CASE NoteSave(c) \/ ResolveSave(c) \/ ResolveSaveAgain(c)
  <2>1. pc[c] \in {"fetched", "resaving"} /\ Saves(c) /\ ~PointToLog(c)
    BY <1>5 DEF NoteSave, ResolveSave, ResolveSaveAgain, PointToLog, At, Saves
  <2>2. Named' = Named
    BY <1>1, <2>1, SavedRow DEF Named, CopyOf
  <2>3. Posted' = Posted
    BY <1>5 DEF NoteSave, ResolveSave, ResolveSaveAgain, Posted
  <2>4. ~Replacing(c) /\ ~Replacing(c)'
    BY <1>2, <1>5, <2>1 DEF NoteSave, ResolveSave, ResolveSaveAgain, Goto, Replacing
  <2>5. QED
    BY <1>0, <2>2, <2>3, <2>4, ExactSame
<1>6. CASE PostLog(c)
  <2>1. Render(snap[c], votes, TRUE) # NoMessage
    <3>1. Render(snap[c], votes, TRUE) \in Content
      BY <1>1 DEF Render, Content, Row, TypeOK
    <3>2. QED
      BY <3>1, NoContentAssumption
  <2>2. Posted' = Posted \cup {c}
    BY <1>2, <1>6, <2>1 DEF PostLog, Posted, Messages
  <2>3. pc[c] = "resolved" /\ pc'[c] = "logged" /\ UNCHANGED row
    BY <1>2, <1>6 DEF PostLog, Goto, database, copies
  <2>4. Emptied' = Emptied /\ Logged' = Logged \cup {c} /\ Named' = Named
    BY <1>3, <2>3 DEF Emptied, Logged, Named
  <2>5. made = "done"
    BY <1>4, <2>3 DEF Resolved
  <2>6. ClearingInv'
    BY <1>3, <2>3 DEF ExactInv, ClearingInv
  <2>7. QED
    BY <1>3, <2>2, <2>4, <2>5, <2>6 DEF ExactInv, CreationInv, PostedInv
<1>7. CASE RemoveOld(c)
  <2>1. pc[c] = "logged" /\ pc'[c] = "removed"
    BY <1>2, <1>7 DEF RemoveOld, Goto
  <2>2. Emptied' /\ Logged' = Logged
    BY <1>3, <2>1 DEF Emptied, Logged
  <2>3. made = "done" /\ snap[c].message = row.message
    BY <1>1, <1>4, <2>1 DEF Resolved, CopyOf
  <2>4. \/ row.message = NoMessage /\ UNCHANGED shown
        \/ /\ row.message # NoMessage
           /\ shown' = [shown EXCEPT ![row.message] = NoMessage]
    BY <1>0, <1>7, <2>3 DEF RemoveOld
  <2>5. Posted' = Logged
    BY <1>1, <2>3, <2>4, OldRemoved DEF CopyInv, ExactInv
  <2>6. ClearingInv'
    BY <1>3, <2>1 DEF ExactInv, ClearingInv
  <2>7. QED
    BY <1>3, <2>2, <2>3, <2>5, <2>6 DEF ExactInv, CreationInv, PostedInv
<1>8. CASE ClearMessage(c)
  <2>1. pc[c] = "fetched" /\ pc'[c] = "clearing"
    BY <1>2, <1>8 DEF ClearMessage, At, Goto
  <2>2. Emptied' /\ Logged' = Logged
    BY <1>3, <2>1 DEF Emptied, Logged
  <2>3. snap[c].message = row.message
    BY <1>1, <2>1 DEF CopyOf
  <2>4. \/ row.message = NoMessage /\ UNCHANGED shown
        \/ /\ row.message # NoMessage
           /\ shown' = [shown EXCEPT ![row.message] = NoMessage]
    BY <1>0, <1>8, <2>3 DEF ClearMessage
  <2>5. snap'[c].message = NoMessage
    BY <1>0, <1>1, <1>2, <1>8, <2>3 DEF ClearMessage, Row
  <2>6. ClearingInv'
    BY <1>3, <2>5 DEF ExactInv, ClearingInv
  <2>7. made \in {"row", "posted", "pointed", "done"}
    BY <1>1 DEF CopyInv, RowMade, ExactInv, CreationInv, TypeOK, MadeStage
  <2>8. CASE made \in {"row", "posted"}
    <3>1. row.message = NoMessage
      BY <2>8 DEF CopyInv, CopiesInv, Clean, Fresh
    <3>2. Posted' = Posted
      BY <2>4, <3>1 DEF Posted
    <3>3. QED
      BY <1>3, <2>6, <2>8, <3>2 DEF ExactInv, CreationInv, PostedInv
  <2>9. CASE made \in {"pointed", "done"}
    <3>1. Posted' = Logged
      BY <1>1, <2>4, <2>9, OldRemoved DEF CopyInv, ExactInv
    <3>2. QED
      BY <1>3, <2>2, <2>6, <2>9, <3>1 DEF ExactInv, CreationInv, PostedInv
  <2>10. QED
    BY <2>7, <2>8, <2>9
\* The last save of such a call.
<1>9. CASE PointToLog(c)
  <2>1. pc[c] = "removed" /\ pc'[c] = "left" /\ Posted' = Posted /\ Saves(c)
    BY <1>2, <1>9 DEF PointToLog, Leave, Goto, Posted, Saves
  <2>2. row'.message = c
    BY <1>1, <1>9, <2>1, SavedRow
  <2>3. row.message # c
    BY <1>1, <2>1 DEF CopyInv, NamesInv
  <2>4. \A d \in Calls \ {c} : ~Writing(d)
    BY <2>1, <2>2, <2>3, SaverAlone
  <2>5. Emptied /\ Logged = {c} /\ ~Emptied' /\ Logged' = {}
    BY <1>3, <2>1, <2>4 DEF Emptied, Logged, Writing
  <2>6. made = "done" /\ Named' = {c}
    BY <1>4, <2>1, <2>2 DEF Resolved, Named
  <2>7. ClearingInv'
    BY <1>3, <2>1 DEF ExactInv, ClearingInv
  <2>8. QED
    BY <1>3, <2>1, <2>5, <2>6, <2>7 DEF ExactInv, CreationInv, PostedInv
<1>10. CASE ClearSave(c)
  <2>1. pc[c] = "clearing" /\ pc'[c] = "left" /\ Posted' = Posted /\ Saves(c)
    BY <1>2, <1>10 DEF ClearSave, Leave, Goto, Posted, Saves
  <2>2. row'.state = "CLEARED" /\ row'.message = NoMessage
    <3>1. ~ResolveSave(c) /\ ~PointToLog(c)
      BY <1>10 DEF ClearSave, ResolveSave, PointToLog, At
    <3>2. snap[c].message = NoMessage
      BY <2>1 DEF ExactInv, ClearingInv
    <3>3. QED
      BY <1>1, <1>10, <2>1, <3>1, <3>2, SavedRow
  <2>3. made \notin {"row", "posted", "pointed"}
    <3>1. Fresh(NoMessage).state = "PENDING" /\ Fresh(Original).state = "PENDING"
      BY FreshRow DEF Messages
    <3>2. made \in {"row", "posted", "pointed"} => row' # row
      BY <2>2, <3>1 DEF CopyInv, CopiesInv, Clean
    <3>3. QED
      BY <2>1, <3>2, SaverAlone
  <2>4. made = "done"
    BY <1>1, <2>3 DEF CopyInv, RowMade, ExactInv, CreationInv, TypeOK, MadeStage
  <2>5. Posted = Logged /\ Logged' = Logged /\ Named' = {}
    BY <1>3, <2>1, <2>2, <2>4 DEF ExactInv, PostedInv, Emptied, Logged, Named
  <2>6. ClearingInv'
    BY <1>3, <2>1 DEF ExactInv, ClearingInv
  <2>7. QED
    BY <1>3, <2>1, <2>4, <2>5, <2>6 DEF ExactInv, CreationInv, PostedInv
<1>11. QED
  <2>1. \/ NoteSave(c) \/ ResolveSave(c) \/ ResolveSaveAgain(c)
        \/ PostLog(c) \/ RemoveOld(c) \/ ClearMessage(c)
        \/ PointToLog(c) \/ ClearSave(c)
    BY <1>0 DEF Handle, Writing, At, InsertVote, VoteOrphaned, FindVote, ChangeVote,
           ResolveNoLog, TakeKey, Drop, Enqueue
  <2>2. QED
    BY <1>5, <1>6, <1>7, <1>8, <1>9, <1>10, <2>1

(* Fetches, votes, requests for an edit and jobs touch no row, and edit    *)
(* only messages there are.                                                *)
LEMMA ExactOther ==
  ASSUME TypeOK, ExactInv, NEW c \in Calls, ~trouble',
         \/ \E o \in Op : Fetch(c, o)
         \/ InsertVote(c) \/ FindVote(c) \/ ChangeVote(c)
         \/ TakeKey(c) \/ Drop(c) \/ Enqueue(c) \/ Job(c)
  PROVE  ExactInv'
<1>0. pc \in [Calls -> Stage] /\ op \in [Calls -> Op \cup {NoOp}]
      /\ shown \in [Messages -> Content \cup {NoMessage}]
  BY DEF TypeOK, CallsOK
<1>1. CallStep(c)
  BY DEF CallStep, Handle
<1>2. UNCHANGED row
  BY DEF Fetch, InsertVote, FindVote, ChangeVote, TakeKey, Drop, Enqueue, database, copies,
         Job, JobFetch, JobCountUp, JobCountDown, JobEdit, JobRefused
<1>3. Posted' = Posted
  <2>1. CASE JobEdit(c)
    <3> DEFINE m == snap[c].message
               content == Render(snap[c], tally[c], op[c].kind = "resolve")
    <3>1. content \in Content
      BY <2>1 DEF JobEdit, Render, Content, TypeOK, CallsOK, Idle, Row
    <3>2. content # NoMessage
      BY <3>1, NoContentAssumption
    <3>3. shown' = IF shown[m] = NoMessage THEN shown ELSE [shown EXCEPT ![m] = content]
      BY <2>1 DEF JobEdit
    <3>4. QED
      BY <1>0, <3>2, <3>3 DEF Posted
  <2>2. CASE ~JobEdit(c)
    <3>1. UNCHANGED shown
      BY <2>2 DEF Fetch, InsertVote, FindVote, ChangeVote, TakeKey, Drop, Enqueue,
                  Job, JobFetch, JobCountUp, JobCountDown, JobRefused
    <3>2. QED
      BY <3>1 DEF Posted
  <2>3. QED
    BY <2>1, <2>2
<1>4. /\ pc[c] \in {"idle", "fetched", "differs", "saved", "keyed", "scheduled",
                    "running", "counting", "counted"}
      /\ pc'[c] \in {"fetched", "differs", "saved", "keyed", "scheduled", "running",
                     "counting", "counted", "done", "left"}
  BY <1>0 DEF Fetch, InsertVote, FindVote, ChangeVote, TakeKey, Drop, Enqueue, At, Goto, Leave,
              Job, JobFetch, JobCountUp, JobCountDown, JobEdit, JobRefused, EndJob
<1>5. QED
  BY <1>1, <1>2, <1>3, <1>4, ExactSame DEF Replacing, Named

(* Each step of the bot that does not fail keeps the messages exact.       *)
LEMMA MessagesNext ==
  TypeOK /\ UnseenInv /\ CopyInv /\ MessagesInv /\ [Next]_vars => MessagesInv'
<1> SUFFICES ASSUME TypeOK, UnseenInv, CopyInv, MessagesInv, [Next]_vars, Clean'
             PROVE  ExactInv'
  BY DEF MessagesInv
<1>1. Clean /\ ExactInv /\ ~trouble'
  BY CleanStays DEF MessagesInv, Clean
<1>2. CASE Create
  BY <1>1, <1>2, ExactCreate
<1>3. ASSUME NEW c \in Calls, NEW o \in Op, Fetch(c, o)
      PROVE  ExactInv'
  BY <1>1, <1>3, ExactOther
<1>4. ASSUME NEW c \in Calls, Handle(c)
      PROVE  ExactInv'
  <2>1. CASE Writing(c)
    BY <1>1, <1>4, <2>1, ExactWriter
  <2>2. CASE ~Writing(c)
    <3>1. \/ InsertVote(c) \/ FindVote(c) \/ ChangeVote(c)
          \/ TakeKey(c) \/ Drop(c) \/ Enqueue(c)
      BY <1>1, <1>4, <2>2
      DEF Handle, VoteOrphaned, NoteSave, ResolveSave, ResolveSaveAgain, ResolveNoLog,
          PostLog, RemoveOld, PointToLog, ClearMessage, ClearSave, Writing, At
    <3>2. QED
      BY <1>1, <3>1, ExactOther
  <2>3. QED
    BY <2>1, <2>2
<1>5. ASSUME NEW c \in Calls, Job(c)
      PROVE  ExactInv'
  BY <1>1, <1>5, ExactOther
<1>6. CASE Expire \/ UNCHANGED vars
  <2>1. UNCHANGED <<made, row, shown, pc, snap>>
    BY <1>6 DEF Expire, vars, database, copies, calls
  <2>2. QED
    BY <1>1, <2>1 DEF ExactInv, CreationInv, ClearingInv, PostedInv, Posted, Named, Emptied,
                      Logged
<1>7. ~CreateAborts /\ \A c \in Calls : ~Abort(c) /\ ~Crash(c)
  BY <1>1 DEF CreateAborts, Abort, Crash
<1>8. QED
  BY <1>2, <1>3, <1>4, <1>5, <1>6, <1>7 DEF Next

(* When every handler is over and none failed, Discord has exactly the     *)
(* message the database knows: no handler leaves a second one behind, and  *)
(* no row names one that is gone.  Handlers may overlap, unless one saves  *)
(* over a row that another is still to save.                               *)
THEOREM MessagesAreTheRows == Spec => []MessagesMatchRow
<1> DEFINE Inv == TypeOK /\ UnseenInv /\ CopyInv /\ MessagesInv
<1>1. Init => Inv
  BY VotesInit, CopyInit, MessagesInit DEF VotesInv
<1>2. Inv /\ [Next]_vars => Inv'
  BY TypeNext, UnseenNext, CopyNext, MessagesNext
<1>3. Inv => MessagesMatchRow
  <2> SUFFICES ASSUME TypeOK, CopyInv, ExactInv, Quiet
               PROVE  Posted = IF row # NoRow THEN Named
                               ELSE IF made = "withdrawn" THEN {Original} ELSE {}
    BY DEF MessagesMatchRow, MessagesInv, Clean, Posted, Named
  <2>1. ~Emptied /\ Logged = {}
    BY DEF Quiet, Emptied, Logged, Idle
  <2>2. made \in {"new", "done", "refused", "withdrawn"}
    BY DEF Quiet, Creating, ExactInv, CreationInv, TypeOK, MadeStage
  <2>3. CASE made = "done"
    BY <2>1, <2>3 DEF CopyInv, RowMade, ExactInv, PostedInv
  <2>4. CASE made # "done"
    BY <2>2, <2>4 DEF CopyInv, RowMade, ExactInv, CreationInv
  <2>5. QED
    BY <2>2, <2>3, <2>4
<1>4. QED
  BY <1>1, <1>2, <1>3, PTL DEF Spec
-----------------------------------------------------------------------------
(* Why the message ends up showing the row.  Whenever nothing is left to   *)
(* fetch and no handler is between its log message and its last save, the  *)
(* message shows the row or the last job to fetch it holds it as it is     *)
(* (ShownInv); and a job that holds an older copy cannot edit a message    *)
(* that has been posted since, nor one that is not lagging afterwards.     *)

(* A handler after which the message has to be edited, or is a new one. *)
Moving(c) == Replacing(c) \/ pc[c] = "resolved"

(* The jobs at work: one of them has fetched last, and only once the row   *)
(* named a message.                                                        *)
JobsInv ==
  /\ \A c \in Calls : pc[c] # "aborted"
  /\ ~orphaned
  /\ \A c \in outrun : InFlight(c)
  /\ \A c, d \in Calls : /\ InFlight(c) /\ c \notin outrun
                         /\ InFlight(d) /\ d \notin outrun
                         => c = d
  /\ \A c \in Calls : InFlight(c) =>
       /\ made \notin {"new", "row", "posted", "announced"}
       /\ snap[c].message # NoMessage

(* What DisplayMatchesRow asks of a message.                               *)
Shows(m) ==
  /\ shown[m].state = row.state
  /\ shown[m].note = row.note
  /\ m = Original => shown[m].votes = votes

(* A message in the log channel shows what its handler resolved.           *)
LogInv ==
  \A c \in Calls : pc[c] \in {"logged", "removed"} =>
    shown[c].state = snap[c].state /\ shown[c].note = snap[c].note

(* Until somebody votes, the message shows what was posted.                *)
BirthInv ==
  made \in {"posted", "announced"} /\ ~dirty =>
    votes = {} /\ shown[Original] = Render(Fresh(NoMessage), {}, FALSE)

(* The message shows what the row says, and no job but one that has been   *)
(* outrun is about to edit it.                                             *)
UpToDate ==
  /\ \A d \in Calls : InFlight(d) /\ d \notin outrun => snap[d].message # row.message
  /\ shown[row.message] # NoMessage /\ row.message \notin lagging => Shows(row.message)

(* A job at work will edit it so. *)
ToBeEdited(d) ==
  /\ InFlight(d)
  /\ d \notin outrun
  /\ snap[d] = row
  /\ row.message = Original =>
       /\ pc[d] = "counting" => tally[d] = {v \in votes : v.type = "UpVote"}
       /\ pc[d] = "counted" => tally[d] = votes

(* When no change waits for a job: the row's message is up to date, or the *)
(* job at work will make it so.                                            *)
ShownInv ==
  Published /\ ~dirty /\ (\A c \in Calls : ~Moving(c)) =>
    UpToDate \/ \E d \in Calls : ToBeEdited(d)

(* The inductive invariant of what is displayed. *)
FreshInv == JobsInv /\ LogInv /\ BirthInv /\ ShownInv

(* A job starts with a row that names a message. *)
LEMMA PublishedOK ==
  ASSUME TypeOK, CopyInv, ExactInv, Clean, Published
  PROVE  made \in {"pointed", "done"}
<1>1. Fresh(NoMessage).message = NoMessage
  BY DEF Fresh
<1>2. QED
  BY <1>1 DEF Published, CopyInv, RowMade, CopiesInv, Clean, ExactInv, CreationInv, TypeOK,
              MadeStage

(* The steps of a job, and everyone else's. *)
LEMMA JobKinds ==
  ASSUME TypeOK, NEW c \in Calls, CallStep(c), ~trouble'
  PROVE  \/ JobFetch(c) /\ Published
         \/ JobCountUp(c)
         \/ JobCountDown(c)
         \/ JobEdit(c)
         \/ UNCHANGED edits /\ ~InFlight(c) /\ ~InFlight(c)' /\ ~Job(c)
<1>0. pc \in [Calls -> Stage]
  BY DEF TypeOK, CallsOK
<1>1. CASE \E o \in Op : Fetch(c, o)
  BY <1>0, <1>1 DEF Fetch, Goto, Leave, jobs, edits, InFlight, Job, JobFetch, JobCountUp,
                    JobCountDown, JobEdit, JobRefused
<1>2. CASE Handle(c)
  <2>1. UNCHANGED edits
    BY <1>2 DEF Handle, InsertVote, VoteOrphaned, FindVote, ChangeVote, NoteSave, ResolveSave,
      ResolveSaveAgain, ResolveNoLog, PostLog, RemoveOld, PointToLog, ClearMessage,
      ClearSave, TakeKey, Drop, Enqueue, jobs, edits
  <2>2. /\ pc[c] \notin {"scheduled", "running", "counting", "counted"}
        /\ pc'[c] \notin {"running", "counting", "counted"}
    BY <1>0, <1>2 DEF Handle, InsertVote, VoteOrphaned, FindVote, ChangeVote, NoteSave,
      ResolveSave, ResolveSaveAgain, ResolveNoLog, PostLog, RemoveOld, PointToLog, ClearMessage,
      ClearSave, TakeKey, Drop, Enqueue, At, Goto, Leave
  <2>3. QED
    BY <2>1, <2>2 DEF InFlight, Job, JobFetch, JobCountUp, JobCountDown, JobEdit, JobRefused
<1>3. CASE Job(c) \/ Abort(c) \/ Crash(c)
  BY <1>3 DEF Job, JobFetch, JobRefused, Abort, Crash
<1>4. QED
  BY <1>1, <1>2, <1>3 DEF CallStep

(* The last job to fetch the row outruns the others.                       *)
LEMMA JobsNext ==
  ASSUME TypeOK, CopyInv, ExactInv, JobsInv, Next, Clean, Clean'
  PROVE  JobsInv'
<1>0. /\ pc \in [Calls -> Stage] /\ snap \in [Calls -> Row \cup {NoRow}]
      /\ key \in Calls \cup {NoCall} /\ outrun \subseteq Calls /\ ~trouble'
  BY DEF TypeOK, CallsOK, Clean
<1>1. CASE Create
  <2>1. UNCHANGED <<pc, op, snap, orphaned, outrun>>
    BY <1>1 DEF Create, calls, history, jobs, edits, CreateRow, CreateRefused, PostMessage,
                PointToMessage, CreateThread, ThreadRefused, PostDraft, CommitDraft, WithdrawDraft
  <2>2. made \notin {"new", "row", "posted", "announced"} =>
          made' \notin {"new", "row", "posted", "announced"}
    BY <1>1 DEF Create, CreateRow, CreateRefused, PostMessage, PointToMessage,
                CreateThread, ThreadRefused, PostDraft, CommitDraft, WithdrawDraft
  <2>3. QED
    BY <2>1, <2>2 DEF JobsInv, InFlight
<1>2. ASSUME NEW c \in Calls, CallStep(c)
      PROVE  JobsInv'
  <2>1. ~Abort(c) /\ ~Crash(c) /\ ~JobRefused(c)
    BY <1>0 DEF Abort, Crash, JobRefused
  <2>2. UNCHANGED made
    BY <1>2, CallKeeps
  <2>3. pc'[c] # "aborted"
    BY <1>0, <1>2, <2>1
    DEF CallStep, Fetch, Handle, InsertVote, VoteOrphaned, FindVote, ChangeVote, NoteSave,
        ResolveSave, ResolveSaveAgain, ResolveNoLog, PostLog, RemoveOld, PointToLog,
        ClearMessage, ClearSave, TakeKey, Drop, Enqueue, Job, JobFetch, JobCountUp, JobCountDown,
        JobEdit, EndJob, Goto, Leave
  <2>4. ~orphaned'
    BY <1>0, <1>2, <2>1
    DEF CallStep, Fetch, Handle, InsertVote, VoteOrphaned, FindVote, ChangeVote, NoteSave,
        ResolveSave, ResolveSaveAgain, ResolveNoLog, PostLog, RemoveOld, PointToLog,
        ClearMessage, ClearSave, TakeKey, Drop, Enqueue, Job, JobFetch, JobCountUp, JobCountDown,
        JobEdit, history, JobsInv
  <2>5. \A d \in Calls \ {c} : /\ InFlight(d)' <=> InFlight(d)
                               /\ snap'[d] = snap[d] /\ pc'[d] = pc[d]
    BY <1>2, OthersSame DEF InFlight
  <2>6. \A d \in Calls : pc'[d] # "aborted"
    BY <2>3, <2>5 DEF JobsInv
  <2>7. CASE JobFetch(c) /\ Published
    <3>1. /\ ~InFlight(c) /\ InFlight(c)' /\ snap'[c] = row
          /\ outrun' = outrun \cup {d \in Calls : InFlight(d)}
      BY <1>0, <2>7 DEF JobFetch, Goto, InFlight, Outrun
    <3>2. made \notin {"new", "row", "posted", "announced"} /\ row.message # NoMessage
      BY <2>7, PublishedOK DEF Published
    <3>3. \A d \in outrun' : InFlight(d)'
      BY <1>0, <2>5, <3>1 DEF JobsInv
    <3>4. \A d \in Calls : InFlight(d)' /\ d \notin outrun' => d = c
      BY <2>5, <3>1
    <3>5. \A d \in Calls : InFlight(d)' =>
            /\ made' \notin {"new", "row", "posted", "announced"}
            /\ snap'[d].message # NoMessage
      BY <2>2, <2>5, <3>1, <3>2 DEF JobsInv
    <3>6. QED
      BY <2>4, <2>6, <3>3, <3>4, <3>5 DEF JobsInv
  <2>8. CASE JobCountUp(c) \/ JobCountDown(c)
    <3>1. InFlight(c) /\ snap' = snap /\ InFlight(c)' /\ outrun' = outrun
      BY <1>0, <2>8 DEF JobCountUp, JobCountDown, InFlight, Goto, jobs, edits
    <3>2. QED
      BY <1>0, <2>2, <2>4, <2>5, <2>6, <3>1 DEF JobsInv
  <2>9. CASE JobEdit(c)
    <3>1. ~InFlight(c)' /\ outrun' = outrun \ {c}
      BY <1>0, <2>9 DEF JobEdit, EndJob, Leave, Goto, InFlight
    <3>2. QED
      BY <1>0, <2>2, <2>4, <2>5, <2>6, <3>1 DEF JobsInv
  <2>10. CASE UNCHANGED edits /\ ~InFlight(c) /\ ~InFlight(c)'
    <3>1. outrun' = outrun
      BY <2>10 DEF edits
    <3>2. QED
      BY <1>0, <2>2, <2>4, <2>5, <2>6, <2>10, <3>1 DEF JobsInv
  <2>11. QED
    BY <1>0, <1>2, <2>7, <2>8, <2>9, <2>10, JobKinds
<1>3. CASE Expire
  BY <1>3 DEF Expire, calls, history, edits, JobsInv, InFlight
<1>4. ~CreateAborts
  BY <1>0 DEF CreateAborts
<1>5. QED
  BY <1>1, <1>2, <1>3, <1>4 DEF Next, CallStep

(* No other handler and no job edits or deletes a log message before the   *)
(* row names it.                                                           *)
LEMMA LogNext ==
  ASSUME TypeOK, CopyInv, LogInv, Next, Clean'
  PROVE  LogInv'
<1>0. /\ pc \in [Calls -> Stage] /\ op \in [Calls -> Op \cup {NoOp}]
      /\ snap \in [Calls -> Row \cup {NoRow}]
      /\ shown \in [Messages -> Content \cup {NoMessage}]
  BY DEF TypeOK, CallsOK
<1>1. CASE Create \/ Expire
  <2>1. UNCHANGED <<pc, snap>>
    BY <1>1 DEF Create, calls, CreateRow, CreateRefused, PostMessage, PointToMessage,
                CreateThread, ThreadRefused, PostDraft, CommitDraft, WithdrawDraft, Expire
  <2>2. \A c \in Calls : shown'[c] = shown[c]
    BY <1>0, <1>1, ConstantsAssumption
    DEF Create, CreateRow, CreateRefused, PostMessage, PointToMessage, Messages,
        CreateThread, ThreadRefused, PostDraft, CommitDraft, WithdrawDraft, Expire
  <2>3. QED
    BY <2>1, <2>2 DEF LogInv
<1>2. ASSUME NEW c \in Calls, CallStep(c)
      PROVE  LogInv'
  <2> SUFFICES ASSUME NEW d \in Calls, pc'[d] \in {"logged", "removed"}
               PROVE  shown'[d].state = snap'[d].state /\ shown'[d].note = snap'[d].note
    BY DEF LogInv
  <2>1. CASE d = c
    <3>1. PostLog(c) \/ RemoveOld(c)
      BY <1>0, <1>2, <2>1
      DEF CallStep, Fetch, Handle, InsertVote, VoteOrphaned, FindVote, ChangeVote, NoteSave,
          ResolveSave, ResolveSaveAgain, ResolveNoLog, PointToLog, ClearMessage, ClearSave,
          TakeKey, Drop, Enqueue, Job, JobFetch, JobCountUp, JobCountDown, JobEdit, JobRefused,
          Abort, Crash, EndJob, Goto, Leave
    <3>2. CASE PostLog(c)
      BY <1>0, <2>1, <3>2 DEF PostLog, Render, SameWork, Messages
    <3>3. CASE RemoveOld(c)
      <4>1. snap[c].message # c
        BY <3>3, NoRowAssumption DEF RemoveOld, CopyInv, NamesInv, TypeOK, CallsOK, Idle
      <4>2. shown'[c] = shown[c]
        BY <1>0, <3>3, <4>1 DEF RemoveOld, Messages
      <4>3. QED
        BY <2>1, <3>3, <4>2 DEF RemoveOld, LogInv, SameWork
    <3>4. QED
      BY <3>1, <3>2, <3>3
  <2>2. CASE d # c
    <3>1. pc'[d] = pc[d] /\ snap'[d] = snap[d]
      BY <1>2, <2>2, OthersSame
    <3>2. snap[c] \in Row => snap[c].message # d
      BY <3>1, NoRowAssumption DEF CopyInv, NamesInv
    <3>3. shown'[d] = shown[d]
      <4>1. CASE JobEdit(c) \/ RemoveOld(c) \/ ClearMessage(c)
        <5>1. snap[c] \in Row
          BY <4>1 DEF JobEdit, RemoveOld, ClearMessage, At, TypeOK, CallsOK, Idle
        <5>2. QED
          BY <1>0, <3>2, <4>1, <5>1 DEF JobEdit, RemoveOld, ClearMessage, Messages
      <4>2. CASE PostLog(c)
        BY <1>0, <2>2, <4>2 DEF PostLog, Messages
      <4>3. CASE ~JobEdit(c) /\ ~RemoveOld(c) /\ ~ClearMessage(c) /\ ~PostLog(c)
        BY <1>2, <4>3
        DEF CallStep, Fetch, Handle, InsertVote, VoteOrphaned, FindVote, ChangeVote, NoteSave,
            ResolveSave, ResolveSaveAgain, ResolveNoLog, PointToLog,
            ClearSave, TakeKey, Drop, Enqueue, Job, JobFetch, JobCountUp, JobCountDown,
            JobRefused, Abort, Crash
      <4>4. QED
        BY <4>1, <4>2, <4>3
    <3>4. QED
      BY <3>1, <3>3 DEF LogInv
  <2>3. QED
    BY <2>1, <2>2
<1>3. ~CreateAborts
  BY DEF CreateAborts, Clean
<1>4. QED
  BY <1>1, <1>2, <1>3 DEF Next, CallStep

(* A vote on a message that the row does not name yet owes an edit; one on *)
(* a message whose row is not committed finds nothing.                     *)
LEMMA BirthNext ==
  ASSUME TypeOK, UnseenInv, CopyInv, ExactInv, JobsInv, BirthInv, Next, Clean, Clean'
  PROVE  BirthInv'
<1> SUFFICES ASSUME made' \in {"posted", "announced"}, ~dirty'
             PROVE  votes' = {} /\ shown'[Original] = Render(Fresh(NoMessage), {}, FALSE)
  BY DEF BirthInv
<1>0. ~trouble'
  BY DEF Clean
<1>1. CASE Create
  <2>1. PostMessage \/ PostDraft
    BY <1>1 DEF Create, CreateRow, CreateRefused, PointToMessage, CreateThread, ThreadRefused,
                CommitDraft, WithdrawDraft
  <2>2. votes = {} /\ votes' = votes
    BY <2>1 DEF PostMessage, PostDraft, UnseenInv, database
  <2>3. QED
    BY <2>1, <2>2 DEF PostMessage, PostDraft, TypeOK, Messages
<1>2. CASE Expire
  BY <1>2 DEF Expire, BirthInv, database, history
<1>3. ASSUME NEW c \in Calls, CallStep(c)
      PROVE  votes' = {} /\ shown'[Original] = Render(Fresh(NoMessage), {}, FALSE)
  <2>1. made \in {"posted", "announced"}
    BY <1>3, CallKeeps
  <2>2. ~Resolved(c) /\ ~InFlight(c) /\ ~Published
    BY <2>1, PublishedOK, ResolvedLate DEF JobsInv, ExactInv
  <2>3. Writing(c) /\ pc[c] # "clearing" => snap[c].message = NoMessage
    <3> SUFFICES ASSUME Writing(c), pc[c] # "clearing"
                 PROVE  snap[c].message = NoMessage
      OBVIOUS
    <3>1. row # NoRow /\ snap[c].message = row.message
      BY WriterKnows, NoRowAssumption DEF CopyOf
    <3>2. row = Fresh(NoMessage)
      BY <2>1, <3>1 DEF CopyInv, RowMade, CopiesInv, Clean
    <3>3. QED
      BY <3>1, <3>2 DEF Fresh
  <2>4. UNCHANGED shown
    <3>1. CASE ClearMessage(c)
      BY <2>3, <3>1 DEF ClearMessage, Writing, At
    <3>2. CASE ~ClearMessage(c)
      BY <1>3, <2>2, <3>2
      DEF CallStep, Fetch, Handle, InsertVote, VoteOrphaned, FindVote, ChangeVote, NoteSave,
          ResolveSave, ResolveSaveAgain, ResolveNoLog, PostLog, RemoveOld, PointToLog,
          ClearSave, TakeKey, Drop, Enqueue, Job, JobFetch, JobCountUp, JobCountDown, JobEdit,
          JobRefused, Abort, Crash, Resolved, InFlight
    <3>3. QED
      BY <3>1, <3>2
  <2>5. UNCHANGED <<votes, dirty>>
    BY <1>0, <1>3, <2>2
    DEF CallStep, Fetch, Handle, InsertVote, VoteOrphaned, FindVote, ChangeVote, NoteSave,
        ResolveSave, ResolveSaveAgain, ResolveNoLog, PostLog, RemoveOld, PointToLog, ClearMessage,
        ClearSave, TakeKey, Drop, Enqueue, Job, JobFetch, JobCountUp, JobCountDown, JobEdit,
        JobRefused, Abort, Crash, database, history
  <2>6. QED
    BY <2>1, <2>4, <2>5 DEF BirthInv
<1>4. QED
  BY <1>0, <1>1, <1>2, <1>3 DEF Next, CallStep, CreateAborts

(* A step of a call, not of its job, that changes nothing that is shown or *)
(* should be.                                                              *)
LEMMA ShownSame ==
  ASSUME TypeOK, ShownInv, NEW c \in Calls, CallStep(c), UNCHANGED <<row, votes, shown, dirty>>,
         UNCHANGED edits, ~InFlight(c), ~InFlight(c)', ~Moving(c)
  PROVE  ShownInv'
<1>0. UNCHANGED <<outrun, lagging>>
  BY DEF edits
<1>1. \A d \in Calls \ {c} : Moving(d)' = Moving(d) /\ ToBeEdited(d)' = ToBeEdited(d)
  BY <1>0, OthersSame DEF Moving, Replacing, ToBeEdited, InFlight
<1>2. \A d \in Calls : InFlight(d)' => d # c /\ InFlight(d) /\ snap'[d] = snap[d]
  BY OthersSame DEF InFlight
<1>3. UpToDate => UpToDate'
  BY <1>0, <1>2 DEF UpToDate, Shows
<1>4. \A d \in Calls : ToBeEdited(d) => ToBeEdited(d)'
  BY <1>1 DEF ToBeEdited
<1>5. QED
  BY <1>1, <1>3, <1>4 DEF ShownInv, Published

(* A job brings the row it holds to the message, and its votes.            *)
LEMMA ShownJob ==
  ASSUME TypeOK, JobsInv, ShownInv, NEW c \in Calls, Job(c), ~trouble'
  PROVE  ShownInv'
<1>0. /\ pc \in [Calls -> Stage] /\ snap \in [Calls -> Row \cup {NoRow}]
      /\ tally \in [Calls -> SUBSET Vote] /\ votes \subseteq Vote
      /\ shown \in [Messages -> Content \cup {NoMessage}]
      /\ CallStep(c)
  BY DEF TypeOK, CallsOK, CallStep
<1>1. \A d \in Calls \ {c} : /\ Moving(d)' = Moving(d) /\ InFlight(d)' = InFlight(d)
                             /\ pc'[d] = pc[d] /\ snap'[d] = snap[d] /\ tally'[d] = tally[d]
  BY <1>0, OthersSame DEF Moving, Replacing, InFlight
<1>2. CASE JobFetch(c)
  <2>1. pc'[c] = "running" /\ snap'[c] = row /\ UNCHANGED row
    BY <1>0, <1>2 DEF JobFetch, Goto, database, copies
  <2>2. c \notin outrun'
    BY <1>2 DEF JobFetch, Outrun, JobsInv, InFlight
  <2>3. ToBeEdited(c)'
    BY <2>1, <2>2 DEF ToBeEdited, InFlight
  <2>4. QED
    BY <2>3 DEF ShownInv
<1>3. CASE JobCountUp(c) \/ JobCountDown(c)
  <2>1. /\ InFlight(c) /\ InFlight(c)' /\ snap' = snap /\ ~Moving(c) /\ ~Moving(c)'
        /\ UNCHANGED <<row, votes, shown, dirty, outrun, lagging>>
    BY <1>0, <1>3 DEF JobCountUp, JobCountDown, InFlight, Moving, Replacing, Goto, database,
                      copies, history, jobs, edits
  <2>2. UpToDate => UpToDate'
    BY <1>1, <2>1 DEF UpToDate, Shows
  <2>3. ASSUME NEW d \in Calls, ToBeEdited(d)
        PROVE  ToBeEdited(d)'
    <3>1. CASE d # c
      BY <1>1, <2>1, <2>3, <3>1 DEF ToBeEdited
    <3>2. CASE d = c /\ JobCountUp(c)
      <4>1. pc'[c] = "counting" /\ tally'[c] = {v \in votes : v.type = "UpVote"}
        BY <1>0, <3>2 DEF JobCountUp, Goto
      <4>2. QED
        BY <2>1, <2>3, <3>2, <4>1 DEF ToBeEdited
    <3>3. CASE d = c /\ JobCountDown(c)
      <4>1. /\ pc[c] = "counting" /\ pc'[c] = "counted"
            /\ tally'[c] = tally[c] \cup {v \in votes : v.type = "DownVote"}
        BY <1>0, <3>3 DEF JobCountDown, Goto
      <4>2. votes = {v \in votes : v.type = "UpVote"} \cup {v \in votes : v.type = "DownVote"}
        BY <1>0 DEF Vote, VoteType
      <4>3. row.message = Original => tally'[c] = votes
        BY <2>3, <3>3, <4>1, <4>2 DEF ToBeEdited
      <4>4. QED
        BY <2>1, <2>3, <3>3, <4>1, <4>3 DEF ToBeEdited
    <3>4. QED
      BY <1>3, <3>1, <3>2, <3>3
  <2>4. QED
    BY <1>1, <2>1, <2>2, <2>3 DEF ShownInv, Published
<1>4. CASE JobEdit(c)
  <2> DEFINE m == snap[c].message
             edit == Render(snap[c], tally[c], op[c].kind = "resolve")
  <2>1. /\ InFlight(c) /\ ~InFlight(c)' /\ ~Moving(c) /\ pc[c] = "counted"
        /\ UNCHANGED <<row, votes, dirty>>
        /\ shown' = IF shown[m] = NoMessage THEN shown ELSE [shown EXCEPT ![m] = edit]
        /\ lagging' = IF c \in outrun THEN lagging \cup {m} ELSE lagging \ {m}
        /\ outrun' = outrun \ {c}
    BY <1>0, <1>4 DEF JobEdit, EndJob, InFlight, Moving, Replacing, Leave, Goto, database,
                      copies, history
  <2>2. \A d \in Calls : /\ InFlight(d)' => d # c /\ InFlight(d) /\ snap'[d] = snap[d]
                         /\ InFlight(d)' /\ d \notin outrun' => d \notin outrun
    BY <1>1, <2>1
  <2> SUFFICES ASSUME Published, ~dirty, \A d \in Calls : ~Moving(d)
               PROVE  UpToDate' \/ \E d \in Calls : ToBeEdited(d)'
    BY <1>1, <2>1 DEF ShownInv, Published
  <2>3. row.message \in Messages
    BY DEF Published, TypeOK, Row
  <2>4. CASE UpToDate
    <3>1. shown'[row.message] # NoMessage /\ row.message \notin lagging' => Shows(row.message)'
      <4>1. CASE m # row.message
        BY <2>1, <2>4, <4>1 DEF UpToDate, Shows
      <4>2. CASE m = row.message
        BY <2>1, <2>4, <4>2 DEF UpToDate
      <4>3. QED
        BY <4>1, <4>2
    <3>2. UpToDate'
      BY <2>1, <2>2, <2>4, <3>1 DEF UpToDate
    <3>3. QED
      BY <3>2
  <2>5. CASE ToBeEdited(c)
    <3>1. \A d \in Calls : InFlight(d)' => d \in outrun'
      BY <2>1, <2>2, <2>5 DEF ToBeEdited, JobsInv
    <3>2. CASE shown[m] = NoMessage
      BY <2>1, <2>5, <3>1, <3>2 DEF UpToDate, ToBeEdited
    <3>3. CASE shown[m] # NoMessage
      <4>1. shown'[row.message] = Render(row, tally[c], op[c].kind = "resolve")
        BY <1>0, <2>1, <2>3, <2>5, <3>3 DEF ToBeEdited
      <4>2. row.message = Original => tally[c] = votes
        BY <2>1, <2>5 DEF ToBeEdited
      <4>3. Shows(row.message)'
        BY <2>1, <4>1, <4>2 DEF Shows, Render
      <4>4. QED
        BY <2>1, <3>1, <4>3 DEF UpToDate
    <3>4. QED
      BY <3>2, <3>3
  <2>6. ASSUME NEW d \in Calls, d # c, ToBeEdited(d)
        PROVE  ToBeEdited(d)'
    BY <1>1, <2>1, <2>6 DEF ToBeEdited
  <2>7. QED
    BY <2>4, <2>5, <2>6 DEF ShownInv
<1>5. QED
  BY <1>2, <1>3, <1>4 DEF Job, JobRefused

(* A change that nothing edits afterwards is one of the log message.       *)
LEMMA ShownNext ==
  ASSUME TypeOK, CopyInv, ExactInv, FreshInv, Next, Clean, Clean'
  PROVE  ShownInv'
<1>0. /\ pc \in [Calls -> Stage] /\ op \in [Calls -> Op \cup {NoOp}]
      /\ snap \in [Calls -> Row \cup {NoRow}]
      /\ shown \in [Messages -> Content \cup {NoMessage}]
      /\ ~trouble'
  BY DEF TypeOK, CallsOK, Clean
<1> USE DEF FreshInv
<1>1. CASE Create
  <2> SUFFICES ASSUME Published', ~dirty', \A c \in Calls : ~Moving(c)'
               PROVE  UpToDate' \/ \E d \in Calls : ToBeEdited(d)'
    BY DEF ShownInv
  <2>0. /\ Fresh(NoMessage).message = NoMessage /\ Fresh(Original).message = Original
        /\ Fresh(Original) # NoRow
    BY FreshRow, NoRowAssumption DEF Fresh, Messages
  <2>1. PointToMessage \/ CommitDraft \/ CreateThread
    BY <1>1, <2>0 DEF Create, CreateRow, CreateRefused, PostMessage, ThreadRefused, WriteRow,
                      PostDraft, WithdrawDraft, Published, CopyInv, RowMade, CopiesInv, Clean,
                      database, copies
  <2>2. UNCHANGED <<votes, shown, pc, op, snap, tally, dirty, outrun, lagging>>
    BY <2>1 DEF PointToMessage, CommitDraft, CreateThread, calls, jobs, edits, history
  <2>3. CASE PointToMessage \/ CommitDraft
    <3>1. row' = Fresh(Original)
      BY <2>3, <2>0 DEF PointToMessage, CommitDraft, SaveRow, WriteRow, CopyInv, RowMade
    <3>2. shown'[Original] = Render(Fresh(NoMessage), {}, FALSE) /\ votes' = {}
      <4>1. made \in {"posted", "announced"} /\ ~dirty
        BY <2>2, <2>3 DEF PointToMessage, CommitDraft
      <4>2. votes = {} /\ shown[Original] = Render(Fresh(NoMessage), {}, FALSE)
        BY <4>1 DEF BirthInv
      <4>3. QED
        BY <2>2, <4>2
    <3>3. Shows(Original)'
      BY <3>1, <3>2 DEF Shows, Render, Fresh
    <3>4. \A d \in Calls : ~InFlight(d)'
      BY <2>2, <2>3 DEF PointToMessage, CommitDraft, JobsInv, InFlight
    <3>5. QED
      BY <2>0, <3>1, <3>3, <3>4 DEF UpToDate
  <2>4. CASE CreateThread
    <3>1. row' = row
      BY <2>4 DEF CreateThread, SaveRow, WriteRow, CopyInv, CopiesInv, Clean
    <3>2. QED
      BY <2>2, <3>1 DEF ShownInv, Published, Moving, Replacing, UpToDate, InFlight, Shows,
                        ToBeEdited
  <2>5. QED
    BY <2>1, <2>3, <2>4
<1>2. ASSUME NEW c \in Calls, Job(c)
      PROVE  ShownInv'
  BY <1>0, <1>2, ShownJob
<1>3. ASSUME NEW c \in Calls, \E o \in Op : Fetch(c, o)
      PROVE  ShownInv'
  <2>1. CallStep(c) /\ UNCHANGED <<row, votes, shown, dirty, edits>>
    BY <1>3 DEF CallStep, Fetch, database, copies, jobs, history
  <2>2. ~InFlight(c) /\ ~InFlight(c)' /\ ~Moving(c)
    BY <1>0, <1>3 DEF Fetch, InFlight, Moving, Replacing, Goto, Leave
  <2>3. QED
    BY <2>1, <2>2, ShownSame
<1>4. ASSUME NEW c \in Calls, Handle(c), dirty' \/ Moving(c)'
      PROVE  ShownInv'
  BY <1>4 DEF ShownInv
<1>5. ASSUME NEW c \in Calls, Handle(c), ~dirty', ~Moving(c)'
      PROVE  ShownInv'
  <2>1. \/ PointToLog(c) \/ ClearSave(c)
        \/ FindVote(c) \/ TakeKey(c) \/ Drop(c) \/ Enqueue(c)
    BY <1>0, <1>5 DEF Handle, InsertVote, VoteOrphaned, ChangeVote, NoteSave, ResolveSave,
                      ResolveSaveAgain, ResolveNoLog, PostLog, RemoveOld, ClearMessage,
                      Moving, Replacing, Goto, SameWork
  <2>2. CallStep(c)
    BY <1>5 DEF CallStep
  <2>3. CASE PointToLog(c)
    <3>1. Writing(c) /\ Saves(c) /\ pc[c] = "removed"
      BY <2>3 DEF PointToLog, Writing, Saves
    <3>2. row # NoRow
      BY <3>1, WriterKnows, NoRowAssumption
    <3>3. row'.state = snap[c].state /\ row'.note = snap[c].note /\ row'.message = c
      <4>1. ~ResolveSave(c) /\ ~ClearSave(c) /\ ~NoteSave(c)
        BY <2>3 DEF PointToLog, ResolveSave, ClearSave, NoteSave, At
      <4>2. QED
        BY <2>3, <3>1, <3>2, <4>1, SavedRow
    <3>4. shown' = shown /\ UNCHANGED edits
      BY <2>3 DEF PointToLog, jobs
    <3>5. Shows(c)'
      BY <3>1, <3>3, <3>4, ConstantsAssumption DEF Shows, LogInv
    <3>6. ASSUME NEW d \in Calls, InFlight(d)'
          PROVE  snap'[d].message # c
      <4>1. d # c
        BY <1>0, <2>3, <3>6 DEF PointToLog, Leave, Goto, InFlight
      <4>2. InFlight(d) /\ snap'[d] = snap[d]
        BY <2>2, <3>6, <4>1, OthersSame DEF InFlight
      <4>3. snap[d] # NoRow
        BY <4>2, NoRowAssumption DEF InFlight, TypeOK, CallsOK, Idle
      <4>4. QED
        BY <3>1, <4>2, <4>3 DEF CopyInv, NamesInv
    <3>7. UpToDate'
      BY <3>3, <3>5, <3>6 DEF UpToDate
    <3>8. QED
      BY <3>7 DEF ShownInv
  <2>4. CASE ClearSave(c)
    <3>1. Writing(c) /\ Saves(c) /\ pc[c] = "clearing" /\ ~PointToLog(c)
      BY <2>4 DEF ClearSave, Writing, Saves, PointToLog
    <3>2. row # NoRow
      BY <3>1, WriterKnows, NoRowAssumption
    <3>3. row'.message = NoMessage
      BY <3>1, <3>2, SavedRow DEF ExactInv, ClearingInv
    <3>4. QED
      BY <3>3 DEF ShownInv, Published
  <2>5. CASE FindVote(c) \/ TakeKey(c) \/ Drop(c) \/ Enqueue(c)
    <3>1. UNCHANGED <<row, votes, shown, dirty, edits>>
      BY <2>5 DEF FindVote, TakeKey, Drop, Enqueue, database, copies, jobs, history
    <3>2. ~InFlight(c) /\ ~InFlight(c)' /\ ~Moving(c)
      BY <1>0, <2>5 DEF FindVote, TakeKey, Drop, Enqueue, At, Goto, Leave, InFlight, Moving,
                        Replacing
    <3>3. QED
      BY <2>2, <3>1, <3>2, ShownSame
  <2>6. QED
    BY <2>1, <2>3, <2>4, <2>5
<1>6. CASE Expire
  BY <1>6 DEF Expire, ShownInv, Published, Moving, Replacing, UpToDate, InFlight, Shows,
              ToBeEdited, database, copies, calls, edits, history
<1>7. ~CreateAborts /\ \A c \in Calls : ~Abort(c) /\ ~Crash(c)
  BY <1>0 DEF CreateAborts, Abort, Crash
<1>8. QED
  BY <1>1, <1>2, <1>3, <1>4, <1>5, <1>6, <1>7 DEF Next

(* It holds as long as no call of Discord has failed and no handler has    *)
(* saved over another's row.                                               *)
DisplayInv == Clean => FreshInv

(* At first nothing is shown.                                              *)
LEMMA DisplayInit == Init => DisplayInv
  BY DEF Init, DisplayInv, FreshInv, JobsInv, LogInv, BirthInv, ShownInv, InFlight, Published

(* Each step of the bot that does not fail keeps the message on its way.   *)
LEMMA DisplayNext ==
  TypeOK /\ UnseenInv /\ CopyInv /\ MessagesInv /\ DisplayInv /\ [Next]_vars => DisplayInv'
<1> SUFFICES ASSUME TypeOK, UnseenInv, CopyInv, MessagesInv, DisplayInv, [Next]_vars, Clean'
             PROVE  FreshInv'
  BY DEF DisplayInv
<1>1. Clean /\ ExactInv /\ FreshInv
  BY CleanStays DEF MessagesInv, DisplayInv
<1>2. CASE Next
  BY <1>1, <1>2, JobsNext, LogNext, BirthNext, ShownNext DEF FreshInv
<1>3. CASE UNCHANGED vars
  BY <1>1, <1>3 DEF vars, database, copies, calls, jobs, edits, history, FreshInv, JobsInv, LogInv,
                    BirthInv, ShownInv, InFlight, Published, Moving, Replacing, UpToDate,
                    ToBeEdited, Shows
<1>4. QED
  BY <1>2, <1>3

(* When every handler and job is over and none failed, the message shows   *)
(* what the row says and every vote: a change that comes while a job is at *)
(* work gets a job of its own.  Handlers may overlap, unless one saves     *)
(* over a row that another is still to save, and so may jobs, unless the   *)
(* one with the older copy is the last to edit the message.                *)
THEOREM DisplaysAreTheRows == Spec => []DisplayMatchesRow
<1> DEFINE Inv == TypeOK /\ UnseenInv /\ CopyInv /\ MessagesInv /\ DisplayInv
<1>1. Init => Inv
  BY VotesInit, CopyInit, MessagesInit, DisplayInit DEF VotesInv
<1>2. Inv /\ [Next]_vars => Inv'
  BY TypeNext, UnseenNext, CopyNext, MessagesNext, DisplayNext
<1>3. Inv /\ Debounce!NoLostEdit => DisplayMatchesRow
  <2> SUFFICES ASSUME Inv, Debounce!NoLostEdit, Quiet, Clean, row # NoRow,
                      NEW m \in Messages \ lagging, row.message = m, shown[m] # NoMessage
               PROVE  Shows(m)
    BY DEF DisplayMatchesRow, Shows, Clean
  <2>1. FreshInv
    BY DEF DisplayInv
  <2>2. ~dirty
    <3>1. \A c \in Calls : DebouncedPc[c] \notin Debounce!Pending
      BY StageMap DEF Quiet, Idle, DebouncedPc, Debounce!Pending
    <3>2. QED
      BY <2>1, <3>1 DEF FreshInv, JobsInv, Debounce!NoLostEdit
  <2>3. \A c \in Calls : ~Moving(c) /\ ~InFlight(c)
    BY DEF Quiet, Moving, Replacing, InFlight, Idle
  <2>4. Published
    BY ConstantsAssumption DEF Published, Messages
  <2>5. UpToDate
    BY <2>1, <2>2, <2>3, <2>4 DEF FreshInv, ShownInv, ToBeEdited
  <2>6. QED
    BY <2>5 DEF UpToDate
<1>4. QED
  BY <1>1, <1>2, <1>3, ChangesAreNotLost, PTL DEF Spec
=============================================================================
