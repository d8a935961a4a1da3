------------------------- MODULE QueueModerationProofs -------------------------
(***************************************************************************)
(* What the transaction around a moderator's decision does achieve, for    *)
(* any number of moderators at once.                                       *)
(*                                                                         *)
(* None of the properties is inductive.  What a transaction commits is the *)
(* draft it wrote earlier, so DraftsOK says what is in a draft, and of the *)
(* copy it is written from, at each stage; PublicOK says what was sent and *)
(* is not committed yet; QueueOK follows the message in the queue channel  *)
(* through the copies that know of it.                                     *)
(***************************************************************************)
EXTENDS QueueModeration, TLAPS

(* The stages of a handler that has decided about the draft. *)
Deciding == {"resolved", "published", "removed", "answering", "replying"}

(* The stages in which the published suggestion is not linked to its draft *)
(* yet.                                                                    *)
Unlinked == {"read", "resolved", "published", "removed", "clearing"}

(* Suggestions a call may link the queued one to. *)
Linkable(c) == stored \cup {NoCall} \cup (created \cap {c})

(* What is in the draft, and in the copy it is written from, at each stage. *)
DraftsOK ==
  /\ filed = "new" => row = NoRow
  /\ \A c \in Calls : pc[c] \in Deciding =>
       /\ draft[c] \in Row
       /\ draft[c].state # "PENDING" /\ snap[c].state # "PENDING"
       /\ draft[c].link \in Linkable(c)
  /\ \A c \in Calls : Active(c) => snap[c].link \in Linkable(c)
  /\ \A c \in Calls : pc[c] \in Unlinked =>
       /\ snap[c].link \in stored \cup {NoCall}
       /\ pc[c] \in {"resolved", "published"} => draft[c].link \in stored \cup {NoCall}
       /\ pc[c] = "published" => c \in created
  /\ row # NoRow => row.link \in stored \cup {NoCall}

(* What was sent and is not committed yet, and what is public of it. *)
PublicOK ==
  /\ \A c \in created : pc[c] \in {"published", "answering", "replying"}
  /\ ~trouble => public = stored \cup created

(* The message in the queue channel, through the copies that know of it. *)
QueueOK ==
  ~trouble /\ ~early =>
    /\ filed = "new" \/ Filing => \A c \in Calls : ~Active(c)
    /\ filed \in {"new", "row"} => ~posted
    /\ posted /\ ~Filing => row # NoRow /\ row.message /\ row.state = "PENDING"
    /\ \A c \in Calls : Active(c) /\ posted =>
         snap[c].message /\ pc[c] \notin {"removed", "replying", "clearing"}

(* The two parts that every other proof below needs. *)
IInv == TypeOK /\ DraftsOK
-----------------------------------------------------------------------------
(* No draft is filed and nobody moderates at the start. *)
LEMMA Initially == Init => IInv /\ PublicOK /\ QueueOK
  BY ConstantsAssumption, NoRowAssumption
  DEF Init, IInv, TypeOK, DraftsOK, PublicOK, QueueOK, Active, Filing, FiledStage, Stage,
      Deciding, Unlinked

(* The step of a call moves that call alone. *)
LEMMA GotoOK ==
  ASSUME TypeOK, NEW c \in Calls, NEW stage \in Stage, Goto(c, stage)
  PROVE  /\ pc' \in [Calls -> Stage]
         /\ pc'[c] = stage
         /\ \A d \in Calls \ {c} : pc'[d] = pc[d]
  BY DEF TypeOK, Goto

(* Steps that do not concern a call. *)
LEMMA FilingStep ==
  ASSUME IInv, PublicOK, QueueOK, File \/ FileAborts
  PROVE  IInv' /\ PublicOK' /\ QueueOK'
<1> USE ConstantsAssumption, NoRowAssumption
<1>a. /\ Filed(TRUE) \in Row /\ Filed(FALSE) \in Row
      /\ \A b \in BOOLEAN : Filed(b).link = NoCall /\ Filed(b).state = "PENDING"
  BY DEF Filed, Row, State
<1>1. filed' \in FiledStage /\ posted' \in BOOLEAN /\ row' \in Row \cup {NoRow}
  BY <1>a DEF IInv, TypeOK, File, FileAborts, FileRow, FileStranded, FileRefused, FilePost,
              FileSave, FiledStage
<1>2. UNCHANGED <<lock, calls, suggestions, notice, refused, early>> /\ trouble' \in BOOLEAN
  BY DEF IInv, TypeOK, File, FileAborts, FileRow, FileStranded, FileRefused, FilePost,
         FileSave, history
<1>3. TypeOK'
  BY <1>1, <1>2 DEF IInv, TypeOK, calls, suggestions, Active
<1>4. filed' # "new" /\ (row' # NoRow => row'.link \in stored \cup {NoCall})
  BY <1>a DEF IInv, DraftsOK, File, FileAborts, FileRow, FileStranded, FileRefused, FilePost,
              FileSave, Filing
<1>5. DraftsOK'
  BY <1>2, <1>4 DEF IInv, DraftsOK, Linkable, Active, calls, suggestions
<1>6. PublicOK'
  <2>1. ~trouble' => ~trouble
    BY DEF IInv, TypeOK, File, FileAborts, FileRow, FileStranded, FileRefused, FilePost,
           FileSave, history
  <2>2. QED
    BY <1>2, <2>1 DEF PublicOK, calls, suggestions
<1>7. QueueOK'
  <2>1. CASE FileRow
    BY <2>1, <1>2 DEF FileRow, QueueOK, IInv, TypeOK, DraftsOK, Filing, Active, history,
                      calls, filing
  <2>2. CASE FilePost
    BY <2>2, <1>2 DEF FilePost, QueueOK, Filing, Active, history, calls
  <2>3. CASE FileSave
    <3>1. CASE filed = "row"
      BY <2>3, <3>1, <1>2 DEF FileSave, QueueOK, Filing, Active, history, calls, filing
    <3>2. CASE filed = "posted"
      <4>1. row' # NoRow /\ row'.message /\ row'.state = "PENDING"
        <5>1. row' = Filed(TRUE)
          BY <2>3, <3>2 DEF FileSave
        <5>2. Filed(TRUE).message
          BY DEF Filed
        <5>3. QED
          BY <5>1, <5>2, <1>a
      <4>2. QED
        BY <2>3, <3>2, <4>1, <1>2 DEF FileSave, QueueOK, Filing, Active, history, calls
    <3>3. QED
      BY <2>3, <3>1, <3>2 DEF FileSave
  <2>4. CASE FileStranded \/ FileRefused \/ FileAborts
    BY <2>4 DEF FileStranded, FileRefused, FileAborts, QueueOK
  <2>5. QED
    BY <2>1, <2>2, <2>3, <2>4 DEF File
<1>8. QED
  BY <1>3, <1>5, <1>6, <1>7 DEF IInv
-----------------------------------------------------------------------------
(* A row with one column set. *)
LEMMA RowEdit ==
  ASSUME NEW r \in Row
  PROVE  /\ \A s \in State : LET e == [r EXCEPT !.state = s]
                             IN e \in Row /\ e.state = s /\ e.link = r.link
         /\ \A d \in Calls : LET e == [r EXCEPT !.link = d]
                             IN e \in Row /\ e.state = r.state /\ e.link = d
         /\ LET e == [r EXCEPT !.message = FALSE]
            IN e \in Row /\ e.state = r.state /\ e.link = r.link
  BY DEF Row

(* The types are kept by every step of a handler. *)
LEMMA TypeCall ==
  ASSUME IInv, NEW c \in Calls,
         (\E o \in Op : Read(c, o)) \/ Handle(c) \/ Abort(c) \/ Notify(c)
  PROVE  TypeOK'
<1> USE ConstantsAssumption, NoRowAssumption DEF IInv
<1>0. Active(c) => snap[c] \in Row /\ op[c] \in Op
  BY DEF TypeOK
<1>1. ASSUME NEW o \in Op, Read(c, o)
      PROVE  TypeOK'
  BY <1>1 DEF Read, TypeOK, Goto, Active, Stage, filing, suggestions
<1>2. ASSUME NEW r \in Row, Write(c, r), op' = op, Goto(c, pc'[c]), Active(c),
             pc'[c] \in Stage \ {"idle"},
             UNCHANGED <<filing, row, created, suggestions, refused, early>>,
             notice' \in {notice, [notice EXCEPT ![c] = "queued"]}, trouble' = trouble
      PROVE  TypeOK'
  BY <1>0, <1>2 DEF Write, TypeOK, Goto, Active, Stage, filing, suggestions
<1>3. CASE Resolve(c)
  <2>1. PICK r \in Row : Write(c, r)
    BY <1>0, <1>3, RowEdit DEF Resolve, Active, State
  <2>2. QED
    BY <1>2, <1>3, <2>1 DEF Resolve, TypeOK, Goto, Active, Stage, history
<1>4. CASE Link(c)
  <2>1. PICK r \in Row : Write(c, r)
    BY <1>0, <1>4, RowEdit DEF Link, Active
  <2>2. QED
    BY <1>2, <1>4, <2>1 DEF Link, TypeOK, Goto, Active, Stage, history
<1>5. CASE RejectFinish(c)
  <2>1. PICK r \in Row : Write(c, r)
    BY <1>0, <1>5 DEF RejectFinish, Active
  <2>2. QED
    BY <1>2, <1>5, <2>1 DEF RejectFinish, TypeOK, Goto, Active, Stage, history
<1>6. CASE CreateRefused(c) \/ Publish(c) \/ ThreadRefused(c) \/ RejectUnlogged(c)
  BY <1>6 DEF CreateRefused, Publish, ThreadRefused, RejectUnlogged, At, TypeOK, Goto, Active,
              Stage, filing, suggestions, history
<1>7. ASSUME snap' \in {snap, [snap EXCEPT ![c].message = FALSE]}, op' = op,
             Goto(c, pc'[c]), Active(c), pc'[c] \in Stage,
             posted' \in BOOLEAN, trouble' \in BOOLEAN,
             UNCHANGED <<filed, row, lock, draft, created, suggestions, notice, refused, early>>
      PROVE  TypeOK'
  <2>1. snap' \in [Calls -> Row \cup {NoRow}]
        /\ \A d \in Calls : snap'[d] \in Row <=> snap[d] \in Row
    <3>1. CASE snap' = snap
      BY <3>1 DEF TypeOK
    <3>2. CASE snap' = [snap EXCEPT ![c] = [snap[c] EXCEPT !.message = FALSE]]
      BY <1>0, <1>7, <3>2, RowEdit DEF TypeOK
    <3>3. QED
      BY <1>7, <3>1, <3>2
  <2>2. pc' \in [Calls -> Stage] /\ \A d \in Calls : Active(d)' => Active(d)
    BY <1>7 DEF Goto, TypeOK, Active
  <2>3. QED
    BY <1>7, <2>1, <2>2 DEF TypeOK, suggestions
<1>8. CASE RejectDelete(c) \/ RemoveMessage(c) \/ ClearMessage(c)
  <2>1. /\ snap' \in {snap, [snap EXCEPT ![c].message = FALSE]}
        /\ UNCHANGED <<filed, op, row, lock, draft, created, suggestions, notice, refused, early>>
    BY <1>8 DEF RejectDelete, RemoveMessage, ClearMessage
  <2>2. posted' \in BOOLEAN /\ trouble' \in BOOLEAN
    BY <1>8 DEF RejectDelete, RemoveMessage, ClearMessage, TypeOK
  <2>3. Goto(c, pc'[c]) /\ Active(c) /\ pc'[c] \in Stage
    BY <1>8 DEF RejectDelete, RemoveMessage, ClearMessage, At, Goto, Active, Stage, TypeOK
  <2>4. QED
    BY <1>7, <2>1, <2>2, <2>3
<1>9. CASE Commit(c)
  <2>1. draft[c] \in Row
    BY <1>9 DEF Commit, DraftsOK, Deciding
  <2>2. QED
    BY <1>9, <2>1 DEF Commit, TypeOK, Goto, Active, Stage, filing, history
<1>10. CASE ClearSave(c)
  <2>1. [snap[c] EXCEPT !.state = "CLEARED"] \in Row
    BY <1>0, <1>10, RowEdit DEF ClearSave, Active, State
  <2>2. QED
    BY <1>10, <2>1 DEF ClearSave, TypeOK, Goto, Active, Stage, filing, suggestions, history
<1>11. CASE Abort(c)
  BY <1>11 DEF Abort, TypeOK, Goto, Active, Stage, filing, suggestions
<1>12. CASE Notify(c)
  BY <1>12 DEF Notify, TypeOK, Active, filing, suggestions, calls, history
<1>13. QED
  BY <1>1, <1>3, <1>4, <1>5, <1>6, <1>8, <1>9, <1>10, <1>11, <1>12 DEF Handle
-----------------------------------------------------------------------------
(* The steps of one handler; the other actions of Next are the users'. *)
CallStep(c) == (\E o \in Op : Read(c, o)) \/ Handle(c) \/ Abort(c) \/ Notify(c)

(* A call leaves what the others work on alone, and unlinks nothing. *)
LEMMA Frame ==
  ASSUME IInv, NEW c \in Calls, CallStep(c)
  PROVE  /\ filed' = filed /\ stored \subseteq stored'
         /\ \A d \in Calls \ {c} :
              /\ pc'[d] = pc[d] /\ snap'[d] = snap[d] /\ draft'[d] = draft[d]
              /\ Linkable(d) \subseteq Linkable(d)' /\ (d \in created => d \in created')
<1>1. filed' = filed /\ stored \subseteq stored'
  BY DEF CallStep, Handle, Read, Resolve, CreateRefused, Publish, ThreadRefused, Link,
         RejectDelete, RejectFinish, RejectUnlogged, RemoveMessage, Commit, ClearMessage,
         ClearSave, Abort, Notify, filing, suggestions
<1>2. ASSUME NEW d \in Calls \ {c}
      PROVE  pc'[d] = pc[d] /\ snap'[d] = snap[d]
  BY DEF CallStep, Handle, Read, Resolve, CreateRefused, Publish, ThreadRefused, Link,
         RejectDelete, RejectFinish, RejectUnlogged, RemoveMessage, Commit, ClearMessage,
         ClearSave, Abort, Notify, calls, Goto, Write, IInv, TypeOK
<1>3. ASSUME NEW d \in Calls \ {c}
      PROVE  draft'[d] = draft[d] /\ created' \cap {d} = created \cap {d}
  BY DEF CallStep, Handle, Read, Resolve, CreateRefused, Publish, ThreadRefused, Link,
         RejectDelete, RejectFinish, RejectUnlogged, RemoveMessage, Commit, ClearMessage,
         ClearSave, Abort, Notify, calls, Write, IInv, TypeOK
<1>4. QED
  BY <1>1, <1>2, <1>3 DEF Linkable

(* The same for the other parts. *)
LEMMA DraftsCall ==
  ASSUME IInv, NEW c \in Calls, CallStep(c)
  PROVE  DraftsOK'
<1> USE NoRowAssumption DEF IInv
<1> DEFINE
      Fine == /\ pc[c] \in Deciding =>
                   /\ draft[c] \in Row
                   /\ draft[c].state # "PENDING" /\ snap[c].state # "PENDING"
                   /\ draft[c].link \in Linkable(c)
              /\ Active(c) => snap[c].link \in Linkable(c)
              /\ pc[c] \in Unlinked =>
                   /\ snap[c].link \in stored \cup {NoCall}
                   /\ pc[c] \in {"resolved", "published"} =>
                        draft[c].link \in stored \cup {NoCall}
                   /\ pc[c] = "published" => c \in created
      RowFine == /\ filed = "new" => row = NoRow
                 /\ row # NoRow => row.link \in stored \cup {NoCall}
<1>0. Fine /\ RowFine
  BY DEF DraftsOK
<1>1. SUFFICES (Fine /\ RowFine)'
  BY <1>1, Frame DEF DraftsOK, Active
<1>2. Active(c) => snap[c] \in Row
  BY DEF TypeOK
<1>3. CASE UNCHANGED row /\ \E o \in Op : Read(c, o)
  BY <1>0, <1>3 DEF Read, Goto, TypeOK, Deciding, Unlinked, Active, Linkable, suggestions,
                    filing
<1>4. CASE Resolve(c)
  <2>1. PICK r \in Row : Write(c, r) /\ r.state # "PENDING" /\ r.link = snap[c].link
    BY <1>2, <1>4, RowEdit DEF Resolve, Active, State
  <2>2. pc[c] = "read" /\ Goto(c, "resolved") /\ UNCHANGED <<filed, row, created, stored>>
    BY <1>4 DEF Resolve, suggestions, filing
  <2>3. QED
    BY <1>0, <2>1, <2>2 DEF Write, Goto, TypeOK, Deciding, Unlinked, Active, Linkable
<1>5. CASE CreateRefused(c) \/ RejectUnlogged(c) \/ RemoveMessage(c)
  BY <1>0, <1>5
  DEF CreateRefused, RejectUnlogged, RemoveMessage, At, Goto, TypeOK, Deciding, Unlinked,
      Active, Linkable, suggestions, filing
<1>a. CASE Publish(c)
  BY <1>0, <1>a
  DEF Publish, At, Goto, TypeOK, Deciding, Unlinked, Active, Linkable, filing
<1>b. CASE ThreadRefused(c)
  BY <1>0, <1>b
  DEF ThreadRefused, Goto, TypeOK, Deciding, Unlinked, Active, Linkable, suggestions, filing
<1>6. CASE Link(c)
  <2>1. c \in created
    BY <1>6 DEF Link, DraftsOK, Unlinked
  <2>2. PICK r \in Row : Write(c, r) /\ r.state = snap[c].state /\ r.link = c
    <3>1. Write(c, [snap[c] EXCEPT !.link = c])
      BY <1>6 DEF Link
    <3>2. snap[c] \in Row
      BY <1>2, <1>6 DEF Link, Active
    <3>3. QED
      <4>1. LET r == [snap[c] EXCEPT !.link = c]
            IN r \in Row /\ r.state = snap[c].state /\ r.link = c
        BY <3>2, RowEdit
      <4>2. QED
        BY <3>1, <4>1 DEF Write
  <2>3. /\ pc[c] = "published" /\ Goto(c, "answering")
        /\ UNCHANGED <<filed, row, created, stored>>
    BY <1>6 DEF Link, suggestions, filing
  <2>4. QED
    BY <1>0, <2>1, <2>2, <2>3
    DEF Write, Goto, TypeOK, Deciding, Unlinked, Active, Linkable
<1>7. CASE RejectDelete(c) \/ ClearMessage(c)
  <2>1. snap'[c].link = snap[c].link /\ snap'[c].state = snap[c].state
    BY <1>2, <1>7, RowEdit DEF RejectDelete, ClearMessage, At, Active, TypeOK
  <2>2. QED
    BY <1>0, <1>7, <2>1
    DEF RejectDelete, ClearMessage, At, Goto, TypeOK, Deciding, Unlinked, Active, Linkable,
        suggestions
<1>8. CASE RejectFinish(c)
  BY <1>0, <1>2, <1>8
  DEF RejectFinish, Write, Goto, TypeOK, Deciding, Unlinked, Active, Linkable, suggestions,
      filing
<1>9. CASE Commit(c)
  BY <1>0, <1>9 DEF Commit, Goto, TypeOK, Deciding, Unlinked, Active, Linkable, filing
<1>10. CASE ClearSave(c)
  BY <1>0, <1>2, <1>10, RowEdit
  DEF ClearSave, Goto, TypeOK, Deciding, Unlinked, Active, Linkable, State, suggestions,
      filing
<1>11. CASE Abort(c)
  BY <1>0, <1>11 DEF Abort, Goto, TypeOK, Deciding, Unlinked, Active, Linkable, suggestions,
                     filing
<1>12. CASE Notify(c)
  BY <1>0, <1>12 DEF Notify, Active, Linkable, calls, suggestions, filing
<1>13. (\E o \in Op : Read(c, o)) => UNCHANGED row
  BY DEF Read
<1>14. QED
  BY <1>3, <1>4, <1>5, <1>a, <1>b, <1>6, <1>7, <1>8, <1>9, <1>10, <1>11, <1>12,
     <1>13 DEF CallStep, Handle
-----------------------------------------------------------------------------
LEMMA PublicCall ==
  ASSUME IInv, PublicOK, NEW c \in Calls, CallStep(c)
  PROVE  PublicOK'
<1> USE DEF IInv
<1>1. CASE \E o \in Op : Read(c, o)
  BY <1>1 DEF Read, PublicOK, Goto, TypeOK, suggestions
<1>a. CASE Notify(c)
  BY <1>a DEF Notify, PublicOK, suggestions, calls, history
<1>2. CASE Resolve(c) \/ CreateRefused(c) \/ Link(c) \/ RejectFinish(c) \/ RejectUnlogged(c)
  BY <1>2 DEF Resolve, CreateRefused, Link, RejectFinish, RejectUnlogged, At, PublicOK, Goto,
              TypeOK, suggestions, history
<1>3. CASE RejectDelete(c) \/ RemoveMessage(c) \/ ClearMessage(c) \/ ClearSave(c)
  BY <1>3 DEF RejectDelete, RemoveMessage, ClearMessage, ClearSave, At, PublicOK, Goto,
              TypeOK, suggestions, history
<1>4. CASE Publish(c) \/ ThreadRefused(c)
  BY <1>4 DEF Publish, ThreadRefused, At, PublicOK, Goto, TypeOK, suggestions, history
<1>5. CASE Commit(c)
  BY <1>5 DEF Commit, PublicOK, Goto, TypeOK, history
<1>6. CASE Abort(c)
  BY <1>6 DEF Abort, PublicOK, Goto, TypeOK, suggestions
<1>7. QED
  BY <1>1, <1>a, <1>2, <1>3, <1>4, <1>5, <1>6 DEF CallStep, Handle

LEMMA QueueCall ==
  ASSUME IInv, QueueOK, NEW c \in Calls, CallStep(c)
  PROVE  QueueOK'
<1> USE NoRowAssumption DEF IInv
<1> SUFFICES ASSUME ~trouble', ~early'
             PROVE  /\ filed' = "new" \/ Filing' => \A d \in Calls : ~Active(d)'
                    /\ filed' \in {"new", "row"} => ~posted'
                    /\ posted' /\ ~Filing' =>
                         row' # NoRow /\ row'.message /\ row'.state = "PENDING"
                    /\ \A d \in Calls : Active(d)' /\ posted' =>
                         snap'[d].message /\ pc'[d] \notin {"removed", "replying", "clearing"}
  BY DEF QueueOK
<1> USE DEF Filing, Active
<1>1. CASE \E o \in Op : Read(c, o)
  <2>1. ~trouble /\ ~early /\ filed # "new" /\ ~Filing /\ UNCHANGED <<filed, posted, row>>
    <3>1. early' = (early \/ Filing) /\ UNCHANGED <<filed, posted, row, trouble>>
      BY <1>1 DEF Read, filing
    <3>2. ~early /\ ~Filing
      BY <3>1, Zenon
    <3>3. QED
      BY <1>1, <3>1, <3>2 DEF Read
  <2>2. CASE row = NoRow
    BY <1>1, <2>1, <2>2 DEF Read, QueueOK, Goto, TypeOK
  <2>3. CASE row # NoRow
    BY <1>1, <2>1, <2>3 DEF Read, QueueOK, Goto, TypeOK
  <2>4. QED
    BY <2>2, <2>3
<1>2. CASE Resolve(c) \/ RejectFinish(c) \/ Link(c)
  <2>1. snap'[c].message = snap[c].message
    BY <1>2 DEF Resolve, RejectFinish, Link, Write, TypeOK, Row
  <2>2. QED
    BY <1>2, <2>1 DEF Resolve, RejectFinish, Link, Write, QueueOK, Goto, TypeOK, filing, history
<1>3. CASE CreateRefused(c) \/ Publish(c)
  BY <1>3 DEF CreateRefused, Publish, At, QueueOK, Goto, TypeOK, filing, history
<1>4. CASE ThreadRefused(c) \/ RejectUnlogged(c) \/ Abort(c)
  BY <1>4 DEF ThreadRefused, RejectUnlogged, Abort
<1>5. CASE RejectDelete(c) \/ ClearMessage(c)
  BY <1>5 DEF RejectDelete, ClearMessage, At, QueueOK, Goto, TypeOK
<1>6. CASE RemoveMessage(c)
  BY <1>6 DEF RemoveMessage, QueueOK, Goto, TypeOK
<1>7. CASE Commit(c) \/ ClearSave(c)
  BY <1>7 DEF Commit, ClearSave, QueueOK, Goto, TypeOK, filing, history
<1>8. CASE Notify(c)
  BY <1>8 DEF Notify, QueueOK, filing, calls, history
<1>9. QED
  BY <1>1, <1>2, <1>3, <1>4, <1>5, <1>6, <1>7, <1>8 DEF CallStep, Handle
-----------------------------------------------------------------------------
(* All the invariants together. *)
Safe == IInv /\ PublicOK /\ QueueOK

(* The step of the invariant, from the lemmas above. *)
LEMMA Step ==
  ASSUME Safe, [Next]_vars
  PROVE  Safe'
<1>1. ASSUME NEW c \in Calls, CallStep(c)
      PROVE  Safe'
  BY <1>1, TypeCall, DraftsCall, PublicCall, QueueCall DEF Safe, IInv, CallStep
<1>2. CASE File \/ FileAborts
  BY <1>2, FilingStep DEF Safe
<1>3. CASE UNCHANGED vars
  BY <1>3 DEF Safe, IInv, TypeOK, DraftsOK, PublicOK, QueueOK, Active, Linkable, Filing, vars,
              filing, calls, suggestions, history
<1>4. QED
  BY <1>1, <1>2, <1>3 DEF Next, CallStep

(* And the invariant of every behaviour. *)
LEMMA Safety == Spec => []Safe
<1>1. Init => Safe
  BY Initially DEF Safe
<1>2. QED
  BY <1>1, Step, PTL DEF Spec

(* Types of the variables of one queued suggestion's moderation; a call    *)
(* under way always has a row to work on.                                  *)
THEOREM TypeCorrect == Spec => []TypeOK
<1>1. Safe => TypeOK
  BY DEF Safe, IInv
<1>2. QED
  BY <1>1, Safety, PTL

(* However many moderators resolve it at once and whatever is rolled back, *)
(* related_suggestion names a committed suggestion.                        *)
THEOREM LinksStayStored == Spec => []LinkIsStored
<1>1. Safe => LinkIsStored
  BY DEF Safe, IInv, DraftsOK, LinkIsStored
<1>2. QED
  BY <1>1, Safety, PTL

(* What approving wrote to the suggestions channel is what it committed,   *)
(* where nothing failed: each call's row and message go together.          *)
THEOREM WhatIsPublicIsStored == Spec => []PublishedIsStored
<1>1. ASSUME Safe, Quiet, ~trouble
      PROVE  public = stored
  <2>1. created = {}
    BY <1>1 DEF Safe, IInv, TypeOK, PublicOK, Quiet, Active
  <2>2. QED
    BY <1>1, <2>1 DEF Safe, PublicOK
<1>2. QED
  <2>1. Safe => PublishedIsStored
    BY <1>1 DEF PublishedIsStored
  <2>2. QED
    BY <2>1, Safety, PTL

(* A suggestion resolved after it was filed has left the queue channel,    *)
(* where nothing failed, whoever deleted the message.                      *)
THEOREM ResolvedHaveLeft == Spec => []ResolvedLeavesQueue
<1>1. Safe => ResolvedLeavesQueue
  BY DEF Safe, QueueOK, ResolvedLeavesQueue, Resolved, Quiet
<1>2. QED
  BY <1>1, Safety, PTL

(* No later commit or save takes a resolved suggestion back to pending:    *)
(* every copy that is written holds a decision.                            *)
THEOREM ResolvedStaysResolved == Spec => ResolvedStays
<1> DEFINE Stays == Resolved /\ ~Filing /\ row' # NoRow => row'.state # "PENDING"
<1>1. ASSUME Safe, [Next]_vars
      PROVE  [Stays]_vars
  <2>1. CASE UNCHANGED row
    BY <2>1 DEF Resolved
  <2>2. ASSUME NEW c \in Calls, Commit(c)
        PROVE  Stays
    BY <1>1, <2>2 DEF Safe, IInv, DraftsOK, Deciding, Commit
  <2>3. ASSUME NEW c \in Calls, ClearSave(c)
        PROVE  Stays
    <3>1. snap[c] \in Row
      BY <1>1, <2>3 DEF Safe, IInv, TypeOK, ClearSave, Active
    <3>2. [snap[c] EXCEPT !.state = "CLEARED"].state = "CLEARED"
      BY <3>1, RowEdit DEF State
    <3>3. QED
      BY <2>3, <3>2 DEF ClearSave
  <2>4. CASE File \/ FileAborts
    <3>1. CASE FileRow
      BY <1>1, <3>1 DEF FileRow, Safe, IInv, DraftsOK, Resolved
    <3>2. CASE FileRefused \/ FileSave \/ FileStranded \/ FilePost \/ FileAborts
      BY <3>2 DEF FileRefused, FileSave, FileStranded, FilePost, FileAborts, Filing, Resolved
    <3>3. QED
      BY <2>4, <3>1, <3>2 DEF File
  <2>5. ASSUME NEW c \in Calls, CallStep(c)
        PROVE  UNCHANGED row \/ Commit(c) \/ ClearSave(c)
    BY <2>5
    DEF CallStep, Handle, Read, Resolve, CreateRefused, Publish, ThreadRefused, Link,
        RejectDelete, RejectFinish, RejectUnlogged, RemoveMessage, ClearMessage, Abort, Notify,
        filing
  <2>6. QED
    BY <1>1, <2>1, <2>2, <2>3, <2>4, <2>5 DEF Next, CallStep, vars
<1>2. QED
  BY <1>1, Safety, PTL DEF Spec, ResolvedStays
=============================================================================
