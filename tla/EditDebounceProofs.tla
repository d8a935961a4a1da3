------------------------- MODULE EditDebounceProofs -------------------------
(***************************************************************************)
(* The debounce loses no edit, for any number of overlapping handlers.     *)
(*                                                                         *)
(* NoLostEdit alone is not inductive: a dropped request leaves its change  *)
(* to the call that set the key, and nothing in NoLostEdit says that this  *)
(* call still has its fetch ahead of it.  KeyIsCovered says it, and it is  *)
(* kept because no job starts while its own key is there.                  *)
(***************************************************************************)
EXTENDS EditDebounce, TLAPS

(* The three invariants are inductive together and not apart: that no edit *)
(* is lost is kept by a job's read only because the key covers the mark.   *)
EditInv == EditTypeOK /\ KeyIsCovered /\ NoLostEdit

(* Nothing is marked and no job runs at the start. *)
LEMMA EditInitially == EditInit => EditInv
  BY NoCallAssumption
  DEF EditInit, EditInv, EditTypeOK, KeyIsCovered, NoLostEdit, EditStage

(* Each step of a handler, of its job and of Redis keeps the invariant. *)
LEMMA EditStepKeeps == EditInv /\ [EditNext]_editVars => EditInv'
<1> SUFFICES ASSUME EditInv, [EditNext]_editVars
             PROVE  EditInv'
  OBVIOUS
<1> USE NoCallAssumption DEF EditInv, EditTypeOK, KeyIsCovered, NoLostEdit, EditStage, Pending
<1>1. ASSUME NEW c \in EditCalls, Save(c)
      PROVE  EditInv'
  <2>1. key # c
    BY <1>1 DEF Save
  <2>2. edit_pc'[c] = "saved"
    BY <1>1 DEF Save
  <2>3. QED
    BY <1>1, <2>1, <2>2 DEF Save
<1>2. ASSUME NEW c \in EditCalls, TakeKey(c)
      PROVE  EditInv'
  BY <1>2 DEF TakeKey
<1>3. ASSUME NEW c \in EditCalls, Drop(c)
      PROVE  EditInv'
  \* The call that set the key is another one, and stands in for this one.
  <2>1. key \in EditCalls \ {c}
    BY <1>3 DEF Drop
  <2>2. KeyIsCovered'
    BY <1>3, <2>1 DEF Drop
  <2>3. NoLostEdit'
    BY <1>3, <2>1, <2>2 DEF Drop
  <2>4. QED
    BY <1>3, <2>2, <2>3 DEF Drop
<1>4. ASSUME NEW c \in EditCalls, Enqueue(c)
      PROVE  EditInv'
  BY <1>4 DEF Enqueue
<1>5. ASSUME NEW c \in EditCalls, Fetch(c)
      PROVE  EditInv'
  BY <1>5 DEF Fetch
<1>6. ASSUME NEW c \in EditCalls, Crash(c)
      PROVE  EditInv'
  BY <1>6 DEF Crash
<1>7. CASE Expire
  BY <1>7 DEF Expire
<1>8. CASE UNCHANGED editVars
  BY <1>8 DEF editVars
<1>9. QED
  BY <1>1, <1>2, <1>3, <1>4, <1>5, <1>6, <1>7, <1>8 DEF EditNext

(* The inductive invariant holds in every reachable state. *)
THEOREM EditInvariance == EditSpec => []EditInv
<1>1. EditInit => EditInv
  BY EditInitially
<1>2. EditInv /\ [EditNext]_editVars => EditInv'
  BY EditStepKeeps
<1>3. QED
  BY <1>1, <1>2, PTL DEF EditSpec

(* The variables of the debounce keep their types. *)
THEOREM EditTypeCorrect == EditSpec => []EditTypeOK
<1>1. EditInv => EditTypeOK
  BY DEF EditInv
<1>2. QED
  BY <1>1, EditInvariance, PTL

(* A saved change that no job has fetched has a call on its way to a job,  *)
(* unless a crash may have cost that edit (queue_suggestion_edit).         *)
THEOREM EditsAreNotLost == EditSpec => []NoLostEdit
<1>1. EditInv => NoLostEdit
  BY DEF EditInv
<1>2. QED
  BY <1>1, EditInvariance, PTL

(* While the Redis key is there, its job is yet to fetch the suggestion.   *)
THEOREM KeysAreCovered == EditSpec => []KeyIsCovered
<1>1. EditInv => KeyIsCovered
  BY DEF EditInv
<1>2. QED
  BY <1>1, EditInvariance, PTL

(* A request to edit the message is dropped only in favour of a queued     *)
(* edit that will see its change ("There is already a queued edit").       *)
THEOREM DropsAreCovered == EditSpec => DropIsCovered
<1> DEFINE Covered ==
      \A c \in EditCalls :
        edit_pc[c] = "saved" /\ edit_pc'[c] = "done" =>
          \/ orphaned
          \/ \E d \in EditCalls \ {c} : edit_pc[d] \in {"keyed", "scheduled"}
<1>1. EditInv /\ [EditNext]_editVars => [Covered]_editVars
  <2> SUFFICES ASSUME EditInv, EditNext, NEW c \in EditCalls,
                      edit_pc[c] = "saved", edit_pc'[c] = "done"
               PROVE  orphaned \/ \E d \in EditCalls \ {c} : edit_pc[d] \in {"keyed", "scheduled"}
    OBVIOUS
  <2> USE DEF EditInv, EditTypeOK, EditStage
  <2>1. Drop(c)
    BY DEF EditNext, Save, TakeKey, Drop, Enqueue, Fetch, Crash, Expire
  <2>2. key \in EditCalls \ {c}
    BY <2>1 DEF Drop, KeyIsCovered
  <2>3. QED
    BY <2>1, <2>2 DEF Drop, KeyIsCovered
<1>2. QED
  BY <1>1, EditInvariance, PTL DEF EditSpec, DropIsCovered
=============================================================================
