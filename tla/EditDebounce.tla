---------------------------- MODULE EditDebounce ----------------------------
(***************************************************************************)
(* The debounced edit of a suggestion's Discord message.                   *)
(*                                                                         *)
(* A handler (a vote, a note, a resolution) saves what it changed in the   *)
(* database and then calls Suggestions.queue_message_edit().  That tries   *)
(* to SET a Redis key with NX and a 9 second expiry: a handler that finds  *)
(* the key returns at once, one that sets it enqueues a background job     *)
(* which runs 10 seconds later, fetches the suggestion and edits the       *)
(* message.  A handler and the job it may enqueue are one call here.       *)
(*                                                                         *)
(* What the content is does not matter to the mechanism: dirty says that   *)
(* it was changed since a job last fetched it.                             *)
(***************************************************************************)

CONSTANTS
  EditCalls,   (* the handler invocations that touch one suggestion    *)
  NoEditCall   (* no handler: the Redis key is absent                  *)

ASSUME NoCallAssumption == NoEditCall \notin EditCalls

VARIABLES
  edit_pc,  (* how far each call, and then its job, has come               *)
  key,      (* the call whose SET NX the key stems from, or NoEditCall     *)
  dirty,    (* a change was saved that no job has fetched                  *)
  orphaned  (* history: a crash since the last fetch may have cost an edit *)

editVars == <<edit_pc, key, dirty, orphaned>>

EditStage == {"ready", "saved", "keyed", "scheduled", "done", "crashed"}

(* A call that will still bring about a fetch, or that finds a key. *)
Pending == {"saved", "keyed", "scheduled"}

EditTypeOK ==
  /\ edit_pc \in [EditCalls -> EditStage]
  /\ key \in EditCalls \cup {NoEditCall}
  /\ dirty \in BOOLEAN
  /\ orphaned \in BOOLEAN
  \* Only a call that has saved its change sets the key, and then goes on.
  /\ key # NoEditCall => edit_pc[key] \notin {"ready", "saved"}

EditInit ==
  /\ edit_pc = [c \in EditCalls |-> "ready"]
  /\ key = NoEditCall
  /\ dirty = FALSE
  /\ orphaned = FALSE

(* A handler commits its change.  Resolving saves the row a second time    *)
(* before it asks for the edit, hence also from "saved".                   *)
Save(c) ==
  /\ edit_pc[c] \in {"ready", "saved"}
  /\ edit_pc' = [edit_pc EXCEPT ![c] = "saved"]
  /\ dirty' = TRUE
  /\ UNCHANGED <<key, orphaned>>

(* MUTANT of TakeKey: the key is taken first and the change saved then. *)
TakeKeyFirst(c) ==
  /\ edit_pc[c] = "ready"
  /\ key = NoEditCall
  /\ key' = c
  /\ UNCHANGED <<edit_pc, dirty, orphaned>>

(* SET NX succeeds. *)
TakeKey(c) ==
  /\ edit_pc[c] = "saved"
  /\ key = NoEditCall
  /\ key' = c
  /\ edit_pc' = [edit_pc EXCEPT ![c] = "keyed"]
  /\ UNCHANGED <<dirty, orphaned>>

(* MUTANT of Drop: SET without looking at who set the key, a call that     *)
(* finds no key gives up as well.                                          *)
DropAlways(c) ==
  /\ edit_pc[c] = "saved"
  /\ edit_pc' = [edit_pc EXCEPT ![c] = "done"]
  /\ UNCHANGED <<key, dirty, orphaned>>

(* SET NX finds the key: "There is already a queued edit". *)
Drop(c) ==
  /\ edit_pc[c] = "saved"
  /\ key # NoEditCall
  /\ edit_pc' = [edit_pc EXCEPT ![c] = "done"]
  /\ UNCHANGED <<key, dirty, orphaned>>

(* A second await: the job is stored in Redis, scheduled 10 seconds ahead. *)
Enqueue(c) ==
  /\ edit_pc[c] = "keyed"
  /\ edit_pc' = [edit_pc EXCEPT ![c] = "scheduled"]
  /\ UNCHANGED <<key, dirty, orphaned>>

(* MUTANT of Expire: the key is set without an expiry. *)
ExpireNever == FALSE /\ UNCHANGED editVars

(* The key lapses 9 seconds after it was set, whatever became of its call. *)
Expire ==
  /\ key # NoEditCall
  /\ key' = NoEditCall
  /\ UNCHANGED <<edit_pc, dirty, orphaned>>

(* MUTANT of Fetch: the job is due before the key it was debounced by has  *)
(* lapsed (the expiry raised to 10 seconds or more).                       *)
FetchBeforeExpiry(c) ==
  /\ edit_pc[c] = "scheduled"
  /\ edit_pc' = [edit_pc EXCEPT ![c] = "done"]
  /\ dirty' = FALSE
  /\ orphaned' = (key # NoEditCall /\ edit_pc[key] = "crashed")
  /\ UNCHANGED key

(* A worker runs the job.  It is due 10 seconds after an enqueue that came *)
(* after the SET, and the key lives 9: its own key is gone by then.        *)
Fetch(c) ==
  /\ edit_pc[c] = "scheduled"
  /\ key # c
  /\ edit_pc' = [edit_pc EXCEPT ![c] = "done"]
  /\ dirty' = FALSE
  /\ orphaned' = (key # NoEditCall /\ edit_pc[key] = "crashed")
  /\ UNCHANGED key

(* The process dies, or an await raises: the handler between its save and  *)
(* the end of queue_suggestion_edit, or the worker as it starts the job    *)
(* (jobs are not retried).                                                 *)
Crash(c) ==
  /\ \/ edit_pc[c] \in {"saved", "keyed"}
     \/ edit_pc[c] = "scheduled" /\ key # c
  /\ edit_pc' = [edit_pc EXCEPT ![c] = "crashed"]
  /\ orphaned' = TRUE
  /\ UNCHANGED <<key, dirty>>

EditNext ==
  \/ \E c \in EditCalls :
       \/ Save(c) \/ TakeKey(c) \/ Drop(c)
       \/ Enqueue(c) \/ Fetch(c) \/ Crash(c)
  \/ Expire

(* The event loop resumes a handler whose await has returned, Redis expires *)
(* keys, and the worker polls for due jobs.  Whether a user acts at all     *)
(* (Save) and whether a process dies (Crash) is nobody's promise.           *)
EditFairness ==
  /\ \A c \in EditCalls : WF_editVars(TakeKey(c) \/ Drop(c))
  /\ \A c \in EditCalls : WF_editVars(Enqueue(c))
  /\ \A c \in EditCalls : WF_editVars(Fetch(c))
  /\ WF_editVars(Expire)

EditSpec == EditInit /\ [][EditNext]_editVars

EditFairSpec == EditSpec /\ EditFairness
-----------------------------------------------------------------------------
(* While the key is there, the call that set it has a job that is yet to   *)
(* fetch the suggestion (queue_suggestion_edit's reason to drop a request),*)
(* unless a crash took that job away.                                      *)
KeyIsCovered ==
  key # NoEditCall =>
    \/ edit_pc[key] \in {"keyed", "scheduled"}
    \/ edit_pc[key] = "crashed" /\ orphaned

(* A saved change that no job has fetched will still be fetched: some call *)
(* is on its way to a job, unless a crash may have cost that edit.         *)
NoLostEdit ==
  dirty => orphaned \/ \E c \in EditCalls : edit_pc[c] \in Pending

(* A request is dropped only when there already is a queued edit that will *)
(* see its change: the debounce never swallows the last change of a burst. *)
DropIsCovered ==
  [][\A c \in EditCalls :
       edit_pc[c] = "saved" /\ edit_pc'[c] = "done" =>
         \/ orphaned
         \/ \E d \in EditCalls \ {c} : edit_pc[d] \in {"keyed", "scheduled"}]_editVars

(* Every change is fetched by a job in the end, short of a crash. *)
ChangeIsFetched == dirty ~> (~dirty \/ orphaned)
=============================================================================
