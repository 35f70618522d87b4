-------------------------- MODULE PipelineElement --------------------------
(***************************************************************************)
(* The unit of work that travels through the four pipes of the server,     *)
(* c_server_pipeline_element: a client descriptor, an ownership lock, the   *)
(* request and response text, and nine flags.  The eight stage flags are   *)
(* two sets of stages, "done" (the _is_*_completed flags) and "failed"     *)
(* (the _is_*_failed flags); both only ever grow.  "conn" is a history      *)
(* field: the connection the descriptor stood for when the element was     *)
(* created.  This module has no state: its operators are applied to the    *)
(* elements by ServerPipeline.                                              *)
(***************************************************************************)
EXTENDS Naturals

(* The stages, named after the pipe an element waits in for each of them.  *)
Stage == {"request", "datamodel", "response", "completed"}

(* An ostringstream nothing was written to.                                *)
NoText == <<>>

(* A freshly constructed element.                                          *)
NewElement(fd, conn, unowned) ==
  [fd |-> fd, conn |-> conn, locked |-> FALSE, owner |-> unowned,
   closeRequired |-> FALSE, done |-> {}, failed |-> {},
   request |-> NoText, response |-> NoText]

(* Mutant: the completed predicate tests the failure flags like the others. *)
FailuresSkippedByAll ==
  [request   |-> {"request"},
   datamodel |-> {"request", "datamodel"},
   response  |-> {"request", "datamodel", "response"},
   completed |-> {"request", "datamodel", "response"}]

(* The stages whose failure makes a stage pass over an element: its own    *)
(* and those before it, but nothing for the completed pipe.                *)
FailuresSkippedBy ==
  [request   |-> {"request"},
   datamodel |-> {"request", "datamodel"},
   response  |-> {"request", "datamodel", "response"},
   completed |-> {}]

(* is_{request,datamodel,response,completed}_completed_predicate: both the *)
(* skip predicate of a scan and the remove predicate of maintenance.       *)
Processed(stage, element) ==
  \/ stage \in element.done
  \/ element.failed \cap FailuresSkippedBy[stage] # {}

(* Mutant: the owner is stored, the exchange of the lock flag is lost.     *)
OwnedBy(element, id) == [element EXCEPT !.owner = id]

(* lock_with_owner_lockable on an unlocked element, and unlock.            *)
LockedBy(element, id) == [element EXCEPT !.locked = TRUE, !.owner = id]

Unlocked(element, unowned) ==
  [element EXCEPT !.locked = FALSE, !.owner = unowned]

(* mark_as_*_completed, mark_as_*_failed, mark_as_close_connection_required *)
MarkDone(element, stages) == [element EXCEPT !.done = @ \cup stages]

MarkFailed(element, stages) == [element EXCEPT !.failed = @ \cup stages]

(* Mutant: the flag is not set.                                            *)
CloseUnmarked(element) == element

MarkCloseRequired(element) == [element EXCEPT !.closeRequired = TRUE]
=============================================================================
