--------------------------- MODULE ControllerSlot ---------------------------
(* The refinement of TemplateSlot by Controller.                             *)
EXTENDS Controller

ASSUME SlotAssumption == None \notin Names

\* The slot holds the name that list_managed finds.
ManagedName == IF Managed = {} THEN None ELSE CHOOSE n \in Managed : TRUE

\* The holder of _write_lock stands for the name it works on.
LockedName == IF writeLock = None THEN None ELSE target[writeLock]

Slot == INSTANCE TemplateSlot WITH slot <- ManagedName, holder <- LockedName

\* The writers, the runner threads, their failures and a restart, call by call,
\* do to the ConfigMaps what one slot allows: a name comes to be managed and
\* ceases to be in the hands of a request for it only, as long as list_managed
\* gets its answer.
ImplementsSlot == Slot!Spec

=============================================================================
