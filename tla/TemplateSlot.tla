---------------------------- MODULE TemplateSlot ----------------------------
(***************************************************************************)
(* What the controller promises its clients ("One controller manages       *)
(* exactly ONE template"): a single slot, empty or holding a template      *)
(* name, that one request at a time may fill or empty, and that a request  *)
(* for another name is not let near while it is full.                      *)
(***************************************************************************)
CONSTANTS Names, None

VARIABLES
  slot,    \* the name materialised, or None
  holder   \* the name that the request in progress works on, or None

Init == slot = None /\ holder = None

\* A request for n is accepted.
Accept(n) ==
  /\ holder = None
  /\ slot \in {None, n}
  /\ holder' = n
  /\ UNCHANGED slot

\* The request comes to its end, is given up or is lost with its process.
Release == holder # None /\ holder' = None /\ UNCHANGED slot

\* It fills the slot, or empties it, and may end with that.
Fill  == holder # None /\ slot = None /\ slot' = holder /\ holder' \in {holder, None}
Empty == holder # None /\ slot = holder /\ slot' = None /\ holder' \in {holder, None}

Next == (\E n \in Names : Accept(n)) \/ Release \/ Fill \/ Empty

Spec == Init /\ [][Next]_<<slot, holder>>

=============================================================================
