------------------------------ MODULE MdioBus ------------------------------
(***************************************************************************)
(* What the MDIO core driver promises its caller: calls follow each other, *)
(* each puts at most one frame on the bus, never after it has returned;    *)
(* success means that the frame was completed, and a successful read       *)
(* brings the answer to its own frame.  A frame is known by its number,    *)
(* and so is the answer to it.                                             *)
(***************************************************************************)
EXTENDS Integers

CONSTANT Cells      \* <<PHY, register>> pairs

VARIABLES
    request,        \* the call in progress
    completed,      \* frames it has completed on the bus
    outcome         \* what the last call returned

busVars == <<request, completed, outcome>>

NoRequest == [op |-> "none"]
NoOutcome == [status |-> "none", value |-> 0]
Failed == [status |-> "error", value |-> 0]
Success(r) == [status |-> "ok", value |-> IF r.op = "read" THEN r.frame ELSE 0]
Requests == [op : {"read", "write"}, cell : Cells, frame : Nat \ {0}]

Init ==
    /\ request = NoRequest
    /\ completed = 0
    /\ outcome = NoOutcome

Request ==
    /\ request = NoRequest
    /\ request' \in Requests
    /\ completed' = 0
    /\ UNCHANGED outcome

Complete ==
    /\ request # NoRequest
    /\ completed = 0
    /\ completed' = 1
    /\ UNCHANGED <<request, outcome>>

Return ==
    /\ request # NoRequest
    /\ outcome' = Failed \/ (completed = 1 /\ outcome' = Success(request))
    /\ request' = NoRequest
    /\ completed' = 0

Next == Request \/ Complete \/ Return

Spec == Init /\ [][Next]_busVars
=============================================================================
