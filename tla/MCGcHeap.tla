------------------------------ MODULE MCGcHeap ------------------------------
(* Small instances of GcHeap: which collections the client of a run asks for. *)
EXTENDS GcHeap

AllAndOne == {AllOwners, 1}
EveryScope == Owners \cup {AllOwners}
=============================================================================
