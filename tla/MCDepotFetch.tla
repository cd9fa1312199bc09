---------------------------- MODULE MCDepotFetch ----------------------------
(* One destination and one URL, whose server honours ranges or not from one *)
(* request to the next.  Both versions have two blocks, so that a part file *)
(* can hold one of each.                                                    *)
EXTENDS DepotFetch
MCSize == [v \in Version |-> 2]
=============================================================================
