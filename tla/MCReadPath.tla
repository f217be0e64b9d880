----------------------------- MODULE MCReadPath -----------------------------
(***************************************************************************)
(* The read path with a ring of four cells.  Protocol version 0 with       *)
(* bodies of up to two cells fits it; version 1 with two cells needs the   *)
(* ring to grow to eight.                                                  *)
(***************************************************************************)
EXTENDS ReadPath

MCConfigs ==
    {[maxData |-> 2, maxMsgId |-> 3, version |-> 0, dropBad |-> TRUE],
     [maxData |-> 2, maxMsgId |-> 3, version |-> 1, dropBad |-> FALSE]}

MCBlank == [frame |-> 0, at |-> 0, val |-> 0]
=============================================================================
