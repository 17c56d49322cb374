------------------------------- MODULE MCJack -------------------------------
(***************************************************************************)
(* Two jacks of a codec whose responses have room for half the tags.       *)
(***************************************************************************)
EXTENDS Jack

MCPin == {"hp", "mic"}
MCTagOf == [w \in Pin |-> CASE w = "hp" -> 1 [] w = "mic" -> 2]
=============================================================================
