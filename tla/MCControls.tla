----------------------------- MODULE MCControls -----------------------------
(***************************************************************************)
(* A mixer control of two elements, two jacks of the same name, and a      *)
(* channel map of two added twice.  One rename takes a jack's name, the    *)
(* other a fresh one.                                                      *)
(***************************************************************************)
EXTENDS Controls

MCCtl == {"vol", "jack1", "jack2", "map1", "map2"}
MCJack == {"jack1", "jack2"}
MCChmap == {"map1", "map2"}
MCNameOf == [c \in MCCtl |-> CASE c \in MCJack -> "HP Jack"
                               [] c \in MCChmap -> "Playback Channel Map"
                               [] OTHER -> "Capture"]
MCCount == [c \in MCCtl |-> IF c \in {"vol", "map1"} THEN 2 ELSE 1]
=============================================================================
