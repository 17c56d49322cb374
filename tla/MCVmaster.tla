----------------------------- MODULE MCVmaster -----------------------------
(***************************************************************************)
(* A cached follower, an uncached one and one whose put fails, all mono,   *)
(* with three levels of volume.                                            *)
(***************************************************************************)
EXTENDS Vmaster

MCFollower == {"cached", "volatile", "broken"}

MCCount == [f \in MCFollower |-> 1]
=============================================================================
