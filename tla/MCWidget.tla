------------------------------ MODULE MCWidget ------------------------------
(***************************************************************************)
(* A mixer with two inputs, a selector whose amplifier can only mute, a    *)
(* pin whose output amplifier takes an index and one whose does not.       *)
(***************************************************************************)
EXTENDS Widget

Steps(n, m) == [nsteps |-> n, mute |-> m]

Mixer ==
  [type |-> "mixer", conns |-> 2, caps |-> {"in"}, workaround |-> FALSE,
   amp |-> [in |-> Steps(2, TRUE), out |-> Steps(1, FALSE)]]

Selector ==
  [type |-> "selector", conns |-> 2, caps |-> {"out"}, workaround |-> FALSE,
   amp |-> [in |-> Steps(1, FALSE), out |-> Steps(0, TRUE)]]

PinComplex(w) ==
  [type |-> "pin", conns |-> 2, caps |-> {"in", "out"}, workaround |-> w,
   amp |-> [in |-> Steps(2, FALSE), out |-> Steps(1, TRUE)]]

MCNode == {Mixer, Selector, PinComplex(TRUE), PinComplex(FALSE)}
=============================================================================
