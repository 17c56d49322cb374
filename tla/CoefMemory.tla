----------------------------- MODULE CoefMemory -----------------------------
(***************************************************************************)
(* What the processing coefficients of a widget promise the driver: a      *)
(* memory of 16-bit registers behind an index that each access moves on.   *)
(* A write past the last index lands in the register its low bits name; a  *)
(* read there finds nothing.  A write differs from a read by its request.  *)
(***************************************************************************)
EXTENDS Naturals

CONSTANTS
  IdxSpace,  \* the number of indices, 2^16 in the program
  Value      \* what a coefficient may hold

VARIABLES
  mem,  \* the coefficients
  idx,  \* the index register
  out,  \* the last response
  req   \* the last request: its verb and parameter

Init == mem = [i \in 0 .. IdxSpace - 1 |-> 0] /\ idx = 0 /\ out = 0
        /\ req = <<"get_index", 0>>

SetIndex(i) == req' = <<"set_index", i>> /\ idx' = i /\ out' = 0 /\ UNCHANGED mem

GetIndex == req' = <<"get_index", 0>> /\ out' = idx /\ UNCHANGED <<mem, idx>>

Write(v) ==
  /\ req' = <<"set", v>>
  /\ mem' = [mem EXCEPT ![idx % IdxSpace] = v]
  /\ idx' = idx + 1
  /\ out' = 0

Read ==
  /\ req' = <<"get", 0>>
  /\ out' = IF idx < IdxSpace THEN mem[idx] ELSE 0
  /\ idx' = idx + 1
  /\ UNCHANGED mem

(* The static coefficients of a proc file are loaded past the index. *)
Load(i, v) ==
  /\ req' = <<"load", v>>
  /\ mem' = [mem EXCEPT ![i] = v]
  /\ UNCHANGED <<idx, out>>

Next ==
  \/ \E i \in 0 .. IdxSpace - 1 : SetIndex(i)
  \/ GetIndex
  \/ \E v \in Value : Write(v)
  \/ Read
  \/ \E i \in 0 .. IdxSpace - 1, v \in Value : Load(i, v)

Spec == Init /\ [][Next]_<<mem, idx, out, req>>
=============================================================================
