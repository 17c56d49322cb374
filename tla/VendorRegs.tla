----------------------------- MODULE VendorRegs -----------------------------
(***************************************************************************)
(* What the vendor-specific verbs of a codec promise its driver: registers *)
(* of three bytes, one bank for the whole codec whatever widget a command  *)
(* names.  A set verb replaces one byte, a get verb responds with all of   *)
(* them, and no other command changes any.                                 *)
(***************************************************************************)
EXTENDS Naturals

CONSTANTS
  Reg,   \* the registers
  Byte   \* what a byte of them may hold, 0 included

VARIABLES
  regs,  \* regs[r][k]: byte k of r
  req,   \* the last request
  out    \* the response to it

Place == 0 .. 2

Init ==
  /\ regs = [r \in Reg |-> [k \in Place |-> 0]]
  /\ req = [op |-> "none"]
  /\ out = 0

Get(r) ==
  /\ req' = [op |-> "get", reg |-> r]
  /\ out' = regs[r][0] + 256 * regs[r][1] + 65536 * regs[r][2]
  /\ UNCHANGED regs

Set(r, k, b) ==
  /\ req' = [op |-> "set", reg |-> r, place |-> k, byte |-> b]
  /\ out' = 0
  /\ regs' = [regs EXCEPT ![r][k] = b]

(* A standard verb, or a command that fails or is swallowed. *)
Other ==
  /\ req' = [op |-> "none"]
  /\ out' \in Nat
  /\ UNCHANGED regs

Next ==
  \/ \E r \in Reg : Get(r)
  \/ \E r \in Reg, k \in Place, b \in Byte : Set(r, k, b)
  \/ Other

Spec == Init /\ [][Next]_<<regs, req, out>>
=============================================================================
