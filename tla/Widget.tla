------------------------------- MODULE Widget -------------------------------
(***************************************************************************)
(* The amplifiers, the connection selection and the pin control of one     *)
(* emulated widget, changed by verbs of the kernel driver or of the shell  *)
(* (hda-int.c) and by the pm command's -r and -i options (hda-emu.c).      *)
(* The 8-bit gain-and-mute values keep their width: a bad clamp wraps.     *)
(***************************************************************************)
EXTENDS Integers

CONSTANTS
  Node,   \* the widgets to check: type, conns, caps, workaround and amp
          \* capabilities [in, out : [nsteps, mute]] of each
  Ch,     \* the channels, left and right
  SetIdx, \* amp indices a set verb names; the field has four bits
  GetIdx, \* amp indices a get verb names; the field has five bits
  Gain,   \* gains a set verb names; the field has seven bits
  Sel,    \* connections a select verb names
  PinCtl  \* pin controls

Dir == {"in", "out"}

(* The entries of the two amp_vals arrays that indices can name. *)
Slot == SetIdx \cup GetIdx

(* The widths of the fields of the verbs and of the amplifier capability   *)
(* parameter, whose number of steps has seven bits.                        *)
ASSUME FieldAssumption ==
  SetIdx \subseteq 0 .. 15 /\ GetIdx \subseteq 0 .. 31 /\ 0 \in Slot /\ Gain \subseteq 0 .. 127 /\ Sel \subseteq Nat

ASSUME NodeAssumption ==
  \A n \in Node : n.conns \in Nat /\ n.amp \in [Dir -> [nsteps : 0 .. 127, mute : BOOLEAN]]

VARIABLES
  node,       \* the widget, chosen once
  amp,        \* amp[dir][idx][ch]: amp_in_vals and amp_out_vals
  curr_conn,  \* node->curr_conn
  pinctl,     \* node->pinctl
  orig,       \* orig_amp_in_vals, orig_amp_out_vals and orig_pinctl
  rc          \* the response of the last verb: <<kind, value>>

vars == <<node, amp, curr_conn, pinctl, orig, rc>>

AmpVal == [gain : 0 .. 127, mute : BOOLEAN]
Silent == [gain |-> 0, mute |-> FALSE]

(* The parser reads as many amp values as the proc file has, valid ones. *)
Init ==
  /\ node \in Node
  /\ \E val \in {Silent, [gain |-> node.amp["out"].nsteps, mute |-> FALSE]} :
       amp = [dir \in Dir |-> [i \in Slot |-> [c \in Ch |->
                IF dir = "out" /\ i = 0 THEN val ELSE Silent]]]
  /\ curr_conn = 0
  /\ pinctl \in PinCtl
  /\ orig = [amp |-> amp, pinctl |-> pinctl]
  /\ rc = <<"set", 0>>

----------------------------------------------------------------------------
(* Amplifiers *)

\* Mutant: a gain above the range is not clamped.
set_amp_unclamped(cap, val) ==
  [gain |-> val.gain, mute |-> val.mute /\ cap.mute]

\* Mutant: the clamp does not wrap to the width of the field.
set_amp_no_wrap(cap, val) ==
  IF val.gain <= cap.nsteps THEN [gain |-> val.gain, mute |-> val.mute /\ cap.mute]
  ELSE [gain |-> cap.nsteps - 1, mute |-> val.mute /\ cap.mute]

(* Unsigned: the clamp of an amplifier without steps sets every bit. *)
set_amp(cap, val) ==
  IF val.gain <= cap.nsteps THEN [gain |-> val.gain, mute |-> val.mute /\ cap.mute]
  ELSE [gain |-> (cap.nsteps - 1) % 128,
        mute |-> (val.mute \/ cap.nsteps = 0) /\ cap.mute]

\* Mutant: the index may be the number of connections.
amp_index_off_by_one(dir, idx) ==
  IF \/ idx = 0
     \/ dir = "out" /\ node.type = "pin" /\ node.workaround /\ idx <= node.conns
     \/ dir = "in" /\ node.type # "pin" /\ idx <= node.conns
  THEN idx ELSE 0

(* An index the amplifier does not have is replaced by 0.  Only pins with  *)
(* the workaround have more than one output amplifier, and no pin has more *)
(* than one input amplifier.                                               *)
amp_index(dir, idx) ==
  IF \/ idx = 0
     \/ dir = "out" /\ node.type = "pin" /\ node.workaround /\ idx < node.conns
     \/ dir = "in" /\ node.type # "pin" /\ idx < node.conns
  THEN idx ELSE 0

(* The entry each amplifier of a verb is set at.  One idx serves both: the *)
(* output branch resets a wrong one to 0, and the input branch, which      *)
(* comes after it, starts from what is left.                               *)
set_index(dirs, idx) ==
  LET out == IF "out" \in dirs THEN amp_index("out", idx) ELSE idx
  IN  [dir \in Dir |-> IF dir = "out" THEN out ELSE amp_index("in", out)]

(* One verb may set both amplifiers and both channels, also of a widget    *)
(* that is said to have no such amplifier.                                 *)
set_amp_gain_mute(dirs, chs, idx, val) ==
  /\ amp' = [dir \in Dir |->
       IF dir \notin dirs THEN amp[dir]
       ELSE [amp[dir] EXCEPT ![set_index(dirs, idx)[dir]] =
               [c \in Ch |-> IF c \in chs THEN set_amp(node.amp[dir], val) ELSE @[c]]]]
  /\ rc' = <<"set", 0>>
  /\ UNCHANGED <<node, curr_conn, pinctl, orig>>

get_amp_gain_mute(dir, ch, idx) ==
  /\ rc' = <<"amp", amp[dir][amp_index(dir, idx)][ch]>>
  /\ UNCHANGED <<node, amp, curr_conn, pinctl, orig>>

----------------------------------------------------------------------------
(* Connection selection and pin control *)

set_connect_sel(sel) ==
  /\ curr_conn' = IF node.type \notin {"mixer", "vol_knob"} /\ sel < node.conns
                  THEN sel ELSE curr_conn
  /\ rc' = <<"set", 0>>
  /\ UNCHANGED <<node, amp, pinctl, orig>>

get_connect_sel ==
  /\ rc' = <<"conn", curr_conn>>
  /\ UNCHANGED <<node, amp, curr_conn, pinctl, orig>>

(* What hda_verify_pin_ctl finds wrong with the value is only logged. *)
set_pin_ctl(val) ==
  /\ pinctl' = val
  /\ rc' = <<"set", 0>>
  /\ UNCHANGED <<node, amp, curr_conn, orig>>

get_pin_ctl ==
  /\ rc' = <<"pinctl", pinctl>>
  /\ UNCHANGED <<node, amp, curr_conn, pinctl, orig>>
----------------------------------------------------------------------------
(* The pm command between suspend and resume *)

(* Any value of the range but its top, muted or not. *)
RandomAmp(cap) ==
  [gain : IF cap.nsteps = 0 THEN {0} ELSE 0 .. cap.nsteps - 1,
   mute : IF cap.mute THEN BOOLEAN ELSE {FALSE}]

(* As many input amplifiers as connections are filled, and one output      *)
(* amplifier, of a widget that is said to have them.                       *)
randomize_amp(dir, nums) ==
  IF dir \notin node.caps THEN {amp[dir]}
  ELSE {[i \in Slot |-> IF i < nums THEN vals[i] ELSE amp[dir][i]] :
          vals \in [{i \in Slot : i < nums} -> [Ch -> RandomAmp(node.amp[dir])]]}

hda_test_pm_randomize ==
  /\ pinctl' \in IF node.type = "pin" THEN PinCtl ELSE {pinctl}
  /\ \E ins \in randomize_amp("in", node.conns), outs \in randomize_amp("out", 1) :
       amp' = [dir \in Dir |-> IF dir = "in" THEN ins ELSE outs]
  /\ UNCHANGED <<node, curr_conn, orig, rc>>

hda_test_pm_reinit ==
  /\ pinctl' = orig.pinctl
  /\ amp' = orig.amp
  /\ UNCHANGED <<node, curr_conn, orig, rc>>

Next ==
  \/ \E dirs \in SUBSET Dir, chs \in SUBSET Ch, idx \in SetIdx, val \in [gain : Gain, mute : BOOLEAN] :
       set_amp_gain_mute(dirs, chs, idx, val)
  \/ \E dir \in Dir, ch \in Ch, idx \in GetIdx : get_amp_gain_mute(dir, ch, idx)
  \/ \E sel \in Sel : set_connect_sel(sel)
  \/ get_connect_sel
  \/ \E val \in PinCtl : set_pin_ctl(val)
  \/ get_pin_ctl
  \/ hda_test_pm_randomize
  \/ hda_test_pm_reinit

Spec == Init /\ [][Next]_vars
----------------------------------------------------------------------------
TypeOK ==
  /\ node \in Node
  /\ amp \in [Dir -> [Slot -> [Ch -> AmpVal]]]
  /\ curr_conn \in Nat
  /\ pinctl \in PinCtl
  /\ rc[1] \in {"set", "amp", "conn", "pinctl"}

(* No sequence of verbs, randomizations and re-initializations leaves an   *)
(* amplifier beyond its capabilities: a gain above its steps, or muted     *)
(* without a mute.  An amplifier without steps is the exception, for the   *)
(* clamp of an unsigned 0 - 1 leaves it at 0x7f.                           *)
AmpInRange ==
  \A dir \in Dir, i \in Slot, c \in Ch :
    /\ node.amp[dir].nsteps > 0 => amp[dir][i][c].gain <= node.amp[dir].nsteps
    /\ amp[dir][i][c].mute => node.amp[dir].mute

(* No verb, however wrong its index, selects a connection the widget does  *)
(* not have or touches amplifier values of one.                            *)
NothingBeyondConnections ==
  /\ node.conns > 0 => curr_conn < node.conns
  /\ \A dir \in Dir, i \in Slot \ {0}, c \in Ch :
       i >= node.conns => amp[dir][i][c] = Silent
=============================================================================
