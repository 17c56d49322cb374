------------------------------- MODULE Fixups -------------------------------
(***************************************************************************)
(* What hda-spec.c changes in a codec that was read from a file: machines  *)
(* whose widgets answer what the hardware has, but not what a driver needs.*)
(***************************************************************************)
EXTENDS CodecNode

(* The new form of a node, which the codec need not have. *)
FixNode(c, nid, n) == IF nid \notin DOMAIN c.nodes THEN c ELSE [c EXCEPT !.nodes[nid] = n]

Connected(n) == {n.node[i] : i \in 0 .. n.num_nodes - 1}

AddConnection(n, nid) == [n EXCEPT !.node[n.num_nodes] = nid, !.num_nodes = @ + 1]

\* Mutant: the converter is added whether it is connected or not.
fixup_via_mixer_again(c, mixer, dac) == FixNode(c, mixer, AddConnection(c.nodes[mixer], dac))

fixup_via_mixer(c, mixer, dac) ==
  LET n == c.nodes[mixer]
  IN  FixNode(c, mixer, IF dac \in Connected(n) THEN n ELSE AddConnection(n, dac))

(* The mixers that get a connection, with the converter. *)
Extended(c) == CASE c.vendor_id \in {"vt1718S", "vt1802"} -> {<<33, 8>>}
                 [] c.vendor_id = "vt3476" -> {<<63, 16>>}
                 [] OTHER -> {}

(* Nothing tests the length of the list: it is read, and the entry written, *)
(* behind the array when there is no room.                                 *)
FixupOverruns(c) ==
  {m \in Extended(c) :
     /\ m[1] \in DOMAIN c.nodes
     /\ \/ c.nodes[m[1]].num_nodes > MaxConns
        \/ c.nodes[m[1]].num_nodes = MaxConns /\ m[2] \notin Connected(c.nodes[m[1]])} # {}

AddAmpIn(n, word) ==
  [n EXCEPT !.wcaps.flags = @ \cup {"IN_AMP"}, !.amp_in_caps = [override |-> TRUE, word |-> word]]

(* A boost of 3 steps of 10dB. *)
MicBoost == \h280300

fixup_via_mic_boost(c, pin) == FixNode(c, pin, AddAmpIn(c.nodes[pin], MicBoost))

SetConnections(n, list) ==
  [n EXCEPT !.num_nodes = Len(list),
            !.node = [i \in DOMAIN @ |-> IF i < Len(list) THEN list[i + 1] ELSE @[i]]]

fixup_vt1708S(c) == fixup_via_mic_boost(fixup_via_mic_boost(c, 26), 30)

fixup_vt1718S(c) ==
  fixup_via_mixer(fixup_via_mic_boost(fixup_via_mic_boost(c, 43), 41), 33, 8)

FixConnections(c, nid, list) == FixNode(c, nid, SetConnections(c.nodes[nid], list))

fixup_vt1802(c) == FixConnections(FixConnections(fixup_vt1718S(c), 36, <<20, 28>>), 51, <<28>>)

fixup_vt3476(c) == fixup_via_mixer(c, 63, 16)

(* A gain of 13 steps of 2dB, the loudest is 0dB. *)
BeepGain == \h70C0C

fixup_alc268_beep(c) == FixNode(c, 29, AddAmpIn(c.nodes[29], BeepGain))

(* One converter 2 and one pin 3, or converters 2 to 4 and pins 5 to 7. *)
fixup_haswellhdmi(c) ==
  IF 5 \in DOMAIN c.nodes
  THEN [c EXCEPT !.nodes = [nid \in DOMAIN @ |->
          IF nid \in 5 .. 7 THEN SetConnections(@[nid], <<2, 3, 4>>) ELSE @[nid]]]
  ELSE FixConnections(c, 3, <<2>>)

(* The nodes whose list is replaced.  The selection stays as it was, and    *)
(* need not be one of the new list.                                        *)
Replaced(c) == CASE c.vendor_id = "vt1802" -> {36, 51}
                 [] c.vendor_id = "haswellhdmi" -> IF 5 \in DOMAIN c.nodes THEN 5 .. 7 ELSE {3}
                 [] OTHER -> {}

(* The vendors share their fixups; one id stands for those with the same. *)
apply_fixups(c) ==
  CASE c.vendor_id = "alc268"      -> fixup_alc268_beep(c)
    [] c.vendor_id = "vt1708S"     -> fixup_vt1708S(c)
    [] c.vendor_id = "vt1718S"     -> fixup_vt1718S(c)
    [] c.vendor_id = "vt1802"      -> fixup_vt1802(c)
    [] c.vendor_id = "vt3476"      -> fixup_vt3476(c)
    [] c.vendor_id = "haswellhdmi" -> fixup_haswellhdmi(c)
    [] OTHER -> c

(* The verbs of a vendor are in VendorRegs. *)
add_codec_extensions(c) ==
  [apply_fixups(c) EXCEPT !.pin_amp_workaround = @ \/ c.vendor_id = "conexant"]
=============================================================================
