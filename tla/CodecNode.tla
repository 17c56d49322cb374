----------------------------- MODULE CodecNode -----------------------------
(***************************************************************************)
(* The record of a codec node (struct xhda_node) and of a codec (struct    *)
(* xhda_codec), and what the verbs and parameters of hda-int.c read from   *)
(* and write to them.  A packed word is a record or a tuple of its fields. *)
(* The amplifier verbs that write are in Widget, the coefficients in Coef. *)
(***************************************************************************)
EXTENDS Naturals, Sequences

CONSTANT MaxConns   \* HDA_MAX_NUM_CONNS, the size of the arrays of a node

ASSUME MaxConnsAssumption == MaxConns \in Nat \ {0}

AFG == 1            \* the nid of the audio function group

(* wcaps: the widget type and the capability bits. *)
NoWcaps == [type |-> "out", flags |-> {}]

(* The word of an amplifier's capabilities, and whether the node has its   *)
(* own.  The word is 0 without an offset, steps, a step size and a mute.   *)
NoCaps == [override |-> FALSE, word |-> 0]

NoVals == [i \in 0 .. MaxConns - 1 |-> <<0, 0>>]

NoPcm == [rates |-> 0, bits |-> 0, formats |-> 0]

(* The registers of one byte that a verb sets and another reads. *)
Reg == {"sdi", "streamid", "unsol", "eapd", "beep_div", "volknob_ctl",
        "proc_state", "cvt_channel_count", "dip_xmitctrl"}

Gpio == {"data", "mask", "dir", "wake", "unsol", "sticky"}

(* A node as xalloc leaves it, with the fields create_node stores. *)
BlankNode(nid, wcaps) ==
  [nid |-> nid, wcaps |-> wcaps,
   pinctl |-> [en |-> {}, vref |-> "HIZ"],
   pincap |-> [bits |-> {}, vref |-> {}],
   pin_default |-> <<0, 0, 0, 0>>,
   pcm |-> NoPcm,
   amp_in_caps |-> NoCaps, amp_out_caps |-> NoCaps,
   amp_in_vals |-> NoVals, amp_out_vals |-> NoVals,
   num_nodes |-> 0, curr_conn |-> 0,
   node |-> [i \in 0 .. MaxConns - 1 |-> 0],
   power |-> [setting |-> 0, current |-> 0],
   coef |-> [benign |-> 0, num |-> 0],
   dig_conv |-> {}, dig_category |-> 0,
   gpio_cap |-> [io |-> 0, o |-> 0, i |-> 0, unsol |-> 0, wake |-> 0],
   gpio |-> [g \in Gpio |-> {}],
   reg |-> [r \in Reg |-> 0],
   asp |-> [i \in 0 .. 15 |-> 0]]

Type(n) == n.wcaps.type
Has(n, flag) == flag \in n.wcaps.flags

(* c.nodes holds the nodes behind the function group, by nid. *)
find_node(c, nid) == IF nid = AFG THEN c.afg ELSE c.nodes[nid]
HasNode(c, nid) == nid = AFG \/ nid \in DOMAIN c.nodes

(* No node announces more connections than its array holds. *)
ListsFit(c) == \A nid \in DOMAIN c.nodes : c.nodes[nid].num_nodes <= MaxConns

Least(S) == CHOOSE n \in S : \A m \in S : n <= m
----------------------------------------------------------------------------
(* Parameters *)

(* The count runs to the highest nid, whether all exist or not. *)
par_node_count(c) ==
  IF DOMAIN c.nodes = {} THEN [start |-> 0, count |-> 0]
  ELSE LET start == Least(DOMAIN c.nodes)
       IN  [start |-> start, count |-> c.num_widgets - start + 1]

par_function_type(c, nid) ==
  CASE c.function_id = 0 /\ nid = AFG -> 1
    [] c.function_id # 0 /\ nid = AFG -> c.function_id
    [] nid # AFG /\ nid = c.mfg -> IF c.modem_function_id # 0 THEN c.modem_function_id ELSE 2
    [] OTHER -> 0

(* A node without capabilities of its own has those of the group. *)
par_amp_cap(node_cap, afg_cap) ==
  IF node_cap.override THEN node_cap.word ELSE afg_cap.word

par_amp_in_cap(c, n)  == par_amp_cap(n.amp_in_caps, c.afg.amp_in_caps)
par_amp_out_cap(c, n) == par_amp_cap(n.amp_out_caps, c.afg.amp_out_caps)

par_pcm(n)    == [rates |-> n.pcm.rates, bits |-> n.pcm.bits]
par_stream(n) == n.pcm.formats

par_power_state(n) == n.nid = AFG \/ Has(n, "POWER")
----------------------------------------------------------------------------
(* Verbs that read *)

(* Indices a node does not have read the first value. *)
AmpIndex(c, n, dir, i) ==
  IF i < n.num_nodes /\ (IF dir = "out" THEN Type(n) = "pin" /\ c.pin_amp_workaround
                         ELSE Type(n) # "pin")
  THEN i ELSE 0

get_amp_gain_mute(c, n, dir, ch, i) ==
  (IF dir = "out" THEN n.amp_out_vals ELSE n.amp_in_vals)[AmpIndex(c, n, dir, i)][ch]

(* Up to four entries a word; the caller asks for word after word until it *)
(* has as many as the length parameter says.                               *)
get_connect_list(n, idx) ==
  SubSeq([i \in 1 .. n.num_nodes |-> n.node[i - 1]], idx + 1,
         IF idx + 4 < n.num_nodes THEN idx + 4 ELSE n.num_nodes)

get_digi_cvt(n) == <<n.dig_conv, n.dig_category>>

get_power_state(n) == n.power

get_asp_channel_slot(n, ch) == <<n.asp[ch], ch>>
----------------------------------------------------------------------------
(* Verbs that write.  A verb is [set, val]; the result is the node.        *)

(* Bits without the capability, and a reference voltage the pin cannot     *)
(* supply, are removed; the voltage is judged by the bits before that.     *)
hda_verify_pin_ctl(n) ==
  LET ctl     == n.pinctl
      allowed == {b \in {"IN", "OUT", "HP"} : b \in n.pincap.bits}
      vrefs   == IF n.pincap.vref = {} THEN {"HIZ"} ELSE n.pincap.vref
  IN  [en |-> ctl.en \cap allowed,
       vref |-> IF "IN" \in ctl.en /\ ctl.vref # "reserved" /\ ctl.vref \notin vrefs
                THEN "HIZ" ELSE ctl.vref]

\* Mutant: the check lets the number of connections through.
set_connect_sel_off(n, sel) ==
  IF Type(n) \in {"mixer", "vol_knob"} \/ sel > n.num_nodes THEN n
  ELSE [n EXCEPT !.curr_conn = sel]

set_connect_sel(n, sel) ==
  IF Type(n) \in {"mixer", "vol_knob"} \/ sel >= n.num_nodes THEN n
  ELSE [n EXCEPT !.curr_conn = sel]

set_power_state(n, val) ==
  IF n.nid # AFG /\ ~Has(n, "POWER") THEN n
  ELSE [n EXCEPT !.power = [setting |-> val % 16, current |-> val % 16]]

set_config_def(n, k, val) == [n EXCEPT !.pin_default[k + 1] = val]

set_digi_cvt_1(n, bits) == [n EXCEPT !.dig_conv = bits]
set_digi_cvt_2(n, val)  == [n EXCEPT !.dig_category = val]

set_gpio(n, g, bits) == [n EXCEPT !.gpio[g] = bits]

set_sdi_select(n, val)   == [n EXCEPT !.reg["sdi"] = val % 16]
set_dip_xmitctrl(n, val) == [n EXCEPT !.reg["dip_xmitctrl"] = 64 * (val \div 64)]

(* The registers that keep the byte as it is. *)
set_reg(n, r, val) == [n EXCEPT !.reg[r] = val]

(* The upper half of the parameter is the slot, the lower the channel. *)
set_asp_channel_slot(n, parm) == [n EXCEPT !.asp[parm % 16] = parm \div 16]

set_verb(n, v) ==
  CASE v.set = "connect_sel"  -> set_connect_sel(n, v.val)
    [] v.set = "power_state"  -> set_power_state(n, v.val)
    [] v.set = "pin_ctl"      -> [n EXCEPT !.pinctl = v.val]
    [] v.set = "digi_cvt_1"   -> set_digi_cvt_1(n, v.val)
    [] v.set = "digi_cvt_2"   -> set_digi_cvt_2(n, v.val)
    [] v.set = "config_def"   -> set_config_def(n, v.val[1], v.val[2])
    [] v.set = "gpio"         -> set_gpio(n, v.val[1], v.val[2])
    [] v.set = "reg"          -> CASE v.val[1] = "sdi" -> set_sdi_select(n, v.val[2])
                                   [] v.val[1] = "dip_xmitctrl" -> set_dip_xmitctrl(n, v.val[2])
                                   [] OTHER -> set_reg(n, v.val[1], v.val[2])
    [] v.set = "asp"          -> set_asp_channel_slot(n, v.val)
    [] v.set \in {"reset", "dip_index", "dip_data", "pin_sense"} -> n
=============================================================================
