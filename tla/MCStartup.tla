----------------------------- MODULE MCStartup -----------------------------
EXTENDS RouteCommand

(* Codecs of real machines, cut down to the widgets that differ.  Numbers  *)
(* stand for words nothing looks into.                                     *)
Codec(name, vendor, nodes) ==
  [BlankCodec EXCEPT !.parsed_name = name, !.vendor_id = vendor, !.subsystem_id = 7,
     !.revision_id = 3, !.nodes = nodes,
     !.num_widgets = IF DOMAIN nodes = {} THEN 1 ELSE CHOOSE n \in DOMAIN nodes : \A m \in DOMAIN nodes : m <= n,
     !.afg = [@ EXCEPT !.pcm = [rates |-> 1376, bits |-> 14, formats |-> 1],
                       !.amp_out_caps = [override |-> TRUE, word |-> 127],
                       !.gpio_cap = [io |-> 2, o |-> 0, i |-> 0, unsol |-> 1, wake |-> 0],
                       !.gpio = [@ EXCEPT !["mask"] = {1}, !["data"] = {0, 1}]]]

Node(nid, type, flags, conns) ==
  [BlankNode(nid, [type |-> type, flags |-> flags]) EXCEPT
     !.num_nodes = Len(conns),
     !.node = [i \in DOMAIN @ \cup 0 .. Len(conns) - 1 |-> IF i < Len(conns) THEN conns[i + 1] ELSE 0]]

Pin(nid, flags, conns, default, en) ==
  [Node(nid, "pin", flags, conns) EXCEPT
     !.pincap = [bits |-> {"IN", "OUT"}, vref |-> {"HIZ", "50"}],
     !.pin_default = default,
     !.pinctl = [en |-> en, vref |-> "HIZ"]]

Vals(n, dir, vals) ==
  LET new == [i \in 0 .. MaxConns - 1 |-> IF i < Len(vals) THEN vals[i + 1] ELSE <<0, 0>>]
  IN  IF dir = "in" THEN [n EXCEPT !.amp_in_vals = new] ELSE [n EXCEPT !.amp_out_vals = new]

ByNid(nodes) == [nid \in {nodes[k].nid : k \in DOMAIN nodes} |-> CHOOSE n \in Range(nodes) : n.nid = nid]

(* A mixer and a selector that feed each other, a converter each way.      *)
Stac == Codec("STAC", "idt", ByNid(<<
  [Vals(Node(2, "out", {"STEREO", "OUT_AMP", "POWER", "FORMAT_OVRD", "DIGITAL"}, <<>>), "out", <<<<5, 6>>>>)
     EXCEPT !.pcm = [rates |-> 32, bits |-> 2, formats |-> 5],
            !.power = [setting |-> 3, current |-> 0],
            !.dig_conv = {"Enabled", "Validity", "ValidityCfg", "Non-Audio"}, !.dig_category = 200],
  [Vals(Node(3, "in", {"STEREO", "IN_AMP", "CONN_LIST", "PROC_WID"}, <<6, 5>>), "in", <<<<1, 2>>, <<3, 4>>>>)
     EXCEPT !.curr_conn = 1, !.coef = [benign |-> 1, num |-> 9],
            !.amp_in_caps = [override |-> TRUE, word |-> 31]],
  Vals(Node(4, "mixer", {"STEREO", "IN_AMP", "CONN_LIST"}, <<2, 6>>), "in", <<<<1, 1>>, <<2, 2>>>>),
  [Pin(5, {"STEREO", "CONN_LIST", "UNSOL_CAP"}, <<6, 4, 2, 3, 2>>, <<16, 64, 1, 1>>, {"IN", "OUT"})
     EXCEPT !.curr_conn = 1],
  [Node(6, "selector", {"STEREO", "CONN_LIST", "POWER"}, <<4, 5>>) EXCEPT !.power = [setting |-> 5, current |-> 1]]
  >>))

(* A widget of one channel, and coefficients behind a connection list.     *)
Mono == Codec("Mono", "generic", ByNid(<<
  Vals(Node(2, "out", {"OUT_AMP"}, <<>>), "out", <<<<0, 9>>>>),
  Pin(3, {"CONN_LIST"}, <<2>>, <<16, 64, 1, 1>>, {"OUT"})>>))

(* Audio and modem on one chip. *)
Conexant == [Codec("CX", "conexant", ByNid(<<
  Node(3, "out", {"STEREO"}, <<>>), Node(4, "out", {"STEREO"}, <<>>),
  Vals(Pin(5, {"STEREO", "OUT_AMP", "CONN_LIST"}, <<3, 4>>, <<32, 16, 3, 66>>, {"OUT"}), "out",
       <<<<1, 2>>, <<3, 4>>>>)>>))
  EXCEPT !.mfg = 2]

Combo == [Codec("Combo", "generic", ByNid(<<Node(3, "out", {"STEREO"}, <<>>)>>)) EXCEPT !.mfg = 2]

Modem == [Codec("Modem", "lsi", ByNid(<<>>)) EXCEPT !.has_afg = FALSE, !.mfg = 1]

Lone(name, vendor, n) == Codec(name, vendor, ByNid(<<n>>))

Haswell(nids, pinNids) ==
  Codec("HDMI", "haswellhdmi",
        [nid \in nids \cup pinNids |-> IF nid \in pinNids THEN Pin(nid, {"STEREO"}, <<>>, <<16, 0, 86, 24>>, {"OUT"})
                                    ELSE Node(nid, "out", {"STEREO"}, <<>>)])

Pci == <<Line("PCI audio", 1), Line("PCI subsystem", 2), Line("PCI audio", 3), Line("PCI subsystem", 4),
         Line("text", 0), Line("blank", 0)>>

(* A list of three cards with names. *)
PciNames == <<Line("PCI audio", 1), Line("PCI subsystem nn", 2), Line("PCI audio", 3), Line("PCI subsystem nn", 4),
              Line("PCI audio", 5), Line("PCI subsystem nn", 6), Line("blank", 0)>>

(* A list of that many connections, which an array of MaxConns may not hold. *)
Long(len) == Lone("Long", "generic", Node(2, "selector", {"STEREO", "CONN_LIST"}, [i \in 1 .. len |-> 3]))

Sysfs(id, type) == Line("sysfs", [id |-> id, type |-> type])

After == <<Line("blank", 0), Line("!!", 0), Line("!!Sysfs Files", 0), Line("!!--", 0), Line("blank", 0),
           Sysfs("hwC0D0/init_verbs", "VERBS"), Line("digits", <<5, 1799, 2>>),
           Sysfs("hwC0D0/init_pin_configs", "PINCFG"),
           Line("digits", <<5, <<1, 1, 1, 1>>>>), Line("digits", <<9, <<3, 3, 3, 3>>>>),
           Line("digits", <<5, <<2, 2, 2, 2>>>>),
           Sysfs("hwC0D0/hints", "HINTS"), Line("hint", 1), Line("blank", 0),
           Line("text", 0), Line("digits", <<5, <<9, 9, 9, 9>>>>)>>

With(codec, style) == [codec |-> codec, style |-> style]
Alone(codec) == [before |-> <<>>, written |-> <<With(codec, "none")>>, after |-> <<>>]

MCSource == <<
  [before |-> Pci, written |-> <<With(Stac, "none"), With(Mono, "none")>>, after |-> After],
  [before |-> Pci, written |-> <<With(Modem, "none"), With(Stac, "old")>>, after |-> After],
  [before |-> <<>>, written |-> <<With(Modem, "old"), With(Conexant, "none")>>, after |-> <<>>],
  [before |-> <<>>, written |-> <<With(Combo, "new"), With(Mono, "new")>>, after |-> <<>>],
  [before |-> <<Line("text", 0)>>, written |-> <<With([Conexant EXCEPT !.vendor_id = "conexant_hermosa"], "new")>>, after |-> After],
  Alone(Lone("ALC268", "alc268", Pin(29, {}, <<>>, <<0, 0, 0, 64>>, {"IN"}))),
  Alone(Lone("VT1708S", "vt1708S", Pin(30, {"STEREO"}, <<>>, <<0, 0, 0, 64>>, {"IN"}))),
  Alone(Lone("VT1718S", "vt1718S", Node(33, "mixer", {"STEREO", "CONN_LIST"}, <<2>>))),
  Alone(Lone("VT1802", "vt1802", Node(36, "selector", {"STEREO", "CONN_LIST"}, <<20>>))),
  Alone(Lone("VT3476", "vt3476", Node(63, "mixer", {"STEREO", "CONN_LIST"}, <<>>))),
  Alone(Haswell({2}, {3})),
  Alone(Haswell({2, 3, 4}, {5, 6, 7})),
  Alone(Modem),
  [before |-> Pci, written |-> <<>>, after |-> After],
  [before |-> PciNames, written |-> <<With(Mono, "none"), With(Combo, "old"), With(Mono, "new")>>, after |-> <<>>],
  Alone(Long(MaxConns)), Alone(Long(MaxConns + 1)), Alone(Long(128)),
  Alone(Lone("VT3476", "vt3476", Node(63, "mixer", {"STEREO", "CONN_LIST"}, [i \in 1 .. MaxConns |-> i])))>>

MCIndex == {NoIndex, 0, 1, 2}

MCPinOption == <<
  [name |-> "", pair |-> <<5, <<7, 7, 7, 7>>>>],
  [name |-> "hwC0D0/init_pin_configs", pair |-> <<>>],
  [name |-> "patch.fw", pair |-> <<>>],
  [name |-> "pins", pair |-> <<>>],
  [name |-> "missing", pair |-> <<>>]>>

FileLine(key, val) == [key |-> key, val |-> val]

MCPinFile == [name \in {"patch.fw", "pins", "hwC0D0/init_pin_configs"} |->
  CASE name = "patch.fw" ->
         <<FileLine("comment", ""), FileLine("section", "codec"), FileLine("junk", ""),
           FileLine("section", "pincfg"), FileLine("comment", ""), FileLine("pair", <<5, <<4, 4, 4, 4>>>>),
           FileLine("section", "verb"), FileLine("pair", <<5, <<8, 8, 8, 8>>>>)>>
    [] name = "pins" ->
         <<FileLine("pair", <<3, <<5, 5, 5, 5>>>>), FileLine("comment", ""), FileLine("junk", ""),
           FileLine("pair", <<5, <<6, 6, 6, 6>>>>)>>
    [] OTHER -> <<FileLine("pair", <<5, <<0, 0, 0, 1>>>>)>>]

V(nid, set, val) == [nid |-> nid, set |-> set, val |-> val]

MCVerb == <<
  V(3, "connect_sel", 0), V(5, "connect_sel", 0), V(5, "connect_sel", 4), V(5, "connect_sel", 5), V(6, "connect_sel", 1),
  V(4, "connect_sel", 1),
  V(5, "pin_ctl", [en |-> {"HP", "OUT"}, vref |-> "HIZ"]), V(5, "pin_ctl", [en |-> {"IN"}, vref |-> "80"]),
  V(5, "pin_ctl", [en |-> {}, vref |-> "HIZ"]),
  V(2, "power_state", 3), V(2, "power_state", 4), V(1, "power_state", 3),
  V(5, "config_def", <<3, 64>>), V(3, "config_def", <<0, 129>>),
  V(2, "digi_cvt_1", {"ValidityCfg", "Pro"}), V(2, "digi_cvt_2", 129),
  V(1, "gpio", <<"dir", {1}>>), V(1, "gpio", <<"data", {0, 5}>>),
  V(2, "reg", <<"streamid", 80>>), V(3, "reg", <<"sdi", 17>>), V(5, "reg", <<"unsol", 132>>),
  V(3, "asp", 33), V(5, "pin_sense", 1)>>
=============================================================================
