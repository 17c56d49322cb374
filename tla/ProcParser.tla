----------------------------- MODULE ProcParser -----------------------------
(***************************************************************************)
(* How hda-parse.c reads the lines of a file: what a line does to the      *)
(* parser and to the codec read so far.                                    *)
(***************************************************************************)
EXTENDS ProcFile

NoIndex == -1   \* codec_index without -i
NoCurrent == -1 \* current_node, NULL
NoName == "none"

BlankCodec ==
  [parsed_name |-> NoName, addr |-> 0, function_id |-> 0, vendor_id |-> "none",
   subsystem_id |-> 0, revision_id |-> 0, num_widgets |-> 1, has_afg |-> TRUE,
   afg |-> BlankNode(AFG, NoWcaps), nodes |-> [nid \in {} |-> NoWcaps],
   mfg |-> 0, modem_function_id |-> 0, pin_amp_workaround |-> FALSE,
   pci |-> [card |-> 0, sub |-> 0], sysfs |-> <<>>]

(* The modes in their order; from POST on the codec is complete. *)
NodeModes == {"NODE", "NODE_PCM", "NODE_CONNECTIONS"}
ReadModes == {"ROOT", "DEFAULT_PCM", "GPIO"} \cup NodeModes

NewParser == [mode |-> "START", node |-> NoCurrent, codec |-> BlankCodec,
              curidx |-> -1, pciidx |-> 0, err |-> "OK"]

(* Lines written with a blank in front: all that belong to a node, to the  *)
(* formats and to the GPIO.                                                *)
Indented(l) == l.key \notin HeadKeys \cup FileKeys

(* in_modem_whitelist: five Conexant ids, of which two do not have the     *)
(* workaround of add_codec_extensions.                                     *)
Whitelisted(vendor) == vendor \in {"conexant", "conexant_hermosa"}

Error(p, err) == [p EXCEPT !.err = err]

(* An access through NULL or behind an array.  What the program would do   *)
(* then is not followed: the reading ends with it.                         *)
Fault(p) == Error(p, "fault")
----------------------------------------------------------------------------
(* Nodes.  Current applies to the node being read. *)

create_node(p, nid, wcaps) ==
  [p EXCEPT !.codec.nodes = [k \in DOMAIN @ \cup {nid} |-> IF k = nid THEN BlankNode(nid, wcaps) ELSE @[k]],
            !.codec.num_widgets = IF nid > @ THEN nid ELSE @,
            !.node = nid, !.mode = "NODE"]

parse_node(p, l) ==
  IF l.val.nid \in DOMAIN p.codec.nodes THEN Error([p EXCEPT !.node = NoCurrent], "ENOMEM")
  ELSE create_node(p, l.val.nid, l.val.wcaps)

parse_amp_caps(caps, word) == IF word = 0 THEN caps ELSE [override |-> TRUE, word |-> word]

(* Pairs are read until one is not a pair: a node that is not stereo has   *)
(* none, and keeps the values it was created with.                         *)
parse_amp_vals(vals, l) ==
  [i \in DOMAIN vals |->
     IF i + 1 \in DOMAIN l.val /\ \A k \in 1 .. i + 1 : Len(l.val[k]) = 2
     THEN l.val[i + 1] ELSE vals[i]]

(* The names in the order they are tried; the first that a word starts     *)
(* with is taken, so that ValidityCfg must come before Validity.           *)
dig_conv_bits == <<"Enabled", "ValidityCfg", "Validity", "Preemphasis", "Copyright",
                   "Non-Audio", "Pro", "GenLevel">>

WordStarts(word, name) == word = name \/ (word = "ValidityCfg" /\ name = "Validity")

dig_match(word) ==
  dig_conv_bits[Least({i \in DOMAIN dig_conv_bits : WordStarts(word, dig_conv_bits[i])})]

(* What is left of a word that was not taken whole ends the reading. *)
parse_node_digital(words) ==
  {dig_match(words[i]) : i \in {i \in DOMAIN words :
                                  \A k \in 1 .. i - 1 : dig_match(words[k]) = words[k]}}

Zero(cap) == cap.bits = {} /\ cap.vref = {}

parse_pin_ctls(n, ctl) ==
  LET m == [n EXCEPT !.pinctl = ctl]
  IN  IF Zero(m.pincap) THEN m ELSE [m EXCEPT !.pinctl = hda_verify_pin_ctl(m)]

parse_power(power, val) ==
  [setting |-> IF val[1] < 4 THEN val[1] ELSE power.setting,
   current |-> IF val[1] < 4 /\ val[2] < 4 THEN val[2] ELSE power.current]

(* Counts from 128 on are not believed; the array may be shorter. *)
parse_num_nodes(n) == IF n \in 0 .. 127 THEN n ELSE 0

parse_item(n, l) ==
  CASE l.key = "Amp-In caps"      -> [n EXCEPT !.amp_in_caps = parse_amp_caps(@, l.val)]
    [] l.key = "Amp-Out caps"     -> [n EXCEPT !.amp_out_caps = parse_amp_caps(@, l.val)]
    [] l.key = "Amp-In vals"      -> [n EXCEPT !.amp_in_vals = parse_amp_vals(@, l)]
    [] l.key = "Amp-Out vals"     -> [n EXCEPT !.amp_out_vals = parse_amp_vals(@, l)]
    [] l.key = "Pin-ctls"         -> parse_pin_ctls(n, l.val)
    [] l.key = "Pincap"           -> [n EXCEPT !.pincap = l.val]
    [] l.key = "Pin Default"      -> [n EXCEPT !.pin_default = l.val]
    [] l.key = "Power"            -> [n EXCEPT !.power = parse_power(@, l.val)]
    [] l.key = "Processing caps"  -> [n EXCEPT !.coef = l.val]
    [] l.key = "Digital"          -> [n EXCEPT !.dig_conv = @ \cup parse_node_digital(l.val)]
    [] l.key = "Digital category" -> [n EXCEPT !.dig_category = l.val]
    [] l.key = "Connection"       -> [n EXCEPT !.num_nodes = parse_num_nodes(l.val)]
    [] OTHER                      -> n

(* The lines that store something in the node; capabilities of N/A, and    *)
(* values and bits of which there are none, store nothing.                 *)
Stores(l) ==
  \/ l.key \in {"Amp-In caps", "Amp-Out caps"} /\ l.val # 0
  \/ l.key \in {"Amp-In vals", "Amp-Out vals", "Digital"} /\ l.val # <<>>
  \/ l.key \in {"Pin-ctls", "Pincap", "Pin Default", "Power", "Processing caps", "Digital category",
                "Connection"}

(* More pairs than a node has room for. *)
TooManyVals(l) ==
  /\ l.key \in {"Amp-In vals", "Amp-Out vals"}
  /\ \A k \in 1 .. MaxConns + 1 : k \in DOMAIN l.val /\ Len(l.val[k]) = 2

(* Nothing tests whether there is a node, or the number of values. *)
parse_node_items(p, l) ==
  IF Stores(l) /\ (p.node = NoCurrent \/ TooManyVals(l)) THEN Fault(p)
  ELSE LET q == IF p.node = NoCurrent THEN p ELSE [p EXCEPT !.codec.nodes[p.node] = parse_item(@, l)]
       IN  CASE l.key = "PCM" -> [q EXCEPT !.mode = "NODE_PCM"]
             [] l.key = "Connection" /\ parse_num_nodes(l.val) > 0 -> [q EXCEPT !.mode = "NODE_CONNECTIONS"]
             [] OTHER -> q

(* As many as were announced, 0 for each that the line does not have; the  *)
(* last marked one is selected.                                            *)
parse_conns(n, l) ==
  LET has(i) == l.key = "list" /\ i + 1 \in DOMAIN l.val
  IN
  [n EXCEPT
     !.node = [i \in DOMAIN @ |-> IF i >= n.num_nodes THEN @[i] ELSE IF has(i) THEN l.val[i + 1].nid ELSE 0],
     !.curr_conn = LET stars == {i \in 0 .. n.num_nodes - 1 : has(i) /\ l.val[i + 1].star}
                   IN  IF stars = {} THEN @ ELSE CHOOSE i \in stars : \A j \in stars : j <= i]

(* The number is not tested again.  Behind the list nothing of the node is *)
(* read any more.                                                          *)
parse_node_connections(p, l) ==
  IF p.codec.nodes[p.node].num_nodes > MaxConns THEN Fault(p)
  ELSE [p EXCEPT !.codec.nodes[p.node] = parse_conns(@, l), !.mode = "ROOT", !.node = NoCurrent]

IsPcmItem(l) == l.key \in {"rates", "bits", "formats"}

parse_pcm_items(pcm, l) ==
  CASE l.key = "rates"   -> [pcm EXCEPT !.rates = l.val]
    [] l.key = "bits"    -> [pcm EXCEPT !.bits = IF l.val >= \h1000 THEN l.val \div 65536 ELSE l.val]
    [] l.key = "formats" -> [pcm EXCEPT !.formats = l.val]

(* The first other line belongs to the node again. *)
parse_node_pcm(p, l) ==
  CASE ~IsPcmItem(l) -> parse_node_items([p EXCEPT !.mode = "NODE"], l)
    [] IsPcmItem(l) /\ p.node = NoCurrent -> Fault(p)
    [] OTHER -> [p EXCEPT !.codec.nodes[p.node].pcm = parse_pcm_items(@, l)]
----------------------------------------------------------------------------
(* The codec *)

(* The GPIO is that of the node being read, and of the group without one.  *)
(* Behind the last node of a modem it is the modem's.                      *)
GpioNode(p) == IF p.node = NoCurrent THEN p.codec.afg ELSE p.codec.nodes[p.node]

SetGpioNode(p, n) ==
  IF p.node = NoCurrent THEN [p EXCEPT !.codec.afg = n] ELSE [p EXCEPT !.codec.nodes[p.node] = n]

parse_gpio(p, l) == [SetGpioNode(p, [GpioNode(p) EXCEPT !.gpio_cap = l.val]) EXCEPT !.mode = "GPIO"]

(* Bits are only added.  Any other line is taken for one of a node, which  *)
(* there may be none of yet.                                               *)
AddGpio(n, io) ==
  [n EXCEPT !.gpio = [g \in Gpio |-> IF g \in io.on THEN @[g] \cup {io.i} ELSE @[g]]]

parse_gpio_items(p, l) ==
  IF l.key = "IO" THEN SetGpioNode(p, AddGpio(GpioNode(p), l.val))
  ELSE parse_node_items([p EXCEPT !.mode = "NODE"], l)

(* Only a line that starts with Function Id counts, and any id is taken    *)
(* for the audio group's: the lines of newer kernels start with AFG and    *)
(* MFG.  A modem group of a codec without such a line makes it a modem,    *)
(* unless its vendor is known to have both.                                *)
parse_root(p, l) ==
  CASE l.key = "Address"       -> [p EXCEPT !.codec.addr = l.val]
    [] l.key = "Function Id"   -> [p EXCEPT !.codec.function_id = 1]
    [] l.key = "Vendor Id"     -> [p EXCEPT !.codec.vendor_id = l.val]
    [] l.key = "Subsystem Id"  -> [p EXCEPT !.codec.subsystem_id = l.val]
    [] l.key = "Revision Id"   -> [p EXCEPT !.codec.revision_id = l.val]
    [] l.key = "Default PCM"   -> [p EXCEPT !.mode = "DEFAULT_PCM"]
    [] l.key = "Default Amp-In caps"  -> [p EXCEPT !.codec.afg.amp_in_caps = parse_amp_caps(@, l.val)]
    [] l.key = "Default Amp-Out caps" -> [p EXCEPT !.codec.afg.amp_out_caps = parse_amp_caps(@, l.val)]
    [] l.key = "GPIO"          -> parse_gpio(p, l)
    [] l.key = "Node"          -> parse_node(p, l)
    [] l.key = "Modem Function Group" ->
         LET q == [p EXCEPT !.codec.mfg = l.val]
         IN  IF q.codec.function_id = 0 /\ ~Whitelisted(q.codec.vendor_id)
             THEN Error(q, "EBADFD") ELSE q
    [] OTHER -> p

parse_default_pcm_items(p, l) ==
  IF IsPcmItem(l) THEN [p EXCEPT !.codec.afg.pcm = parse_pcm_items(@, l)]
  ELSE parse_root([p EXCEPT !.mode = "ROOT"], l)

parse_codec_recursive(p, l) ==
  CASE p.mode = "ROOT"             -> parse_root(p, l)
    [] p.mode = "DEFAULT_PCM"      -> parse_default_pcm_items(p, l)
    [] p.mode = "GPIO"             -> parse_gpio_items(p, l)
    [] p.mode = "NODE"             -> parse_node_items(p, l)
    [] p.mode = "NODE_PCM"         -> parse_node_pcm(p, l)
    [] p.mode = "NODE_CONNECTIONS" -> parse_node_connections(p, l)
    [] OTHER                       -> p
----------------------------------------------------------------------------
(* Files *)

(* The list of PCI devices precedes the codecs: the first card is taken,   *)
(* or the one whose number is the index asked for.  The subsystem ends a   *)
(* card; with names it is counted only if it is taken.                     *)
check_alsa_info(p, codec_index, l) ==
  LET take(id) == p.pciidx = codec_index \/ id = 0
  IN  CASE l.key = "PCI audio" /\ take(p.codec.pci.card) ->
             [p EXCEPT !.codec.pci.card = l.val]
        [] l.key = "PCI subsystem" ->
             [p EXCEPT !.codec.pci.sub = IF take(@) THEN l.val ELSE @, !.pciidx = @ + 1]
        [] l.key = "PCI subsystem nn" /\ take(p.codec.pci.sub) ->
             [p EXCEPT !.codec.pci.sub = l.val, !.pciidx = @ + 1]
        [] OTHER -> p

(* The newest entry is the first of the list. *)
new_sysfs(p, entry) ==
  [p EXCEPT !.codec.sysfs = <<[id |-> entry.id, type |-> entry.type, vals |-> <<>>]>> \o @]

(* It is the one that lines belong to; a hint is in no file before one.    *)
add_sysfs_list(p, v) == [p EXCEPT !.codec.sysfs[1].vals = Append(@, v)]

do_parse_sysfs(p, l) ==
  LET type == IF p.codec.sysfs = <<>> THEN "none" ELSE p.codec.sysfs[1].type
  IN  CASE l.key = "sysfs" -> new_sysfs(p, l.val)
        [] l.key = "hint"  -> add_sysfs_list(p, l.val)
        [] l.key = "digits" /\ type = "VERBS" /\ Len(l.val) = 3 -> add_sysfs_list(p, l.val)
        [] l.key = "digits" /\ type = "PINCFG" /\ Len(l.val) >= 2 ->
             add_sysfs_list(p, <<l.val[1], l.val[2]>>)
        [] l.key \in {"!!--", "blank", "digits"} \/ Indented(l) -> p
        [] OTHER -> [p EXCEPT !.mode = "POST"]

\* Mutant: the modem group stays, too.
clear_codec_keeps_mfg(c) ==
  [c EXCEPT !.parsed_name = NoName, !.function_id = 0, !.modem_function_id = 0, !.num_widgets = 1]

(* The widgets read so far stay. *)
clear_codec(c) ==
  [c EXCEPT !.parsed_name = NoName, !.function_id = 0, !.modem_function_id = 0,
            !.mfg = 0, !.num_widgets = 1]

(* The name is stored for codecs that are passed over too. *)
parse_codec_start(p, codec_index, l) ==
  [p EXCEPT !.curidx = @ + 1,
            !.mode = IF codec_index \in {NoIndex, p.curidx + 1} THEN "ROOT" ELSE @,
            !.codec.parsed_name = l.val]

parse_codec_body(p, codec_index, l) ==
  LET plain == p.mode # "ROOT" /\ ~Indented(l)
      q == parse_codec_recursive(IF plain THEN [p EXCEPT !.mode = "ROOT", !.node = NoCurrent] ELSE p, l)
  IN  IF q.err = "EBADFD" /\ codec_index = NoIndex
      THEN [q EXCEPT !.err = "OK", !.mode = "START", !.codec = clear_codec(@)]
      ELSE q

parse_any(p, codec_index, l) ==
  LET ends == l.key \in FileKeys \ {"blank", "PCI subsystem", "PCI subsystem nn"}
      mode == IF p.mode \in ReadModes /\ ends THEN "POST" ELSE p.mode
  IN  CASE mode = "POST"  -> [p EXCEPT !.mode = IF l.key = "!!Sysfs Files" THEN "SYSFS" ELSE "POST"]
        [] mode = "SYSFS" -> do_parse_sysfs(p, l)
        [] mode = "START" -> p
        [] OTHER          -> parse_codec_body(p, codec_index, l)

(* A codec that ends with nothing above its modem group is a modem. *)
skipping_modem(c) == c.mfg # 0 /\ c.num_widgets <= c.mfg /\ ~Whitelisted(c.vendor_id)

parse_line(p, codec_index, l) ==
  CASE p.mode = "START" /\ l.key # "Codec" -> check_alsa_info(p, codec_index, l)
    [] p.mode = "START" /\ l.key = "Codec" ->
         parse_any(parse_codec_start(p, codec_index, l), codec_index, l)
    [] p.mode # "START" /\ l.key = "Codec" ->
         IF skipping_modem(p.codec)
         THEN LET q == [p EXCEPT !.mode = "START", !.codec = clear_codec(@)]
              IN  parse_any(parse_codec_start(q, codec_index, l), codec_index, l)
         ELSE [p EXCEPT !.mode = "POST"]
    [] OTHER -> parse_any(p, codec_index, l)
=============================================================================
