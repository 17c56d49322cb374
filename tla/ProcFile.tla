------------------------------ MODULE ProcFile ------------------------------
(***************************************************************************)
(* The lines of a codec proc file, as hda_own_proc.c writes them from what *)
(* a codec answers.  The file a user passes to the program was written by  *)
(* the same code of a kernel on the real machine; the dump command writes  *)
(* one from the emulated codec.  A line is its keyword and its values; of  *)
(* the words that only explain a value nothing is kept.                    *)
(***************************************************************************)
EXTENDS CodecNode, SequencesExt

Line(key, val) == [key |-> key, val |-> val]

(* Lines that start in the first column with a capital letter. *)
HeadKeys == {"Codec", "Address", "Function Id", "AFG Function Id", "MFG Function Id",
             "Vendor Id", "Subsystem Id", "Revision Id", "Modem Function Group",
             "No Modem Function Group", "Default PCM", "Default Amp-In caps",
             "Default Amp-Out caps", "GPIO", "Node", "Head"}

(* Lines of the rest of an alsa-info file: the list of PCI devices, with   *)
(* the ids alone (lspci -n) or behind the names (-nn), the titles of its   *)
(* sections and the contents of sysfs files.                               *)
FileKeys == {"PCI audio", "PCI subsystem", "PCI subsystem nn", "!!", "!!Sysfs Files", "!!--", "sysfs",
             "hint", "digits", "blank", "text"}

----------------------------------------------------------------------------
(* A word of 0 is written as N/A. *)
print_amp_caps(key, word) == <<Line(key, word)>>

(* A node that is not stereo has one value for each index, the right one.  *)
print_amp_vals(c, n, dir, indices) ==
  LET key == IF dir = "out" THEN "Amp-Out vals" ELSE "Amp-In vals"
      val(i) == IF Has(n, "STEREO")
                THEN <<get_amp_gain_mute(c, n, dir, 1, i), get_amp_gain_mute(c, n, dir, 2, i)>>
                ELSE <<get_amp_gain_mute(c, n, dir, 2, i)>>
  IN  <<Line(key, [i \in 1 .. indices |-> val(i - 1)])>>

(* The capabilities give the rates 16 bits and the sample sizes 8. *)
print_pcm_caps(n) ==
  <<Line("rates", par_pcm(n).rates), Line("bits", par_pcm(n).bits % 256),
    Line("formats", par_stream(n) % 16)>>

print_pin_caps(n) ==
  <<Line("Pincap", n.pincap)>>
  \o (IF n.pincap.vref # {} THEN <<Line("Vref caps", 0)>> ELSE <<>>)
  \o (IF "EAPD" \in n.pincap.bits THEN <<Line("EAPD", n.reg["eapd"])>> ELSE <<>>)
  \o <<Line("Pin Default", n.pin_default), Line("Conn", 0), Line("DefAssociation", 0)>>

print_pin_ctls(n) == <<Line("Pin-ctls", n.pinctl)>>

(* The capability parameter is always 0. *)
print_vol_knob(n) == <<Line("Volume-Knob", n.reg["volknob_ctl"])>>

(* The lower half of the stream id is the channel. *)
print_audio_io(n) ==
  <<Line("Converter", n.reg["streamid"])>>
  \o (IF Type(n) = "in" /\ n.reg["streamid"] % 16 = 0
      THEN <<Line("SDI-Select", n.reg["sdi"])>> ELSE <<>>)

(* The bits by name, in this order, and the category without its top bit.  *)
DigitalNames == <<"Enabled", "Validity", "ValidityCfg", "Preemphasis", "Copyright",
                  "Non-Audio", "Pro", "GenLevel">>

print_digital_conv(n) ==
  <<Line("Digital", SelectSeq(DigitalNames, LAMBDA w : w \in get_digi_cvt(n)[1])),
    Line("Digital category", get_digi_cvt(n)[2] % 128)>>

(* The states beyond D3 are all called UNKNOWN; 4 stands for it. *)
get_pwr_state(s) == IF s < 4 THEN s ELSE 4

print_power_state(n) ==
  LET p == get_power_state(n)
  IN  <<Line("Power", <<get_pwr_state(p.setting), get_pwr_state(p.current)>>)>>

print_unsol_cap(n) == <<Line("Unsolicited", n.reg["unsol"])>>

print_proc_caps(n) == <<Line("Processing caps", n.coef)>>

(* The driver asks for the connections word by word. *)
snd_hda_get_connections(n) ==
  FlattenSeq([k \in 1 .. (n.num_nodes + 3) \div 4 |-> get_connect_list(n, 4 * (k - 1))])

(* Only widgets that select one of several connections mark it. *)
print_conn_list(n) ==
  LET conn == snd_hda_get_connections(n)
      curr == IF Len(conn) > 1 /\ Type(n) \notin {"mixer", "vol_knob", "power"}
              THEN n.curr_conn + 1 ELSE 0
  IN  <<Line("Connection", Len(conn))>>
      \o (IF conn = <<>> THEN <<>>
          ELSE <<Line("list", [k \in 1 .. Len(conn) |-> [nid |-> conn[k], star |-> k = curr]])>>)

print_gpio(n) ==
  LET max == n.gpio_cap.io
      io(i) == Line("IO", [i |-> i, on |-> {g \in Gpio : i \in n.gpio[g]}])
  IN  <<Line("GPIO", n.gpio_cap)>>
      \o (IF max > 8 THEN <<>> ELSE [k \in 1 .. max |-> io(k - 1)])
----------------------------------------------------------------------------
(* The node is written as it answers; a volume knob always has a list. *)
print_node(c, n) ==
  LET conns == Has(n, "CONN_LIST") \/ Type(n) = "vol_knob"
      conn_len == IF conns THEN Len(snd_hda_get_connections(n)) ELSE 0
  IN
  <<Line("Node", [nid |-> n.nid, wcaps |-> n.wcaps])>>
  \o (IF ~Has(n, "IN_AMP") THEN <<>>
      ELSE print_amp_caps("Amp-In caps", par_amp_in_cap(c, n))
           \o print_amp_vals(c, n, "in", IF Type(n) = "pin" THEN 1 ELSE conn_len))
  \o (IF ~Has(n, "OUT_AMP") THEN <<>>
      ELSE print_amp_caps("Amp-Out caps", par_amp_out_cap(c, n))
           \o print_amp_vals(c, n, "out",
                IF Type(n) = "pin" /\ c.pin_amp_workaround THEN conn_len ELSE 1))
  \o (CASE Type(n) = "pin" -> print_pin_caps(n) \o print_pin_ctls(n)
        [] Type(n) = "vol_knob" -> print_vol_knob(n)
        [] Type(n) \in {"out", "in"} ->
             print_audio_io(n)
             \o (IF Has(n, "DIGITAL") THEN print_digital_conv(n) ELSE <<>>)
             \o (IF Has(n, "FORMAT_OVRD") THEN <<Line("PCM", 0)>> \o print_pcm_caps(n) ELSE <<>>)
        [] OTHER -> <<>>)
  \o (IF Has(n, "UNSOL_CAP") THEN print_unsol_cap(n) ELSE <<>>)
  \o (IF Has(n, "POWER") THEN print_power_state(n) ELSE <<>>)
  \o (IF conns THEN print_conn_list(n) ELSE <<>>)
  \o (IF Has(n, "PROC_WID") THEN print_proc_caps(n) ELSE <<>>)

(* How a kernel names the function groups: older ones not at all, or with  *)
(* one line, newer ones with a line each.                                  *)
print_function_ids(c, style) ==
  CASE style = "none" -> <<>>
    [] style = "old"  -> <<Line("Function Id", par_function_type(c, AFG))>>
    [] style = "new"  ->
         (IF c.has_afg THEN <<Line("AFG Function Id", 1)>> ELSE <<>>)
         \o (IF c.mfg # 0 THEN <<Line("MFG Function Id", 2)>> ELSE <<>>)

(* The nodes are counted from the first nid on. *)
print_codec_info(c, style) ==
  LET nodes == par_node_count(c)
  IN
  <<Line("Codec", c.parsed_name), Line("Address", c.addr)>>
  \o print_function_ids(c, style)
  \o <<Line("Vendor Id", c.vendor_id), Line("Subsystem Id", c.subsystem_id),
       Line("Revision Id", c.revision_id),
       IF c.mfg # 0 THEN Line("Modem Function Group", c.mfg) ELSE Line("No Modem Function Group", 0)>>
  \o (IF ~c.has_afg THEN <<>>
      ELSE <<Line("Default PCM", 0)>> \o print_pcm_caps(c.afg)
           \o print_amp_caps("Default Amp-In caps", par_amp_in_cap(c, c.afg))
           \o print_amp_caps("Default Amp-Out caps", par_amp_out_cap(c, c.afg))
           \o (IF nodes.count = 0 THEN <<Line("Head", 0)>>
               ELSE print_gpio(c.afg)
                    \o FlattenSeq([k \in 1 .. nodes.count |->
                                     print_node(c, c.nodes[nodes.start + k - 1])])))
=============================================================================
