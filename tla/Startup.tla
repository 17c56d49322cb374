------------------------------ MODULE Startup ------------------------------
(***************************************************************************)
(* The program from its command line to the prompt and a dump: it reads a  *)
(* codec from a file, edits it (fixups, the pin configurations of -P),     *)
(* lets the driver and the user send verbs and list routes, writes the     *)
(* codec with the dump command, and is started again with that file.       *)
(***************************************************************************)
EXTENDS ProcParser, Fixups

CONSTANTS
  Source,    \* the files, a tuple of [before, written, after]: written has
             \* the real codecs, each with the style of the kernel's writer
  Index,     \* arguments of -i; NoIndex for no such option
  PinOption, \* arguments of -P, a tuple of [name, pair]: a pair is given
             \* directly, or by the name of a sysfs entry or of a file
  PinFile,   \* the files that exist, by name: tuples of [key, val]
  Verb,      \* verbs, a tuple of [nid, set, val]
  MaxPinOptions \* bound on the options -P

ASSUME RoomAssumption == MaxConns \in 3 .. 127   \* the longest list of a fixup fits; 32 in the code

ASSUME MaxPinOptionsAssumption == MaxPinOptions \in Nat

(* A file of pins holds comments, the titles of sections, pairs of a pin   *)
(* and its configuration, and lines that are none of these; an entry or a  *)
(* file is named by an option that has no pair.                            *)
ASSUME PinFileAssumption ==
  \A name \in DOMAIN PinFile :
    /\ PinFile[name] \in Seq(Range(PinFile[name]))
    /\ \A k \in DOMAIN PinFile[name] : PinFile[name][k].key \in {"comment", "section", "pair", "junk"}

ASSUME VerbAssumption ==
  \A v \in DOMAIN Verb :
    /\ Verb[v].set \in {"connect_sel", "power_state", "pin_ctl", "digi_cvt_1", "digi_cvt_2", "config_def",
                        "gpio", "reg", "asp", "reset", "dip_index", "dip_data", "pin_sense"}
    /\ Verb[v].set = "connect_sel" => Verb[v].val \in Nat

VARIABLES
  source,      \* the file given to the program
  codec_index, \* the argument of -i
  init_pincfg, \* the indices of the options -P applied so far
  phase,       \* "parse", "parsed", "pins", "up", "changed", "reparse", "end"
               \* or "failed"
  file,        \* the lines being read
  pos,         \* the next of them
  parser,      \* parse_mode, current_node, codec, curidx, pciidx and err
  pins,        \* the lines of an option -P, and how far they have been read
  written      \* the codec as it was when it was read first, or dumped

vars == <<source, codec_index, init_pincfg, phase, file, pos, parser, pins, written>>

proc == parser.codec

Text(s) == s.before
           \o FlattenSeq([k \in DOMAIN s.written |->
                            print_codec_info(s.written[k].codec, s.written[k].style)])
           \o s.after

(* Reading the lines of an option, none of them read so far. *)
ReadFrom(lines) ==
  [lines |-> lines, pos |-> 1, is_fw_file |-> FALSE, is_in_pincfg |-> FALSE, done |-> FALSE]

NoPins == ReadFrom(<<>>)

Init ==
  /\ \E k \in DOMAIN Source : source = Source[k]
  /\ codec_index \in Index
  /\ init_pincfg = <<>>
  /\ phase = "parse"
  /\ file = Text(source)
  /\ pos = 1
  /\ parser = NewParser
  /\ pins = NoPins
  /\ written = BlankCodec
----------------------------------------------------------------------------
Reading == phase \in {"parse", "reparse"}

ReadLine ==
  /\ Reading
  /\ parser.err = "OK"
  /\ pos <= Len(file)
  /\ parser' = parse_line(parser, codec_index, file[pos])
  /\ pos' = pos + 1
  /\ UNCHANGED <<source, codec_index, init_pincfg, phase, file, pins, written>>

(* At the end of the file the codec asked for has been found, or it has    *)
(* less codecs; a codec need not have been found without -i.  A fixup that *)
(* writes behind an array is the end, as in a line.                        *)
EndOfFile ==
  /\ Reading
  /\ parser.err # "OK" \/ pos > Len(file)
  /\ LET err == IF parser.err # "OK" THEN parser.err
                ELSE IF parser.curidx < codec_index THEN "ENODEV"
                ELSE IF FixupOverruns(proc) THEN "fault" ELSE "OK"
     IN  /\ parser' = IF err = "OK" THEN [parser EXCEPT !.codec = add_codec_extensions(@)]
                      ELSE Error(parser, err)
         /\ phase' = CASE err # "OK"        -> "failed"
                       [] phase = "parse"   -> "parsed"
                       [] phase = "reparse" -> "end"
         /\ written' = IF phase = "parse" THEN parser'.codec ELSE written
  /\ UNCHANGED <<source, codec_index, init_pincfg, file, pos, pins>>
----------------------------------------------------------------------------
(* -P *)

(* Pins the codec does not have are ignored. *)
set_pincfg(c, pair) ==
  IF pair[1] = AFG THEN [c EXCEPT !.afg.pin_default = pair[2]]
  ELSE IF pair[1] \in DOMAIN c.nodes THEN [c EXCEPT !.nodes[pair[1]].pin_default = pair[2]]
  ELSE c

\* Mutant: the other sections of a firmware file are read, too.
pincfg_line_any(s) ==
  LET l == s.lines[s.pos]
      next == [s EXCEPT !.pos = @ + 1]
  IN  CASE l.key = "comment" -> next
        [] l.key = "section" /\ (s.is_fw_file \/ l.val = "codec") -> [next EXCEPT !.is_fw_file = TRUE, !.is_in_pincfg = s.is_fw_file]
        [] l.key = "pair" -> next
        [] OTHER -> [next EXCEPT !.done = TRUE]

(* A firmware file starts with a codec section; only its pincfg section is *)
(* read.  In a file that is none the pairs start at once.  A line that is  *)
(* no pair ends the reading.                                               *)
pincfg_line(s) ==
  LET l == s.lines[s.pos]
      next == [s EXCEPT !.pos = @ + 1]
  IN  CASE l.key = "comment" -> next
        [] l.key = "section" /\ s.is_fw_file ->
             IF s.is_in_pincfg THEN [next EXCEPT !.done = TRUE]
             ELSE [next EXCEPT !.is_in_pincfg = l.val = "pincfg"]
        [] l.key \notin {"comment", "section"} /\ s.is_fw_file /\ ~s.is_in_pincfg -> next
        [] l.key = "section" /\ ~s.is_fw_file /\ l.val = "codec" -> [next EXCEPT !.is_fw_file = TRUE]
        [] l.key = "pair" /\ (s.is_fw_file => s.is_in_pincfg) -> next
        [] OTHER -> [next EXCEPT !.done = TRUE]

(* The line is a pair and where pairs are read. *)
IsPinPair(s) == s.lines[s.pos].key = "pair" /\ (s.is_fw_file => s.is_in_pincfg)

(* The entries of a codec that hold pin configurations, by their name. *)
PinEntries(c, name) ==
  {k \in DOMAIN c.sysfs : c.sysfs[k].type = "PINCFG" /\ c.sysfs[k].id = name}

Pairs(vals) == [k \in DOMAIN vals |-> Line("pair", vals[k])]

(* The lines of an option: its own pair, the newest entry of the codec     *)
(* with its name, or the file.                                             *)
OptionLines(c, opt) ==
  LET entries == PinEntries(c, opt.name)
  IN  CASE opt.pair # <<>> -> Pairs(<<opt.pair>>)
        [] opt.pair = <<>> /\ entries # {} -> Pairs(c.sysfs[Least(entries)].vals)
        [] OTHER -> PinFile[opt.name]

(* Main applies the options in their order, and ends with one that cannot  *)
(* be found.                                                               *)
override_pincfg(o) ==
  LET opt == PinOption[o]
      found == opt.pair # <<>> \/ PinEntries(proc, opt.name) # {} \/ opt.name \in DOMAIN PinFile
  IN
  /\ phase = "parsed"
  /\ Len(init_pincfg) < MaxPinOptions
  /\ init_pincfg' = Append(init_pincfg, o)
  /\ \/ found /\ phase' = "pins" /\ pins' = ReadFrom(OptionLines(proc, opt)) /\ UNCHANGED parser
     \/ ~found /\ phase' = "failed" /\ parser' = Error(parser, "EINVAL") /\ UNCHANGED pins
  /\ UNCHANGED <<source, codec_index, file, pos, written>>

PinsRead == pins.done \/ pins.pos > Len(pins.lines)

(* A line of the option. *)
ReadPins ==
  /\ phase = "pins"
  /\ ~PinsRead
  /\ pins' = pincfg_line(pins)
  /\ parser' = IF IsPinPair(pins)
               THEN [parser EXCEPT !.codec = set_pincfg(@, pins.lines[pins.pos].val)] ELSE parser
  /\ UNCHANGED <<source, codec_index, init_pincfg, phase, file, pos, written>>

EndOfPins ==
  /\ phase = "pins"
  /\ PinsRead
  /\ phase' = "parsed"
  /\ pins' = NoPins
  /\ UNCHANGED <<source, codec_index, init_pincfg, file, pos, parser, written>>

StartDriver ==
  /\ phase = "parsed"
  /\ phase' = "up"
  /\ UNCHANGED <<source, codec_index, init_pincfg, file, pos, parser, pins, written>>
----------------------------------------------------------------------------
(* At the prompt *)

(* A verb of the driver or of the user. *)
hda_cmd(v) ==
  /\ phase = "up"
  /\ HasNode(proc, Verb[v].nid)
  /\ parser' = IF Verb[v].nid = AFG
               THEN [parser EXCEPT !.codec.afg = set_verb(@, Verb[v])]
               ELSE [parser EXCEPT !.codec.nodes[Verb[v].nid] = set_verb(@, Verb[v])]
  /\ phase' = "changed"
  /\ UNCHANGED <<source, codec_index, init_pincfg, file, pos, pins, written>>

(* The driver looks for its groups among the nodes the root announces. *)
DriverView(c) ==
  [c EXCEPT !.mfg = IF c.mfg \in 2 .. c.num_widgets /\ par_function_type(c, c.mfg) = 2
                    THEN c.mfg ELSE 0]

(* The program is started again, with no options and the file written.     *)
(* Nodes that are announced and missing would answer with what the last    *)
(* verb left, lists that do not fit with what lies behind them.            *)
NoGap(c) == DOMAIN c.nodes # {} => DOMAIN c.nodes = Least(DOMAIN c.nodes) .. c.num_widgets

hda_log_dump_proc ==
  /\ phase \in {"up", "changed"}
  /\ NoGap(proc) /\ ListsFit(proc)
  /\ written' = proc
  /\ file' = print_codec_info(DriverView(proc), "old")
  /\ pos' = 1
  /\ parser' = NewParser
  /\ phase' = "reparse"
  /\ codec_index' = NoIndex
  /\ init_pincfg' = <<>>
  /\ UNCHANGED <<source, pins>>

Next ==
  \/ ReadLine
  \/ EndOfFile
  \/ \E o \in DOMAIN PinOption : override_pincfg(o)
  \/ ReadPins
  \/ EndOfPins
  \/ StartDriver
  \/ \E v \in DOMAIN Verb : hda_cmd(v)
  \/ hda_log_dump_proc

Spec == Init /\ [][Next]_vars
----------------------------------------------------------------------------
(* Properties *)

(* What a file tells of a node: the values the writer prints and the       *)
(* parser believes.  A node that is not stereo loses its amplifier values, *)
(* a node with connections its number of coefficients, and one with too    *)
(* many connections all of them.                                           *)
Indices(c, n, dir) ==
  LET len == IF Has(n, "CONN_LIST") \/ Type(n) = "vol_knob" THEN n.num_nodes ELSE 0
  IN  IF dir = "in" THEN IF Type(n) = "pin" THEN 1 ELSE len
      ELSE IF Type(n) = "pin" /\ c.pin_amp_workaround THEN len ELSE 1

ToldCaps(flag, n, caps, group) ==
  LET word == IF caps.override THEN caps.word ELSE group.word
  IN  IF (n.nid = AFG \/ Has(n, flag)) /\ word # 0 THEN [override |-> TRUE, word |-> word] ELSE NoCaps

ToldVals(c, n, dir, vals) ==
  [i \in 0 .. MaxConns - 1 |->
     IF Has(n, IF dir = "in" THEN "IN_AMP" ELSE "OUT_AMP") /\ Has(n, "STEREO") /\ i < Indices(c, n, dir)
     THEN vals[i] ELSE <<0, 0>>]

ToldPcm(n) == [rates |-> n.pcm.rates, bits |-> n.pcm.bits % 256, formats |-> n.pcm.formats % 16]

ToldPower(n) ==
  [setting |-> IF n.power.setting < 4 THEN n.power.setting ELSE 0,
   current |-> IF n.power.setting < 4 /\ n.power.current < 4 THEN n.power.current ELSE 0]

Told(c, node) ==
  LET n     == [node EXCEPT !.num_nodes = parse_num_nodes(@)]
      conns == Has(n, "CONN_LIST") \/ Type(n) = "vol_knob"
      pin   == Type(n) = "pin"
      conv  == Type(n) \in {"out", "in"}
  IN  [BlankNode(n.nid, n.wcaps) EXCEPT
         !.pinctl       = IF pin THEN (IF n.pincap = [bits |-> {}, vref |-> {}] THEN n.pinctl
                                       ELSE hda_verify_pin_ctl(n)) ELSE @,
         !.pincap       = IF pin THEN n.pincap ELSE @,
         !.pin_default  = IF pin THEN n.pin_default ELSE @,
         !.pcm          = IF conv /\ Has(n, "FORMAT_OVRD") THEN ToldPcm(n) ELSE @,
         !.amp_in_caps  = ToldCaps("IN_AMP", n, n.amp_in_caps, c.afg.amp_in_caps),
         !.amp_out_caps = ToldCaps("OUT_AMP", n, n.amp_out_caps, c.afg.amp_out_caps),
         !.amp_in_vals  = ToldVals(c, n, "in", n.amp_in_vals),
         !.amp_out_vals = ToldVals(c, n, "out", n.amp_out_vals),
         !.num_nodes    = IF conns THEN n.num_nodes ELSE 0,
         !.node         = [i \in DOMAIN @ |-> IF conns /\ i < n.num_nodes THEN n.node[i] ELSE 0],
         !.curr_conn    = IF conns /\ n.num_nodes > 1 /\ Type(n) \notin {"mixer", "vol_knob", "power"}
                          THEN n.curr_conn ELSE 0,
         !.power        = IF Has(n, "POWER") THEN ToldPower(n) ELSE @,
         !.coef         = IF Has(n, "PROC_WID") /\ ~(conns /\ n.num_nodes > 0) THEN n.coef ELSE @,
         !.dig_conv     = IF conv /\ Has(n, "DIGITAL") THEN n.dig_conv ELSE @,
         !.dig_category = IF conv /\ Has(n, "DIGITAL") THEN n.dig_category % 128 ELSE @]

ToldGroup(c) ==
  LET io == IF DOMAIN c.nodes = {} THEN 0 ELSE c.afg.gpio_cap.io
  IN  IF ~c.has_afg THEN BlankNode(AFG, NoWcaps)
      ELSE [BlankNode(AFG, NoWcaps) EXCEPT
              !.pcm          = ToldPcm(c.afg),
              !.amp_in_caps  = ToldCaps("IN_AMP", c.afg, c.afg.amp_in_caps, c.afg.amp_in_caps),
              !.amp_out_caps = ToldCaps("OUT_AMP", c.afg, c.afg.amp_out_caps, c.afg.amp_out_caps),
              !.gpio_cap     = IF DOMAIN c.nodes = {} THEN @ ELSE c.afg.gpio_cap,
              !.gpio         = [g \in Gpio |-> IF io > 8 THEN {} ELSE c.afg.gpio[g] \cap (0 .. io - 1)]]

ToldCodec(c, style) ==
  [BlankCodec EXCEPT
     !.parsed_name = c.parsed_name, !.addr = c.addr, !.vendor_id = c.vendor_id,
     !.subsystem_id = c.subsystem_id, !.revision_id = c.revision_id, !.mfg = c.mfg,
     !.function_id = IF style = "old" THEN 1 ELSE 0,
     !.num_widgets = CHOOSE k \in {1} \cup DOMAIN c.nodes : \A m \in DOMAIN c.nodes : m <= k,
     !.afg = ToldGroup(c),
     !.nodes = [nid \in DOMAIN c.nodes |-> Told(c, c.nodes[nid])]]

(* The codecs that are taken for modems: by the line of the modem group    *)
(* if none told of another group, or at the next codec if there is no      *)
(* widget above the group.                                                 *)
Codecs == source.written

ByLine(k) == Codecs[k].codec.mfg # 0 /\ Codecs[k].style # "old" /\ ~Whitelisted(Codecs[k].codec.vendor_id)

ByEnd(k) == /\ ~ByLine(k)
            /\ Codecs[k].codec.mfg # 0
            /\ ~Whitelisted(Codecs[k].codec.vendor_id)
            /\ \A nid \in DOMAIN Codecs[k].codec.nodes : nid <= Codecs[k].codec.mfg
            /\ k < Len(Codecs)

Audio == {k \in DOMAIN Codecs : ~ByLine(k) /\ ~ByEnd(k)}

(* The codecs nothing makes room for: a list the parser believes and a     *)
(* node cannot hold, or a mixer that a fixup adds to and that is full.     *)
Overlong(k) ==
  LET c == Codecs[k].codec
  IN  \/ \E nid \in DOMAIN c.nodes : parse_num_nodes(c.nodes[nid].num_nodes) > MaxConns
      \/ FixupOverruns(c)

(* The error and the codec, 0 for none, that the command line asks for. *)
Asked ==
  LET k == IF codec_index # NoIndex THEN codec_index + 1 ELSE IF Audio = {} THEN 0 ELSE Least(Audio)
  IN  [err |-> CASE k > Len(Codecs) -> "ENODEV"
                 [] k \in DOMAIN Codecs /\ ByLine(k) -> "EBADFD"
                 [] k \in Audio /\ Overlong(k) -> "fault"
                 [] OTHER -> "OK",
       codec |-> IF k \in Audio THEN k ELSE 0]

(* A node announces no more connections than parse_num_nodes believes, and *)
(* the selected one exists (set_connect_sel refuses others, parse_conns    *)
(* marks one of the list), but for the nodes of S.                         *)
NodeOK(n, nid, S) ==
  /\ n.nid = nid
  /\ n.num_nodes \in 0 .. 127
  /\ n.curr_conn = 0 \/ n.curr_conn \in 0 .. n.num_nodes - 1 \/ nid \in S

(* The current node is one of the codec, and there is one whenever a list  *)
(* is read.                                                                *)
ParserOK(p, S) ==
  /\ p.mode \in {"START", "POST", "SYSFS"} \cup ReadModes
  /\ p.err \in {"OK", "EBADFD", "ENOMEM", "ENODEV", "EINVAL", "fault"}
  /\ \A nid \in DOMAIN p.codec.nodes : NodeOK(p.codec.nodes[nid], nid, S)
  /\ p.node \in DOMAIN p.codec.nodes \cup {NoCurrent}
  /\ p.mode = "NODE_CONNECTIONS" => p.node # NoCurrent

(* The state is what the parser, the options and the verbs can make of it: *)
(* whatever the file holds, no selection points behind its list unless a   *)
(* fixup replaced the list.                                                *)
TypeOK ==
  /\ codec_index \in Index \cup {NoIndex}
  /\ init_pincfg \in Seq(DOMAIN PinOption) /\ Len(init_pincfg) <= MaxPinOptions
  /\ phase \in {"parse", "parsed", "pins", "up", "changed", "reparse", "end", "failed"}
  /\ {pos, pins.pos} \subseteq Nat \ {0}
  /\ ParserOK(parser, IF Reading THEN {} ELSE Replaced(proc))

(* The PCI ids of the card with the number asked for, or of the first.     *)
(* With names only the first and second can be asked for, since a card     *)
(* that is passed over is not counted.                                     *)
PciAsked ==
  LET named == {l \in Range(source.before) : l.key = "PCI subsystem nn"} # {}
      Ids(keys) == SelectSeq(source.before, LAMBDA l : l.key \in keys)
      card == IF named /\ codec_index > 1 THEN 1 ELSE codec_index + 1
      id(keys) == IF Ids(keys) = <<>> THEN 0
                  ELSE Ids(keys)[IF card \in DOMAIN Ids(keys) THEN card ELSE 1].val
  IN  [card |-> id({"PCI audio"}), sub |-> id({"PCI subsystem", "PCI subsystem nn"})]

(* The first codec that is not taken for a modem is read, or the one of    *)
(* -i, and from no other codec of the file anything is left in it; an      *)
(* index that is too large or a modem's ends the program, and so does a    *)
(* list that the parser or a fixup writes behind its array.  What is read  *)
(* of a codec is all that its file tells, and then the fixups.             *)
RightCodec ==
  /\ phase = "failed" /\ init_pincfg = <<>> => parser.err = Asked.err /\ parser.err # "OK"
  /\ phase = "parsed" =>
       /\ Asked.err = "OK"
       /\ Asked.codec = 0 => DOMAIN proc.nodes = {}
       /\ Asked.codec # 0 /\ init_pincfg = <<>> =>
            LET w == Codecs[Asked.codec]
            IN  [proc EXCEPT !.sysfs = <<>>]
                  = [add_codec_extensions(ToldCodec(w.codec, w.style)) EXCEPT !.pci = PciAsked]

(* The program started with the dump of a codec, changed by verbs or not,  *)
(* reads the codec back as far as a file tells of it: values, default      *)
(* configurations, connections and selections survive the dump, and the    *)
(* fixups applied to an edited codec leave it as it is.                    *)
ReadBack ==
  phase = "end" =>
    /\ proc = add_codec_extensions(ToldCodec(DriverView(written), "old"))
    /\ \A nid \in DOMAIN proc.nodes :
         LET n == proc.nodes[nid]
         IN  /\ Type(n) = "pin" => n.pin_default = written.nodes[nid].pin_default
             /\ Has(n, "CONN_LIST") => /\ n.num_nodes = written.nodes[nid].num_nodes
                                       /\ Connected(n) = Connected(written.nodes[nid])

(* The lines of an option that count, by their places: in a firmware file  *)
(* the pairs of its first pincfg section, in another those from its start, *)
(* up to the first line that is none.                                      *)
Section(l, name) == l.key = "section" /\ l.val = name
Firmware(lines, k) == \E j \in 1 .. k : Section(lines[j], "codec")
Title(lines, k) == Firmware(lines, k) /\ Section(lines[k], "pincfg")
Inside(lines, k) ==
  \/ ~Firmware(lines, k)
  \/ \E j \in 1 .. k - 1 : Title(lines, j) /\ \A m \in j + 1 .. k : lines[m].key # "section"
Ends(lines, k) ==
  \/ Inside(lines, k) /\ lines[k].key = "junk"
  \/ ~Firmware(lines, k) /\ lines[k].key = "section"
  \/ lines[k].key = "section" /\ \E j \in 1 .. k - 1 : Title(lines, j)
Counts(lines, k) ==
  lines[k].key = "pair" /\ Inside(lines, k) /\ \A j \in 1 .. k : ~Ends(lines, j)

(* The places where lines before the k-th name a pin. *)
Naming(lines, k, nid) == {j \in 1 .. k - 1 : Counts(lines, j) /\ lines[j].val[1] = nid}

LastOf(S) == CHOOSE k \in S : \A j \in S : j <= k

(* What an option says of a pin, and where.                                *)
OptionNames(c, o, nid) ==
  LET lines == OptionLines(c, PinOption[o]) IN Naming(lines, Len(lines) + 1, nid)

OptionSays(c, o, nid) == OptionLines(c, PinOption[o])[LastOf(OptionNames(c, o, nid))].val[2]

(* The default configuration of a pin is that of the last option that      *)
(* names the pin, whatever came between, and without one that of the file. *)
InitPinsOverride ==
  phase = "parsed" =>
    \A nid \in DOMAIN proc.nodes \ {AFG} :
      LET by == {k \in DOMAIN init_pincfg : OptionNames(proc, init_pincfg[k], nid) # {}}
      IN  proc.nodes[nid].pin_default =
            IF by = {} THEN written.nodes[nid].pin_default ELSE OptionSays(proc, init_pincfg[LastOf(by)], nid)
=============================================================================
