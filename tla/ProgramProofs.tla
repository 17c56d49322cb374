--------------------------- MODULE ProgramProofs ---------------------------
(***************************************************************************)
(* The program around the driver.  Startup, for any files, options and     *)
(* verbs: the last option that names a pin decides, and what the parser,   *)
(* the fixups and the verbs do keeps each list within its node.  Shell,    *)
(* for any options, input, works and size of the table: what the program   *)
(* knows as hints is what it was told last, and pending work is not lost.  *)
(***************************************************************************)
EXTENDS Startup, Shell, FiniteSetTheorems, WellFoundedInduction, TLAPS

(* What the proofs need of the records: the fields that are followed, and  *)
(* that the entries of the codec hold lists.                               *)
NodeFields == {"nid", "num_nodes", "curr_conn", "node", "pin_default"}

CodecFields == {"nodes", "num_widgets", "mfg", "parsed_name", "sysfs", "afg", "vendor_id"}

ParserFields == {"mode", "node", "codec", "curidx", "pciidx", "err"}

IsNode(n) == NodeFields \subseteq DOMAIN n

IsEntry(e) == "vals" \in DOMAIN e /\ \E S : e.vals \in Seq(S)

IsSysfs(list) == (\E S : list \in Seq(S)) /\ \A k \in DOMAIN list : IsEntry(list[k])

IsCodec(c) ==
  /\ CodecFields \subseteq DOMAIN c
  /\ \A nid \in DOMAIN c.nodes : IsNode(c.nodes[nid])
  /\ IsSysfs(c.sysfs)

IsParser(p) == ParserFields \subseteq DOMAIN p /\ IsCodec(p.codec)

(* The node being read has nothing selected.                               *)
Fit(p) == ParserOK(p, {}) /\ (p.node # NoCurrent => p.codec.nodes[p.node].curr_conn = 0)

(* A line that was read leaves a parser, and one as ParserOK has it.       *)
Kept(p, q) == IsParser(q) /\ (Fit(p) => Fit(q))

(* Lines of a node: its nid stays.                                         *)
LEMMA ItemShape ==
  ASSUME NEW n, IsNode(n), NEW l
  PROVE  IsNode(parse_item(n, l)) /\ parse_item(n, l).nid = n.nid /\ parse_item(n, l).curr_conn = n.curr_conn
<1> USE DEF IsNode, NodeFields
<1>1. CASE l.key = "Pin-ctls"
  BY <1>1 DEF parse_item, parse_pin_ctls
<1>2. QED
  BY <1>1 DEF parse_item

(* A line of a node leaves it with a number of connections that is believed. *)
LEMMA ItemFits ==
  ASSUME NEW n, NEW nid, IsNode(n), NodeOK(n, nid, {}), n.curr_conn = 0, NEW l
  PROVE  NodeOK(parse_item(n, l), nid, {}) /\ parse_item(n, l).curr_conn = 0
<1> USE DEF IsNode, NodeFields, NodeOK
<1>1. CASE l.key = "Connection"
  BY <1>1 DEF parse_item, parse_num_nodes
<1>2. CASE l.key = "Pin-ctls"
  BY <1>2 DEF parse_item, parse_pin_ctls
<1>3. QED
  BY <1>1, <1>2 DEF parse_item

(* One node is replaced.                                                   *)
LEMMA NodeReplaced ==
  ASSUME NEW c, IsCodec(c), NEW nid, NEW n, nid \in DOMAIN c.nodes => IsNode(n)
  PROVE  /\ IsCodec([c EXCEPT !.nodes[nid] = n])
         /\ DOMAIN [c EXCEPT !.nodes[nid] = n] = DOMAIN c
         /\ DOMAIN [c EXCEPT !.nodes[nid] = n].nodes = DOMAIN c.nodes
         /\ \A m \in DOMAIN c.nodes :
              [c EXCEPT !.nodes[nid] = n].nodes[m] = IF m = nid THEN n ELSE c.nodes[m]
         /\ [c EXCEPT !.nodes[nid] = n].sysfs = c.sysfs
BY DEF IsCodec, CodecFields

(* The codec of the parser gets another mode, node or error.               *)
LEMMA CodecReplaced ==
  ASSUME NEW p, IsParser(p), NEW c, IsCodec(c)
  PROVE  IsParser([p EXCEPT !.codec = c]) /\ [p EXCEPT !.codec = c].codec = c
BY DEF IsParser, ParserFields

(* The parser ends with an error.                                          *)
LEMMA ErrorKeeps ==
  ASSUME NEW p, IsParser(p), NEW err \in {"OK", "EBADFD", "ENOMEM", "ENODEV", "EINVAL", "fault"}
  PROVE  Kept(p, [p EXCEPT !.err = err])
BY DEF Kept, IsParser, ParserFields, Fit, ParserOK

(* The node being read is replaced by one that is right.                   *)
LEMMA CurrentReplaced ==
  ASSUME NEW p, IsParser(p), p.node # NoCurrent, NEW n,
         p.node \in DOMAIN p.codec.nodes => IsNode(n)
  PROVE  LET q == [p EXCEPT !.codec.nodes[p.node] = n]
         IN  /\ IsParser(q) /\ q.mode = p.mode /\ q.node = p.node
             /\ p.node \in DOMAIN p.codec.nodes => q.codec.nodes[p.node] = n
             /\ Fit(p) /\ (p.node \in DOMAIN p.codec.nodes => NodeOK(n, p.node, {}) /\ n.curr_conn = 0) => Fit(q)
<1> DEFINE c == [p.codec EXCEPT !.nodes[p.node] = n]
           q == [p EXCEPT !.codec = c]
<1>1. IsCodec(c) /\ DOMAIN c.nodes = DOMAIN p.codec.nodes
      /\ \A m \in DOMAIN c.nodes : c.nodes[m] = IF m = p.node THEN n ELSE p.codec.nodes[m]
  <2>1. IsCodec(p.codec)
    BY DEF IsParser
  <2>2. QED
    BY <2>1, NodeReplaced
<1> HIDE DEF c
<1>2. /\ IsParser(q) /\ q.codec = c /\ q.mode = p.mode /\ q.node = p.node /\ q.err = p.err
  BY <1>1 DEF IsParser, ParserFields
<1>3. Fit(p) /\ (p.node \in DOMAIN p.codec.nodes => NodeOK(n, p.node, {}) /\ n.curr_conn = 0) => Fit(q)
  BY <1>1, <1>2 DEF Fit, ParserOK
<1>4. [p EXCEPT !.codec.nodes[p.node] = n] = q
  BY DEF c
<1> HIDE DEF q
<1>5. QED
  BY <1>1, <1>2, <1>3, <1>4

(* A line of the node the parser is in, or of none (parse_node_items).     *)
LEMMA ItemsKeep ==
  ASSUME NEW p, IsParser(p), p.mode = "NODE", NEW l
  PROVE  Kept(p, parse_node_items(p, l))
<1> DEFINE n == parse_item(p.codec.nodes[p.node], l)
           q == IF p.node = NoCurrent THEN p ELSE [p EXCEPT !.codec.nodes[p.node] = n]
<1>1. CASE Stores(l) /\ (p.node = NoCurrent \/ TooManyVals(l))
  BY <1>1, ErrorKeeps DEF parse_node_items, Fault, Error
<1>2. CASE ~(Stores(l) /\ (p.node = NoCurrent \/ TooManyVals(l)))
  <2>1. IsParser(q) /\ q.mode = "NODE" /\ q.node = p.node /\ (Fit(p) => Fit(q))
    <3>1. CASE p.node = NoCurrent
      BY <3>1
    <3>2. CASE p.node # NoCurrent
      <4>1. p.node \in DOMAIN p.codec.nodes => IsNode(n)
        BY ItemShape DEF IsParser, IsCodec
      <4>2. Fit(p) => (p.node \in DOMAIN p.codec.nodes => NodeOK(n, p.node, {}) /\ n.curr_conn = 0)
        BY <3>2, ItemFits DEF Fit, ParserOK, IsParser, IsCodec
      <4> HIDE DEF n
      <4>3. QED
        BY <3>2, <4>1, <4>2, CurrentReplaced
    <3>3. QED
      BY <3>1, <3>2
  <2>2. /\ parse_node_items(p, l) \in {q, [q EXCEPT !.mode = "NODE_PCM"], [q EXCEPT !.mode = "NODE_CONNECTIONS"]}
        /\ parse_node_items(p, l) = [q EXCEPT !.mode = "NODE_CONNECTIONS"] => p.node # NoCurrent \/ q.mode = "NODE_CONNECTIONS"
    <3>1. l.key = "Connection" => Stores(l)
      BY DEF Stores
    <3>2. [q EXCEPT !.mode = "NODE_CONNECTIONS"].mode = "NODE_CONNECTIONS" /\ [q EXCEPT !.mode = "NODE_PCM"].mode = "NODE_PCM"
      BY <2>1 DEF IsParser, ParserFields
    <3> HIDE DEF q
    <3>3. parse_node_items(p, l) = CASE l.key = "PCM" -> [q EXCEPT !.mode = "NODE_PCM"]
             [] l.key = "Connection" /\ parse_num_nodes(l.val) > 0 -> [q EXCEPT !.mode = "NODE_CONNECTIONS"]
             [] OTHER -> q
      BY <1>2 DEF parse_node_items, q
    <3>4. QED
      BY <1>2, <2>1, <3>1, <3>2, <3>3
  <2> HIDE DEF q
  <2>3. ASSUME NEW m \in {"NODE_PCM", "NODE_CONNECTIONS"}, m = "NODE_CONNECTIONS" => p.node # NoCurrent
        PROVE  Kept(p, [q EXCEPT !.mode = m])
    BY <2>1, <2>3 DEF Kept, IsParser, ParserFields, Fit, ParserOK, NodeModes, ReadModes
  <2>4. QED
    BY <2>1, <2>2, <2>3 DEF Kept
<1>3. QED
  BY <1>1, <1>2

(* A node that is new to the codec (create_node).                          *)
LEMMA CreateKeeps ==
  ASSUME NEW p, IsParser(p), NEW nid, NEW w, nid \notin DOMAIN p.codec.nodes
  PROVE  IsParser(create_node(p, nid, w)) /\ (Fit(p) => Fit(create_node(p, nid, w)))
<1> DEFINE b == BlankNode(nid, w)
           c == [p.codec EXCEPT !.nodes = [k \in DOMAIN @ \cup {nid} |-> IF k = nid THEN b ELSE @[k]],
                                !.num_widgets = IF nid > @ THEN nid ELSE @]
<1>1. IsNode(b) /\ NodeOK(b, nid, {}) /\ b.curr_conn = 0
  BY DEF IsNode, NodeFields, NodeOK, BlankNode
<1>2. DOMAIN c.nodes = DOMAIN p.codec.nodes \cup {nid} /\ c.nodes[nid] = b
      /\ \A k \in DOMAIN p.codec.nodes : c.nodes[k] = p.codec.nodes[k]
  BY DEF IsParser, IsCodec, CodecFields
<1>3. DOMAIN c = DOMAIN p.codec /\ c.sysfs = p.codec.sysfs
  BY DEF IsParser, IsCodec, CodecFields
<1>4. create_node(p, nid, w) = [p EXCEPT !.codec = c, !.node = nid, !.mode = "NODE"]
  BY DEF create_node, IsParser, ParserFields
<1> HIDE DEF c, b
<1>5. IsCodec(c)
  BY <1>1, <1>2, <1>3 DEF IsParser, IsCodec
<1>6. IsParser(create_node(p, nid, w))
  BY <1>4, <1>5 DEF IsParser, ParserFields
<1>7. Fit(p) => Fit(create_node(p, nid, w))
  BY <1>1, <1>2, <1>4 DEF IsParser, ParserFields, Fit, ParserOK, NodeModes, ReadModes
<1>8. QED
  BY <1>6, <1>7

(* Among the marks of a list is a last one.                                *)
LEMMA LastMark ==
  ASSUME NEW m \in Nat, NEW S, S \subseteq 0 .. m - 1, S # {}
  PROVE  \E i \in S : \A j \in S : j <= i
<1> DEFINE D == {k \in Nat : m - k \in S}
<1>1. D \in SUBSET Nat /\ D # {}
  <2>1. PICK i \in S : i \in 0 .. m - 1
    OBVIOUS
  <2>2. m - i \in Nat /\ m - (m - i) = i
    BY <2>1
  <2>3. QED
    BY <2>1, <2>2
<1>2. PICK k \in D : \A j \in D : ~(<<j, k>> \in OpToRel(<, Nat))
  BY <1>1, NatLessThanWellFounded, WFMin
<1>3. \A j \in D : <<j, k>> \in OpToRel(<, Nat) <=> j < k
  BY <1>1, Zenon DEF OpToRel
<1>4. \A j \in D : ~(j < k)
  BY <1>2, <1>3, Zenon
<1>5. \A j \in S : j \in Int /\ m - j \in D
  <2>1. \A j \in S : j \in 0 .. m - 1 /\ m - j \in Nat /\ m - (m - j) = j
    OBVIOUS
  <2>2. QED
    BY <2>1
<1>6. k \in Nat /\ m - k \in S /\ \A j \in S : ~(m - j < k)
  BY <1>4, <1>5
<1>7. QED
  BY <1>5, <1>6

(* The selected connection is one of the list that is read.                *)
LEMMA ConnsFit ==
  ASSUME NEW n, NEW nid, IsNode(n), NodeOK(n, nid, {}), n.curr_conn = 0, NEW l
  PROVE  NodeOK(parse_conns(n, l), nid, {})
<1> DEFINE has(i) == l.key = "list" /\ i + 1 \in DOMAIN l.val
           stars == {i \in 0 .. n.num_nodes - 1 : has(i) /\ l.val[i + 1].star}
           curr == IF stars = {} THEN 0 ELSE CHOOSE i \in stars : \A j \in stars : j <= i
<1>1. n.num_nodes \in Nat
  BY DEF NodeOK
<1>2. curr = 0 \/ curr \in 0 .. n.num_nodes - 1
  <2>1. CASE stars = {}
    BY <2>1
  <2>2. CASE stars # {}
    <3>1. \E i \in stars : \A j \in stars : j <= i
      BY <1>1, <2>2, LastMark
    <3>2. QED
      BY <2>2, <3>1
  <2>3. QED
    BY <2>1, <2>2
<1>3. /\ DOMAIN parse_conns(n, l) = DOMAIN n /\ parse_conns(n, l).nid = n.nid
      /\ parse_conns(n, l).num_nodes = n.num_nodes /\ parse_conns(n, l).curr_conn = curr
  BY DEF parse_conns, NodeOK, IsNode, NodeFields
<1>4. QED
  BY <1>2, <1>3 DEF NodeOK

(* Behind the list the parser is at no node.                               *)
LEMMA ConnectionsKeep ==
  ASSUME NEW p, IsParser(p), p.mode = "NODE_CONNECTIONS", NEW l
  PROVE  Kept(p, parse_node_connections(p, l))
<1> DEFINE n == parse_conns(p.codec.nodes[p.node], l)
           c == [p.codec EXCEPT !.nodes[p.node] = n]
<1>1. CASE p.codec.nodes[p.node].num_nodes > MaxConns
  BY <1>1, ErrorKeeps DEF parse_node_connections, Fault, Error
<1>2. CASE ~(p.codec.nodes[p.node].num_nodes > MaxConns)
  <2>1. IsCodec(c) /\ DOMAIN c.nodes = DOMAIN p.codec.nodes
        /\ \A m \in DOMAIN c.nodes : c.nodes[m] = IF m = p.node THEN n ELSE p.codec.nodes[m]
    <3>1. p.node \in DOMAIN p.codec.nodes => IsNode(n)
      BY DEF IsParser, IsCodec, parse_conns, IsNode
    <3>2. IsCodec(p.codec)
      BY DEF IsParser
    <3> HIDE DEF n
    <3>3. QED
      BY <3>1, <3>2, NodeReplaced
  <2>2. parse_node_connections(p, l) = [p EXCEPT !.codec = c, !.mode = "ROOT", !.node = NoCurrent]
    BY <1>2 DEF parse_node_connections
  <2>3. Fit(p) => NodeOK(n, p.node, {})
    <3>1. Fit(p) => p.node \in DOMAIN p.codec.nodes /\ p.codec.nodes[p.node].curr_conn = 0
      BY DEF Fit, ParserOK
    <3>2. QED
      BY <3>1, ConnsFit DEF Fit, ParserOK, IsParser, IsCodec
  <2> HIDE DEF c, n
  <2>4. QED
    BY <2>1, <2>2, <2>3 DEF Kept, IsParser, ParserFields, Fit, ParserOK, NodeModes, ReadModes
<1>3. QED
  BY <1>1, <1>2

(* Any line that is no format is one of the node.                          *)
LEMMA PcmKeeps ==
  ASSUME NEW p, IsParser(p), p.mode = "NODE_PCM", NEW l
  PROVE  Kept(p, parse_node_pcm(p, l))
<1>1. CASE ~IsPcmItem(l)
  <2> DEFINE q == [p EXCEPT !.mode = "NODE"]
  <2>1. Kept(p, q) /\ q.mode = "NODE" /\ parse_node_pcm(p, l) = parse_node_items(q, l)
    BY <1>1 DEF Kept, IsParser, ParserFields, Fit, ParserOK, NodeModes, ReadModes, parse_node_pcm
  <2> HIDE DEF q
  <2>2. QED
    BY <2>1, ItemsKeep DEF Kept
<1>2. CASE IsPcmItem(l) /\ p.node = NoCurrent
  BY <1>2, ErrorKeeps DEF parse_node_pcm, Fault, Error
<1>3. CASE IsPcmItem(l) /\ p.node # NoCurrent
  <2> DEFINE n == [p.codec.nodes[p.node] EXCEPT !.pcm = parse_pcm_items(@, l)]
  <2>1. p.node \in DOMAIN p.codec.nodes =>
          /\ IsNode(n) /\ n.curr_conn = p.codec.nodes[p.node].curr_conn
          /\ NodeOK(p.codec.nodes[p.node], p.node, {}) => NodeOK(n, p.node, {})
    BY DEF IsParser, IsCodec, IsNode, NodeFields, NodeOK
  <2>2. Fit(p) => (p.node \in DOMAIN p.codec.nodes => NodeOK(n, p.node, {}) /\ n.curr_conn = 0)
    BY <1>3, <2>1 DEF Fit, ParserOK
  <2>3. parse_node_pcm(p, l) = [p EXCEPT !.codec.nodes[p.node] = n]
    BY <1>3 DEF parse_node_pcm
  <2> HIDE DEF n
  <2>4. QED
    BY <1>3, <2>1, <2>2, <2>3, CurrentReplaced DEF Kept
<1>4. QED
  BY <1>1, <1>2, <1>3

(* A field of the codec that is not followed.                              *)
LEMMA FieldReplaced ==
  ASSUME NEW p, IsParser(p), NEW f, f \notin {"nodes", "sysfs"}, NEW v
  PROVE  /\ IsParser([p EXCEPT !.codec[f] = v])
         /\ Fit(p) => Fit([p EXCEPT !.codec[f] = v])
BY DEF IsParser, ParserFields, IsCodec, CodecFields, Fit, ParserOK

(* A change of mode to one that has no node.                               *)
LEMMA ModeReplaced ==
  ASSUME NEW p, IsParser(p), NEW m \in {"START", "POST", "SYSFS", "ROOT", "DEFAULT_PCM", "GPIO"}
  PROVE  /\ IsParser([p EXCEPT !.mode = m])
         /\ Fit(p) => Fit([p EXCEPT !.mode = m])
BY DEF IsParser, ParserFields, Fit, ParserOK, NodeModes, ReadModes

(* The GPIO of the node being read, or of the group.                       *)
LEMMA GpioNodeReplaced ==
  ASSUME NEW p, IsParser(p), NEW n,
         \A f \in NodeFields : f \in DOMAIN GpioNode(p) => f \in DOMAIN n /\ n[f] = GpioNode(p)[f]
  PROVE  Kept(p, SetGpioNode(p, n)) /\ SetGpioNode(p, n).mode = p.mode
<1>1. CASE p.node = NoCurrent
  <2>1. SetGpioNode(p, n) = [p EXCEPT !.codec["afg"] = n]
    BY <1>1 DEF SetGpioNode
  <2>2. [p EXCEPT !.codec["afg"] = n].mode = p.mode
    BY DEF IsParser, ParserFields
  <2>3. QED
    BY <2>1, <2>2, FieldReplaced DEF Kept
<1>2. CASE p.node # NoCurrent
  <2>1. GpioNode(p) = p.codec.nodes[p.node]
    BY <1>2 DEF GpioNode
  <2>2. p.node \in DOMAIN p.codec.nodes => IsNode(n) /\ n.nid = p.codec.nodes[p.node].nid
          /\ n.num_nodes = p.codec.nodes[p.node].num_nodes /\ n.curr_conn = p.codec.nodes[p.node].curr_conn
    BY <2>1 DEF IsParser, IsCodec, IsNode, NodeFields
  <2>3. Fit(p) => (p.node \in DOMAIN p.codec.nodes => NodeOK(n, p.node, {}) /\ n.curr_conn = 0)
    BY <1>2, <2>2 DEF Fit, ParserOK, NodeOK
  <2>4. QED
    BY <1>2, <2>2, <2>3, CurrentReplaced DEF Kept, SetGpioNode
<1>3. QED
  BY <1>1, <1>2

(* A line behind the GPIO line (parse_gpio_items).                         *)
LEMMA GpioKeeps ==
  ASSUME NEW p, IsParser(p), NEW l
  PROVE  Kept(p, parse_gpio_items(p, l))
<1>1. CASE l.key = "IO"
  <2>1. PICK m, n : m = GpioNode(p) /\ n = AddGpio(m, l.val)
    OBVIOUS
  <2>2. \A f \in NodeFields : f \in DOMAIN m => f \in DOMAIN n /\ n[f] = m[f]
    BY <2>1 DEF AddGpio, NodeFields
  <2>3. parse_gpio_items(p, l) = SetGpioNode(p, n)
    BY <1>1, <2>1 DEF parse_gpio_items
  <2>4. QED
    BY <2>1, <2>2, <2>3, GpioNodeReplaced
<1>2. CASE l.key # "IO"
  <2> DEFINE q == [p EXCEPT !.mode = "NODE"]
  <2>1. Kept(p, q) /\ q.mode = "NODE" /\ parse_gpio_items(p, l) = parse_node_items(q, l)
    BY <1>2 DEF Kept, IsParser, ParserFields, Fit, ParserOK, NodeModes, ReadModes, parse_gpio_items
  <2> HIDE DEF q
  <2>2. QED
    BY <2>1, ItemsKeep DEF Kept
<1>3. QED
  BY <1>1, <1>2

(* A line that starts a node (parse_node).                                 *)
LEMMA NodeKeeps ==
  ASSUME NEW p, IsParser(p), p.mode = "ROOT", NEW l
  PROVE  IsParser(parse_node(p, l)) /\ (Fit(p) => Fit(parse_node(p, l)))
<1>1. CASE l.val.nid \in DOMAIN p.codec.nodes
  BY <1>1 DEF parse_node, Error, IsParser, ParserFields, Fit, ParserOK, NodeModes, ReadModes
<1>2. CASE l.val.nid \notin DOMAIN p.codec.nodes
  BY <1>2, CreateKeeps DEF parse_node
<1>3. QED
  BY <1>1, <1>2

(* A line of the codec itself (parse_root).                                *)
LEMMA RootKeeps ==
  ASSUME NEW p, IsParser(p), p.mode = "ROOT", NEW l
  PROVE  IsParser(parse_root(p, l)) /\ (Fit(p) => Fit(parse_root(p, l)))
<1>1. CASE l.key = "Node"
  BY <1>1, NodeKeeps DEF parse_root
<1>2. CASE l.key = "Modem Function Group"
  <2> DEFINE q == [p EXCEPT !.codec["mfg"] = l.val]
  <2>1. IsParser(q) /\ (Fit(p) => Fit(q)) /\ q.mode = p.mode
    BY FieldReplaced DEF IsParser, ParserFields
  <2>2. parse_root(p, l) \in {q, Error(q, "EBADFD")}
    BY <1>2 DEF parse_root
  <2> HIDE DEF q
  <2>3. QED
    BY <2>1, <2>2 DEF Error, IsParser, ParserFields, Fit, ParserOK
<1>3. CASE l.key = "GPIO"
  <2>1. PICK m, n, q : m = GpioNode(p) /\ n = [m EXCEPT !.gpio_cap = l.val] /\ q = SetGpioNode(p, n)
    OBVIOUS
  <2>2. \A f \in NodeFields : f \in DOMAIN m => f \in DOMAIN n /\ n[f] = m[f]
    BY <2>1 DEF NodeFields
  <2>3. IsParser(q) /\ (Fit(p) => Fit(q))
    BY <2>1, <2>2, GpioNodeReplaced DEF Kept
  <2>4. parse_root(p, l) = [q EXCEPT !.mode = "GPIO"]
    BY <1>3, <2>1 DEF parse_root, parse_gpio
  <2>5. QED
    BY <2>3, <2>4, ModeReplaced
<1>4. CASE l.key = "Default PCM"
  <2>1. parse_root(p, l) = [p EXCEPT !.mode = "DEFAULT_PCM"]
    BY <1>4 DEF parse_root
  <2>2. QED
    BY <2>1, ModeReplaced
<1>5. CASE l.key \notin {"Node", "Modem Function Group", "GPIO", "Default PCM"}
  <2>1. \E f \in {"addr", "function_id", "vendor_id", "subsystem_id", "revision_id", "afg"} : \E v :
          parse_root(p, l) \in {p, [p EXCEPT !.codec[f] = v]}
    <3>1. CASE l.key = "Address"
      <4>1. parse_root(p, l) = [p EXCEPT !.codec["addr"] = l.val]
        BY <3>1 DEF parse_root
      <4>2. QED
        BY <4>1
    <3>2. CASE l.key = "Function Id"
      <4>1. parse_root(p, l) = [p EXCEPT !.codec["function_id"] = 1]
        BY <3>2 DEF parse_root
      <4>2. QED
        BY <4>1
    <3>3. CASE l.key = "Vendor Id"
      <4>1. parse_root(p, l) = [p EXCEPT !.codec["vendor_id"] = l.val]
        BY <3>3 DEF parse_root
      <4>2. QED
        BY <4>1
    <3>4. CASE l.key = "Subsystem Id"
      <4>1. parse_root(p, l) = [p EXCEPT !.codec["subsystem_id"] = l.val]
        BY <3>4 DEF parse_root
      <4>2. QED
        BY <4>1
    <3>5. CASE l.key = "Revision Id"
      <4>1. parse_root(p, l) = [p EXCEPT !.codec["revision_id"] = l.val]
        BY <3>5 DEF parse_root
      <4>2. QED
        BY <4>1
    <3>6. CASE l.key = "Default Amp-In caps"
      <4> DEFINE a == [p.codec.afg EXCEPT !.amp_in_caps = parse_amp_caps(@, l.val)]
      <4>1. parse_root(p, l) = [p EXCEPT !.codec["afg"] = a]
        BY <3>6 DEF parse_root
      <4> HIDE DEF a
      <4>2. QED
        BY <4>1
    <3>7. CASE l.key = "Default Amp-Out caps"
      <4> DEFINE a == [p.codec.afg EXCEPT !.amp_out_caps = parse_amp_caps(@, l.val)]
      <4>1. parse_root(p, l) = [p EXCEPT !.codec["afg"] = a]
        BY <3>7 DEF parse_root
      <4> HIDE DEF a
      <4>2. QED
        BY <4>1
    <3>8. QED
      BY <1>5, <3>1, <3>2, <3>3, <3>4, <3>5, <3>6, <3>7 DEF parse_root
  <2>2. QED
    BY <2>1, FieldReplaced
<1>6. QED
  BY <1>1, <1>2, <1>3, <1>4, <1>5

(* A line behind the Default PCM line (parse_default_pcm_items).           *)
LEMMA DefaultPcmKeeps ==
  ASSUME NEW p, IsParser(p), NEW l
  PROVE  IsParser(parse_default_pcm_items(p, l)) /\ (Fit(p) => Fit(parse_default_pcm_items(p, l)))
<1>1. CASE IsPcmItem(l)
  <2> DEFINE a == [p.codec.afg EXCEPT !.pcm = parse_pcm_items(@, l)]
  <2>1. parse_default_pcm_items(p, l) = [p EXCEPT !.codec["afg"] = a]
    BY <1>1 DEF parse_default_pcm_items
  <2> HIDE DEF a
  <2>2. IsParser([p EXCEPT !.codec["afg"] = a]) /\ (Fit(p) => Fit([p EXCEPT !.codec["afg"] = a]))
    BY FieldReplaced
  <2>3. QED
    BY <2>1, <2>2, Zenon
<1>2. CASE ~IsPcmItem(l)
  <2> DEFINE q == [p EXCEPT !.mode = "ROOT"]
  <2>1. IsParser(q) /\ (Fit(p) => Fit(q)) /\ q.mode = "ROOT"
    BY ModeReplaced DEF IsParser, ParserFields
  <2>2. parse_default_pcm_items(p, l) = parse_root(q, l)
    BY <1>2 DEF parse_default_pcm_items
  <2> HIDE DEF q
  <2>3. QED
    BY <2>1, <2>2, RootKeeps
<1>3. QED
  BY <1>1, <1>2

(* Each mode has its handler.                                              *)
LEMMA RecursiveKeeps ==
  ASSUME NEW p, IsParser(p), NEW l
  PROVE  Kept(p, parse_codec_recursive(p, l))
<1>1. CASE p.mode = "ROOT"
  BY <1>1, RootKeeps DEF parse_codec_recursive, Kept
<1>2. CASE p.mode = "DEFAULT_PCM"
  BY <1>2, DefaultPcmKeeps DEF parse_codec_recursive, Kept
<1>3. CASE p.mode = "GPIO"
  BY <1>3, GpioKeeps DEF parse_codec_recursive
<1>4. CASE p.mode = "NODE"
  BY <1>4, ItemsKeep DEF parse_codec_recursive
<1>5. CASE p.mode = "NODE_PCM"
  BY <1>5, PcmKeeps DEF parse_codec_recursive
<1>6. CASE p.mode = "NODE_CONNECTIONS"
  BY <1>6, ConnectionsKeep DEF parse_codec_recursive
<1>7. CASE p.mode \notin {"ROOT", "DEFAULT_PCM", "GPIO", "NODE", "NODE_PCM", "NODE_CONNECTIONS"}
  BY <1>7 DEF parse_codec_recursive, Kept
<1>8. QED
  BY <1>1, <1>2, <1>3, <1>4, <1>5, <1>6, <1>7

----------------------------------------------------------------------------
(* Entries of a codec's files: the newest gets one more line.              *)
LEMMA EntryAdded ==
  ASSUME NEW list, IsSysfs(list), NEW v
  PROVE  IsSysfs([list EXCEPT ![1].vals = Append(@, v)])
<1> DEFINE new == [list EXCEPT ![1].vals = Append(@, v)]
<1>1. PICK S : list \in Seq(S)
  BY DEF IsSysfs
<1>2. CASE 1 \in DOMAIN list
  <2>1. PICK V : list[1].vals \in Seq(V)
    BY <1>2 DEF IsSysfs, IsEntry
  <2>2. Append(list[1].vals, v) \in Seq(V \cup {v})
    <3>1. list[1].vals \in Seq(V \cup {v})
      BY <2>1
    <3>2. QED
      BY <3>1
  <2> DEFINE e == [list[1] EXCEPT !.vals = Append(@, v)]
  <2>3. IsEntry(e)
    <3>1. e.vals = Append(list[1].vals, v) /\ "vals" \in DOMAIN e
      BY <1>2 DEF IsSysfs, IsEntry
    <3>2. QED
      BY <2>2, <3>1 DEF IsEntry
  <2>4. new = [list EXCEPT ![1] = e]
    OBVIOUS
  <2> HIDE DEF e, new
  <2>5. DOMAIN new = DOMAIN list /\ \A k \in DOMAIN list : new[k] = IF k = 1 THEN e ELSE list[k]
    BY <2>4
  <2>6. Len(list) \in Nat /\ DOMAIN list = 1 .. Len(list) /\ \A k \in DOMAIN list : list[k] \in S
    BY <1>1
  <2>7. new \in Seq(S \cup {e})
    <3>1. new = [k \in 1 .. Len(list) |-> IF k = 1 THEN e ELSE list[k]]
      BY <2>4, <2>6
    <3>2. \A k \in 1 .. Len(list) : (IF k = 1 THEN e ELSE list[k]) \in S \cup {e}
      BY <2>6
    <3>3. QED
      BY <2>6, <3>1, <3>2
  <2>8. IsSysfs(new)
    BY <2>3, <2>5, <2>7 DEF IsSysfs
  <2>9. QED
    BY <2>8 DEF new
<1>3. CASE 1 \notin DOMAIN list
  <2>1. new = [k \in DOMAIN list |-> list[k]]
    BY <1>3
  <2>2. new = list
    BY <1>1, <2>1
  <2>3. QED
    BY <2>2
<1>4. QED
  BY <1>2, <1>3

(* A new entry is put first in the list.                                   *)
LEMMA EntryFirst ==
  ASSUME NEW list, IsSysfs(list), NEW id, NEW type
  PROVE  IsSysfs(<<[id |-> id, type |-> type, vals |-> <<>>]>> \o list)
<1> DEFINE e == [id |-> id, type |-> type, vals |-> <<>>]
           new == <<e>> \o list
<1>1. PICK S : list \in Seq(S)
  BY DEF IsSysfs
<1>2. IsEntry(e)
  <2>1. <<>> \in Seq({})
    OBVIOUS
  <2>2. QED
    BY <2>1 DEF IsEntry
<1> HIDE DEF e
<1>3. <<e>> \in Seq(S \cup {e}) /\ list \in Seq(S \cup {e})
  BY <1>1
<1>4. /\ new \in Seq(S \cup {e}) /\ DOMAIN new = 1 .. Len(list) + 1
      /\ new[1] = e /\ \A k \in 2 .. Len(list) + 1 : new[k] = list[k - 1] /\ k - 1 \in DOMAIN list
  BY <1>1, <1>3
<1> HIDE DEF new
<1>5. \A k \in DOMAIN new : IsEntry(new[k])
  <2>1. \A k \in DOMAIN new : k = 1 \/ k \in 2 .. Len(list) + 1
    BY <1>1, <1>4
  <2>2. QED
    BY <1>2, <1>4, <2>1 DEF IsSysfs
<1>6. IsSysfs(new)
  BY <1>4, <1>5 DEF IsSysfs
<1>7. QED
  BY <1>6 DEF new, e

(* A line of the sysfs files (do_parse_sysfs).                             *)
LEMMA SysfsKeeps ==
  ASSUME NEW p, IsParser(p), NEW l
  PROVE  IsParser(do_parse_sysfs(p, l)) /\ (Fit(p) => Fit(do_parse_sysfs(p, l)))
<1>1. ASSUME NEW list, IsSysfs(list)
      PROVE  /\ IsParser([p EXCEPT !.codec.sysfs = list])
             /\ Fit(p) => Fit([p EXCEPT !.codec.sysfs = list])
  BY <1>1 DEF IsParser, ParserFields, IsCodec, CodecFields, Fit, ParserOK
<1>2. IsSysfs(p.codec.sysfs)
  BY DEF IsParser, IsCodec
<1>3. ASSUME NEW v
      PROVE  IsParser(add_sysfs_list(p, v)) /\ (Fit(p) => Fit(add_sysfs_list(p, v)))
  <2> DEFINE list == [p.codec.sysfs EXCEPT ![1].vals = Append(@, v)]
  <2>1. IsSysfs(list)
    BY <1>2, EntryAdded
  <2>2. add_sysfs_list(p, v) = [p EXCEPT !.codec.sysfs = list]
    BY DEF add_sysfs_list
  <2> HIDE DEF list
  <2>3. QED
    BY <1>1, <2>1, <2>2
<1>4. IsParser(new_sysfs(p, l.val)) /\ (Fit(p) => Fit(new_sysfs(p, l.val)))
  <2> DEFINE list == <<[id |-> l.val.id, type |-> l.val.type, vals |-> <<>>]>> \o p.codec.sysfs
  <2>1. IsSysfs(list)
    BY <1>2, EntryFirst
  <2>2. new_sysfs(p, l.val) = [p EXCEPT !.codec.sysfs = list]
    BY DEF new_sysfs
  <2> HIDE DEF list
  <2>3. QED
    BY <1>1, <2>1, <2>2
<1>5. \/ do_parse_sysfs(p, l) = new_sysfs(p, l.val)
      \/ do_parse_sysfs(p, l) = add_sysfs_list(p, l.val)
      \/ do_parse_sysfs(p, l) = add_sysfs_list(p, <<l.val[1], l.val[2]>>)
      \/ do_parse_sysfs(p, l) \in {p, [p EXCEPT !.mode = "POST"]}
  BY DEF do_parse_sysfs
<1>6. QED
  BY <1>3, <1>4, <1>5, ModeReplaced

----------------------------------------------------------------------------
(* Whole files.                                                            *)
LEMMA AlsaInfoKeeps ==
  ASSUME NEW p, IsParser(p), NEW i, NEW l
  PROVE  IsParser(check_alsa_info(p, i, l)) /\ (Fit(p) => Fit(check_alsa_info(p, i, l)))
<1>1. PICK a, k : check_alsa_info(p, i, l) \in
         {p, [p EXCEPT !.codec["pci"] = a], [p EXCEPT !.codec["pci"] = a, !.pciidx = k]}
  <2>1. CASE l.key = "PCI audio"
    <3> DEFINE a == [p.codec.pci EXCEPT !.card = l.val]
    <3>1. check_alsa_info(p, i, l) \in {p, [p EXCEPT !.codec["pci"] = a]}
      BY <2>1 DEF check_alsa_info
    <3> HIDE DEF a
    <3>2. QED
      BY <3>1
  <2>2. CASE l.key = "PCI subsystem"
    <3> DEFINE take == p.pciidx = i \/ p.codec.pci.sub = 0
               a == [p.codec.pci EXCEPT !.sub = IF take THEN l.val ELSE @]
               k == p.pciidx + 1
    <3>1. check_alsa_info(p, i, l) = [p EXCEPT !.codec["pci"] = a, !.pciidx = k]
      BY <2>2 DEF check_alsa_info
    <3> HIDE DEF a, k
    <3>2. QED
      BY <3>1
  <2>3. CASE l.key = "PCI subsystem nn"
    <3> DEFINE a == [p.codec.pci EXCEPT !.sub = l.val]
               k == p.pciidx + 1
    <3>1. check_alsa_info(p, i, l) \in {p, [p EXCEPT !.codec["pci"] = a, !.pciidx = k]}
      BY <2>3 DEF check_alsa_info
    <3> HIDE DEF a, k
    <3>2. QED
      BY <3>1
  <2>4. CASE l.key \notin {"PCI audio", "PCI subsystem", "PCI subsystem nn"}
    BY <2>4 DEF check_alsa_info
  <2>5. QED
    BY <2>1, <2>2, <2>3, <2>4
<1>2. IsParser([p EXCEPT !.codec["pci"] = a]) /\ (Fit(p) => Fit([p EXCEPT !.codec["pci"] = a]))
  BY FieldReplaced
<1>3. ASSUME NEW q, IsParser(q)
      PROVE  IsParser([q EXCEPT !.pciidx = k]) /\ (Fit(q) => Fit([q EXCEPT !.pciidx = k]))
  BY <1>3 DEF IsParser, ParserFields, Fit, ParserOK
<1> DEFINE q == [p EXCEPT !.codec["pci"] = a]
<1>4. [p EXCEPT !.codec["pci"] = a, !.pciidx = k] = [q EXCEPT !.pciidx = k]
  OBVIOUS
<1> HIDE DEF q
<1>5. QED
  BY <1>1, <1>2, <1>3, <1>4 DEF q

(* The line of a codec (parse_codec_start).                                *)
LEMMA StartKeeps ==
  ASSUME NEW p, IsParser(p), NEW i, NEW l
  PROVE  /\ IsParser(parse_codec_start(p, i, l))
         /\ Fit(p) => Fit(parse_codec_start(p, i, l))
<1> DEFINE q == [p EXCEPT !.codec["parsed_name"] = l.val]
           m == IF i \in {NoIndex, p.curidx + 1} THEN "ROOT" ELSE p.mode
           k == p.curidx + 1
<1>1. IsParser(q) /\ (Fit(p) => Fit(q)) /\ q.mode = p.mode
  BY FieldReplaced DEF IsParser, ParserFields
<1>2. parse_codec_start(p, i, l) = [q EXCEPT !.curidx = k, !.mode = m]
  BY DEF parse_codec_start, IsParser, ParserFields
<1>3. m \in {p.mode, "ROOT"}
  OBVIOUS
<1> HIDE DEF q, m, k
<1>4. QED
  BY <1>1, <1>2, <1>3 DEF IsParser, ParserFields, Fit, ParserOK, NodeModes, ReadModes

(* The codec of a modem is cleared but for its widgets.                    *)
LEMMA ClearKeeps ==
  ASSUME NEW p, IsParser(p)
  PROVE  LET q == [p EXCEPT !.mode = "START", !.codec = clear_codec(@)]
         IN  IsParser(q) /\ (Fit(p) => Fit(q))
<1> DEFINE c == clear_codec(p.codec)
<1>1. IsCodec(c) /\ c.nodes = p.codec.nodes
  BY DEF IsParser, IsCodec, CodecFields, clear_codec
<1> HIDE DEF c
<1>2. [p EXCEPT !.mode = "START", !.codec = clear_codec(@)] = [p EXCEPT !.mode = "START", !.codec = c]
  BY DEF c
<1>3. QED
  BY <1>1, <1>2 DEF IsParser, ParserFields, Fit, ParserOK, NodeModes, ReadModes

(* A line of the codec that is read.                                       *)
LEMMA BodyKeeps ==
  ASSUME NEW p, IsParser(p), NEW i, NEW l
  PROVE  Kept(p, parse_codec_body(p, i, l))
<1> DEFINE plain == p.mode # "ROOT" /\ ~Indented(l)
           p1 == IF plain THEN [p EXCEPT !.mode = "ROOT", !.node = NoCurrent] ELSE p
           q == parse_codec_recursive(p1, l)
<1>1. Kept(p, p1)
  BY DEF Kept, IsParser, ParserFields, Fit, ParserOK, NodeModes, ReadModes
<1> HIDE DEF p1
<1>2. Kept(p, q)
  BY <1>1, RecursiveKeeps DEF Kept
<1> HIDE DEF q
<1>3. \/ parse_codec_body(p, i, l) = q
      \/ parse_codec_body(p, i, l) = [q EXCEPT !.err = "OK", !.mode = "START", !.codec = clear_codec(@)]
  BY DEF parse_codec_body, q, p1
<1>4. CASE parse_codec_body(p, i, l) = q
  BY <1>2, <1>4
<1>5. CASE parse_codec_body(p, i, l) = [q EXCEPT !.err = "OK", !.mode = "START", !.codec = clear_codec(@)]
  <2> DEFINE q1 == [q EXCEPT !.mode = "START", !.codec = clear_codec(@)]
  <2>1. Kept(p, q1)
    BY <1>2, ClearKeeps DEF Kept
  <2>2. parse_codec_body(p, i, l) = [q1 EXCEPT !.err = "OK"]
    BY <1>5
  <2> HIDE DEF q1
  <2>3. QED
    BY <2>1, <2>2, ErrorKeeps DEF Kept
<1>6. QED
  BY <1>3, <1>4, <1>5

(* A line in each of the modes but the first.                              *)
LEMMA AnyKeeps ==
  ASSUME NEW p, IsParser(p), NEW i, NEW l
  PROVE  Kept(p, parse_any(p, i, l))
<1> DEFINE m == IF l.key = "!!Sysfs Files" THEN "SYSFS" ELSE "POST"
<1>1. \/ parse_any(p, i, l) = [p EXCEPT !.mode = m]
      \/ parse_any(p, i, l) = do_parse_sysfs(p, l)
      \/ parse_any(p, i, l) = p
      \/ parse_any(p, i, l) = parse_codec_body(p, i, l)
  BY DEF parse_any
<1>2. m \in {"SYSFS", "POST"}
  OBVIOUS
<1> HIDE DEF m
<1>3. Kept(p, [p EXCEPT !.mode = m])
  BY <1>2, ModeReplaced DEF Kept
<1>4. Kept(p, do_parse_sysfs(p, l))
  BY SysfsKeeps DEF Kept
<1>5. Kept(p, parse_codec_body(p, i, l))
  BY BodyKeeps
<1>6. QED
  BY <1>1, <1>3, <1>4, <1>5, Zenon DEF Kept

(* Every line leaves a parser that knows the node it is at, whatever the   *)
(* line is (parse_codec_proc).                                             *)
LEMMA LineKeeps ==
  ASSUME NEW p, IsParser(p), NEW i, NEW l
  PROVE  Kept(p, parse_line(p, i, l))
<1>1. CASE p.mode = "START" /\ l.key # "Codec"
  BY <1>1, AlsaInfoKeeps DEF parse_line, Kept
<1>2. ASSUME NEW q, Kept(p, q)
      PROVE  Kept(p, parse_any(parse_codec_start(q, i, l), i, l))
  BY <1>2, StartKeeps, AnyKeeps DEF Kept
<1>3. CASE p.mode = "START" /\ l.key = "Codec"
  BY <1>2, <1>3 DEF parse_line, Kept
<1>4. CASE p.mode # "START" /\ l.key = "Codec" /\ skipping_modem(p.codec)
  <2> DEFINE q == [p EXCEPT !.mode = "START", !.codec = clear_codec(@)]
  <2>1. Kept(p, q)
    BY ClearKeeps DEF Kept
  <2>2. parse_line(p, i, l) = parse_any(parse_codec_start(q, i, l), i, l)
    BY <1>4 DEF parse_line
  <2> HIDE DEF q
  <2>3. QED
    BY <1>2, <2>1, <2>2
<1>5. CASE p.mode # "START" /\ l.key = "Codec" /\ ~skipping_modem(p.codec)
  BY <1>5, ModeReplaced DEF parse_line, Kept
<1>6. CASE p.mode # "START" /\ l.key # "Codec"
  BY <1>6, AnyKeeps DEF parse_line
<1>7. QED
  BY <1>1, <1>3, <1>4, <1>5, <1>6

(* The parser before the first line.                                       *)
LEMMA NewParserFits == IsParser(NewParser) /\ Fit(NewParser)
<1>1. <<>> \in Seq({}) /\ DOMAIN <<>> = {}
  OBVIOUS
<1>2. IsSysfs(<<>>)
  BY <1>1 DEF IsSysfs
<1>3. QED
  BY <1>2 DEF NewParser, BlankCodec, IsParser, ParserFields, IsCodec, CodecFields, Fit, ParserOK, NodeModes,
     ReadModes

----------------------------------------------------------------------------
(* Fixups.  A codec is like another if it has the same nodes, and all but  *)
(* those of S have the connections they had.                               *)
Sound(c, S) == \A nid \in DOMAIN c.nodes : NodeOK(c.nodes[nid], nid, S)

SameConns(n, m) == n.num_nodes = m.num_nodes /\ n.node = m.node

AlikeBut(c, d, S) ==
  /\ IsCodec(d) /\ DOMAIN d.nodes = DOMAIN c.nodes /\ d.vendor_id = c.vendor_id
  /\ \A nid \in DOMAIN c.nodes \ S : SameConns(d.nodes[nid], c.nodes[nid])

(* A fixup leaves a codec, and the nodes but those of S as they may be.    *)
FixedBut(c, d, S) == AlikeBut(c, d, S) /\ \A R : Sound(c, R) /\ S \subseteq R => Sound(d, R)

(* A node is replaced by one that is right, if the codec has it.           *)
LEMMA NodeFixed ==
  ASSUME NEW c, IsCodec(c), NEW nid, NEW n, NEW S,
         nid \in DOMAIN c.nodes => IsNode(n) /\ (nid \in S \/ SameConns(n, c.nodes[nid])),
         NEW R
  PROVE  /\ AlikeBut(c, FixNode(c, nid, n), S)
         /\ Sound(c, R) /\ (nid \in DOMAIN c.nodes => NodeOK(n, nid, R)) => Sound(FixNode(c, nid, n), R)
<1>1. CASE nid \notin DOMAIN c.nodes
  BY <1>1 DEF AlikeBut, SameConns, FixNode
<1>2. CASE nid \in DOMAIN c.nodes
  <2> DEFINE d == [c EXCEPT !.nodes[nid] = n]
  <2>1. d.vendor_id = c.vendor_id
    BY DEF IsCodec, CodecFields
  <2>2. /\ IsCodec(d) /\ DOMAIN d.nodes = DOMAIN c.nodes
        /\ \A m \in DOMAIN c.nodes : d.nodes[m] = IF m = nid THEN n ELSE c.nodes[m]
    BY <1>2, NodeReplaced
  <2>3. FixNode(c, nid, n) = d
    BY <1>2 DEF FixNode
  <2> HIDE DEF d
  <2>4. AlikeBut(c, d, S)
    BY <1>2, <2>1, <2>2 DEF AlikeBut, SameConns
  <2>5. Sound(c, R) /\ NodeOK(n, nid, R) => Sound(d, R)
    BY <1>2, <2>2 DEF Sound
  <2>6. QED
    BY <1>2, <2>3, <2>4, <2>5
<1>3. QED
  BY <1>1, <1>2

(* A fixup that adds an amplifier leaves the lists alone.                  *)
LEMMA AmpFits ==
  ASSUME NEW c, IsCodec(c), NEW nid, NEW word
  PROVE  FixedBut(c, FixNode(c, nid, AddAmpIn(c.nodes[nid], word)), {})
<1> DEFINE n == AddAmpIn(c.nodes[nid], word)
<1>1. nid \in DOMAIN c.nodes =>
        IsNode(n) /\ SameConns(n, c.nodes[nid]) /\ \A R : NodeOK(c.nodes[nid], nid, R) => NodeOK(n, nid, R)
  BY DEF IsCodec, IsNode, NodeFields, NodeOK, AddAmpIn, SameConns
<1> HIDE DEF n
<1>2. AlikeBut(c, FixNode(c, nid, n), {})
  BY <1>1, NodeFixed
<1>3. \A R : Sound(c, R) => Sound(FixNode(c, nid, n), R)
  BY <1>1, NodeFixed DEF Sound
<1>4. QED
  BY <1>2, <1>3 DEF n, FixedBut

(* A connection more needs room.                                           *)
LEMMA MixerFits ==
  ASSUME NEW c, IsCodec(c), NEW nid, NEW dac
  PROVE  LET d == fixup_via_mixer(c, nid, dac)
         IN  /\ AlikeBut(c, d, {nid})
             /\ (nid \in DOMAIN c.nodes => dac \in Connected(c.nodes[nid]) \/ c.nodes[nid].num_nodes < MaxConns)
                => \A R : Sound(c, R) => Sound(d, R)
<1> DEFINE n == IF dac \in Connected(c.nodes[nid]) THEN c.nodes[nid] ELSE AddConnection(c.nodes[nid], dac)
<1>1. nid \in DOMAIN c.nodes =>
        /\ IsNode(n)
        /\ dac \in Connected(c.nodes[nid]) \/ c.nodes[nid].num_nodes < MaxConns =>
             \A R : NodeOK(c.nodes[nid], nid, R) => NodeOK(n, nid, R)
  BY MaxConnsAssumption, RoomAssumption DEF IsCodec, IsNode, NodeFields, NodeOK, AddConnection
<1>2. fixup_via_mixer(c, nid, dac) = FixNode(c, nid, n)
  BY DEF fixup_via_mixer
<1> HIDE DEF n
<1>3. AlikeBut(c, FixNode(c, nid, n), {nid})
  BY <1>1, NodeFixed
<1>4. (nid \in DOMAIN c.nodes => dac \in Connected(c.nodes[nid]) \/ c.nodes[nid].num_nodes < MaxConns)
      => \A R : Sound(c, R) => Sound(FixNode(c, nid, n), R)
  BY <1>1, NodeFixed DEF Sound
<1>5. QED
  BY <1>2, <1>3, <1>4

(* A list that is replaced may leave the selection behind.                 *)
LEMMA ListFits ==
  ASSUME NEW c, IsCodec(c), NEW nid, NEW list, Len(list) \in 1 .. MaxConns
  PROVE  FixedBut(c, FixConnections(c, nid, list), {nid})
<1> DEFINE n == SetConnections(c.nodes[nid], list)
<1>1. nid \in DOMAIN c.nodes =>
        /\ IsNode(n)
        /\ \A R : NodeOK(c.nodes[nid], nid, R) /\ nid \in R => NodeOK(n, nid, R)
  <2>1. PICK len : len = Len(list)
    OBVIOUS
  <2>2. len \in 0 .. 127
    <3>1. MaxConns \in Int /\ MaxConns <= 127
      BY RoomAssumption
    <3>2. len \in 1 .. MaxConns
      BY <2>1
    <3>3. QED
      BY <3>1, <3>2
  <2>3. nid \in DOMAIN c.nodes => IsNode(n) /\ n.nid = c.nodes[nid].nid /\ n.num_nodes = len
    BY <2>1 DEF IsCodec, IsNode, NodeFields, SetConnections
  <2>4. QED
    BY <2>2, <2>3 DEF NodeOK
<1>2. FixConnections(c, nid, list) = FixNode(c, nid, n)
  BY DEF FixConnections
<1> HIDE DEF n
<1>3. AlikeBut(c, FixNode(c, nid, n), {nid})
  BY <1>1, NodeFixed
<1>4. \A R : Sound(c, R) /\ nid \in R => Sound(FixNode(c, nid, n), R)
  BY <1>1, NodeFixed DEF Sound
<1>5. QED
  BY <1>2, <1>3, <1>4 DEF FixedBut

(* Two fixups one after the other.                                         *)
LEMMA FixedTwice ==
  ASSUME NEW c, NEW d, NEW e, NEW S, NEW T, FixedBut(c, d, S), FixedBut(d, e, T)
  PROVE  FixedBut(c, e, S \cup T)
<1>1. AlikeBut(c, e, S \cup T)
  BY DEF FixedBut, AlikeBut, SameConns
<1>2. ASSUME NEW R, Sound(c, R), S \cup T \subseteq R
      PROVE  Sound(e, R)
  <2>1. S \subseteq R /\ T \subseteq R
    BY <1>2
  <2>2. QED
    BY <1>2, <2>1 DEF FixedBut
<1>3. QED
  BY <1>1, <1>2 DEF FixedBut

(* The three pins of the larger Haswell codecs.                            *)
LEMMA HaswellFits ==
  ASSUME NEW c, IsCodec(c), 5 \in DOMAIN c.nodes
  PROVE  FixedBut(c, fixup_haswellhdmi(c), 5 .. 7)
<1> DEFINE new(n) == SetConnections(n, <<2, 3, 4>>)
           nodes == [nid \in DOMAIN c.nodes |-> IF nid \in 5 .. 7 THEN new(c.nodes[nid]) ELSE c.nodes[nid]]
           d == [c EXCEPT !.nodes = nodes]
<1>1. fixup_haswellhdmi(c) = d
  BY DEF fixup_haswellhdmi
<1>2. ASSUME NEW nid \in DOMAIN c.nodes
      PROVE  /\ IsNode(new(c.nodes[nid]))
             /\ \A R : NodeOK(c.nodes[nid], nid, R) /\ nid \in R => NodeOK(new(c.nodes[nid]), nid, R)
  <2>1. Len(<<2, 3, 4>>) = 3
    OBVIOUS
  <2>2. QED
    BY <2>1, RoomAssumption DEF IsCodec, IsNode, NodeFields, NodeOK, SetConnections
<1> HIDE DEF new
<1>3. /\ DOMAIN d = DOMAIN c /\ d.nodes = nodes /\ DOMAIN nodes = DOMAIN c.nodes
      /\ d.sysfs = c.sysfs /\ d.vendor_id = c.vendor_id
  BY DEF IsCodec, CodecFields
<1>4. \A nid \in DOMAIN c.nodes : nodes[nid] = IF nid \in 5 .. 7 THEN new(c.nodes[nid]) ELSE c.nodes[nid]
  OBVIOUS
<1> HIDE DEF d, nodes
<1>5. IsCodec(d)
  BY <1>2, <1>3, <1>4 DEF IsCodec
<1>6. AlikeBut(c, d, 5 .. 7)
  BY <1>3, <1>4, <1>5 DEF AlikeBut, SameConns
<1>7. ASSUME NEW R, Sound(c, R), 5 .. 7 \subseteq R
      PROVE  Sound(d, R)
  BY <1>2, <1>3, <1>4, <1>7 DEF Sound
<1>8. QED
  BY <1>1, <1>6, <1>7 DEF FixedBut

(* Two microphones of a VIA codec.                                         *)
LEMMA BoostFits ==
  ASSUME NEW c, IsCodec(c), NEW i, NEW j
  PROVE  FixedBut(c, fixup_via_mic_boost(fixup_via_mic_boost(c, i), j), {})
<1>1. ASSUME NEW e, IsCodec(e), NEW pin
      PROVE  FixedBut(e, fixup_via_mic_boost(e, pin), {})
  BY <1>1, AmpFits DEF fixup_via_mic_boost
<1>2. PICK c1 : c1 = fixup_via_mic_boost(c, i)
  OBVIOUS
<1>3. FixedBut(c, c1, {}) /\ IsCodec(c1)
  BY <1>1, <1>2 DEF FixedBut, AlikeBut
<1>4. FixedBut(c1, fixup_via_mic_boost(c1, j), {})
  BY <1>1, <1>3
<1>5. FixedBut(c, fixup_via_mic_boost(c1, j), {} \cup {})
  BY <1>3, <1>4, FixedTwice
<1>6. QED
  BY <1>2, <1>5

(* What the test of the mixer says.                                        *)
LEMMA RoomLeftFor ==
  ASSUME NEW c, ~FixupOverruns(c), NEW nid, NEW dac, <<nid, dac>> \in Extended(c), nid \in DOMAIN c.nodes,
         c.nodes[nid].num_nodes \in Nat
  PROVE  dac \in Connected(c.nodes[nid]) \/ c.nodes[nid].num_nodes < MaxConns
<1>1. PICK m \in Extended(c) : m = <<nid, dac>>
  OBVIOUS
<1>2. m[1] = nid /\ m[2] = dac
  BY <1>1
<1>3. ~(/\ m[1] \in DOMAIN c.nodes
        /\ \/ c.nodes[m[1]].num_nodes > MaxConns
           \/ c.nodes[m[1]].num_nodes = MaxConns /\ m[2] \notin Connected(c.nodes[m[1]]))
  BY <1>1 DEF FixupOverruns
<1>4. QED
  BY <1>2, <1>3, MaxConnsAssumption

(* The fixup of the VT1718S: two amplifiers and a connection of the mixer. *)
LEMMA Vt1718Fits ==
  ASSUME NEW c, IsCodec(c)
  PROVE  LET d == fixup_vt1718S(c)
         IN  /\ AlikeBut(c, d, {33})
             /\ <<33, 8>> \in Extended(c) /\ ~FixupOverruns(c) => \A R : Sound(c, R) => Sound(d, R)
<1>1. PICK b : b = fixup_via_mic_boost(fixup_via_mic_boost(c, 43), 41)
  OBVIOUS
<1>2. FixedBut(c, b, {}) /\ IsCodec(b)
  BY <1>1, BoostFits DEF FixedBut, AlikeBut
<1>3. fixup_vt1718S(c) = fixup_via_mixer(b, 33, 8)
  BY <1>1 DEF fixup_vt1718S
<1>4. AlikeBut(b, fixup_via_mixer(b, 33, 8), {33})
  BY <1>2, MixerFits
<1>5. AlikeBut(c, fixup_vt1718S(c), {33})
  BY <1>2, <1>3, <1>4 DEF FixedBut, AlikeBut, SameConns
<1>6. ASSUME <<33, 8>> \in Extended(c), ~FixupOverruns(c), NEW R, Sound(c, R)
      PROVE  Sound(fixup_vt1718S(c), R)
  <2>1. 33 \in DOMAIN c.nodes => c.nodes[33].num_nodes \in Nat
    BY <1>6 DEF Sound, NodeOK
  <2>2. 33 \in DOMAIN c.nodes => 8 \in Connected(c.nodes[33]) \/ c.nodes[33].num_nodes < MaxConns
    BY <1>6, <2>1, RoomLeftFor
  <2>3. DOMAIN b.nodes = DOMAIN c.nodes /\ (33 \in DOMAIN c.nodes => SameConns(b.nodes[33], c.nodes[33]))
    BY <1>2 DEF FixedBut, AlikeBut
  <2>4. 33 \in DOMAIN b.nodes => 8 \in Connected(b.nodes[33]) \/ b.nodes[33].num_nodes < MaxConns
    BY <2>2, <2>3 DEF SameConns, Connected
  <2>5. Sound(b, R)
    BY <1>2, <1>6 DEF FixedBut
  <2>6. QED
    BY <1>2, <1>3, <2>4, <2>5, MixerFits
<1>7. QED
  BY <1>5, <1>6

(* The VT1802: a connection more and two other lists.                      *)
LEMMA Vt1802Fits ==
  ASSUME NEW c, IsCodec(c), c.vendor_id = "vt1802"
  PROVE  LET d == fixup_vt1802(c)
         IN  /\ AlikeBut(c, d, {33, 36, 51})
             /\ ~FixupOverruns(c) => \A R : Sound(c, R) /\ {36, 51} \subseteq R => Sound(d, R)
<1>1. PICK c1, c2, c3 : /\ c1 = fixup_vt1718S(c) /\ c2 = FixConnections(c1, 36, <<20, 28>>)
                        /\ c3 = FixConnections(c2, 51, <<28>>)
  OBVIOUS
<1>2. Len(<<20, 28>>) \in 1 .. MaxConns /\ Len(<<28>>) \in 1 .. MaxConns
  <2>1. Len(<<20, 28>>) = 2 /\ Len(<<28>>) = 1
    OBVIOUS
  <2>2. 2 \in 1 .. MaxConns /\ 1 \in 1 .. MaxConns
    BY RoomAssumption
  <2>3. QED
    BY <2>1, <2>2
<1>3. AlikeBut(c, c1, {33}) /\ IsCodec(c1)
  BY <1>1, Vt1718Fits DEF AlikeBut
<1>4. FixedBut(c1, c2, {36}) /\ IsCodec(c2)
  <2>1. FixedBut(c1, FixConnections(c1, 36, <<20, 28>>), {36})
    BY <1>2, <1>3, ListFits
  <2>2. QED
    BY <1>1, <2>1 DEF FixedBut, AlikeBut
<1>5. FixedBut(c2, c3, {51})
  BY <1>1, <1>2, <1>4, ListFits
<1>6. AlikeBut(c, c3, {33, 36, 51})
  BY <1>3, <1>4, <1>5 DEF FixedBut, AlikeBut, SameConns
<1>7. ASSUME ~FixupOverruns(c), NEW R, Sound(c, R), {36, 51} \subseteq R
      PROVE  Sound(c3, R)
  <2>1. <<33, 8>> \in Extended(c)
    BY DEF Extended
  <2>2. Sound(c1, R)
    BY <1>1, <1>7, <2>1, Vt1718Fits
  <2>3. {36} \subseteq R /\ {51} \subseteq R
    BY <1>7
  <2>4. QED
    BY <1>4, <1>5, <2>2, <2>3 DEF FixedBut
<1>8. fixup_vt1802(c) = c3
  BY <1>1 DEF fixup_vt1802
<1>9. QED
  BY <1>6, <1>7, <1>8

(* A codec that was read is a codec still, and unless one of them writes   *)
(* behind an array the fixups leave nodes as they may be (hda-spec.c).     *)
LEMMA ExtensionsFit ==
  ASSUME NEW c, IsCodec(c)
  PROVE  LET d == add_codec_extensions(c)
         IN  /\ IsCodec(d) /\ DOMAIN d.nodes = DOMAIN c.nodes /\ d.vendor_id = c.vendor_id
             /\ Sound(c, {}) /\ ~FixupOverruns(c) => Sound(d, Replaced(c))
<1> DEFINE Good(d) == /\ IsCodec(d) /\ DOMAIN d.nodes = DOMAIN c.nodes /\ d.vendor_id = c.vendor_id
                      /\ Sound(c, {}) /\ ~FixupOverruns(c) => Sound(d, Replaced(c))
<1>1. ASSUME NEW d, IsCodec(d)
      PROVE  LET e == [d EXCEPT !.pin_amp_workaround = @ \/ c.vendor_id = "conexant"]
             IN  IsCodec(e) /\ e.nodes = d.nodes /\ e.vendor_id = d.vendor_id
  BY <1>1 DEF IsCodec, CodecFields
<1>2. Sound(c, {}) => Sound(c, Replaced(c))
  BY DEF Sound, NodeOK
<1>3. ASSUME NEW d, NEW S, FixedBut(c, d, S), S \subseteq Replaced(c)
      PROVE  Good(d)
  BY <1>2, <1>3 DEF FixedBut, AlikeBut
<1>4. ASSUME NEW d, NEW S, AlikeBut(c, d, S), ~FixupOverruns(c) => (Sound(c, Replaced(c)) => Sound(d, Replaced(c)))
      PROVE  Good(d)
  BY <1>2, <1>4 DEF AlikeBut
<1> HIDE DEF Good
<1>5. Good(apply_fixups(c))
  <2>1. CASE c.vendor_id = "alc268"
    <3>1. apply_fixups(c) = FixNode(c, 29, AddAmpIn(c.nodes[29], BeepGain))
      BY <2>1 DEF apply_fixups, fixup_alc268_beep
    <3>2. QED
      BY <1>3, <3>1, AmpFits
  <2>2. CASE c.vendor_id = "vt1708S"
    <3>1. apply_fixups(c) = fixup_via_mic_boost(fixup_via_mic_boost(c, 26), 30)
      BY <2>2 DEF apply_fixups, fixup_vt1708S
    <3>2. QED
      BY <1>3, <3>1, BoostFits
  <2>3. CASE c.vendor_id = "vt1718S"
    <3>1. apply_fixups(c) = fixup_vt1718S(c) /\ <<33, 8>> \in Extended(c)
      BY <2>3 DEF apply_fixups, Extended
    <3>2. QED
      BY <1>4, <3>1, Vt1718Fits
  <2>4. CASE c.vendor_id = "vt1802"
    <3>1. apply_fixups(c) = fixup_vt1802(c) /\ {36, 51} \subseteq Replaced(c)
      BY <2>4 DEF apply_fixups, Replaced
    <3>2. QED
      BY <1>4, <2>4, <3>1, Vt1802Fits
  <2>5. CASE c.vendor_id = "vt3476"
    <3>1. apply_fixups(c) = fixup_via_mixer(c, 63, 16) /\ <<63, 16>> \in Extended(c)
      BY <2>5 DEF apply_fixups, fixup_vt3476, Extended
    <3>2. Sound(c, Replaced(c)) => (63 \in DOMAIN c.nodes => c.nodes[63].num_nodes \in Nat)
      BY DEF Sound, NodeOK
    <3>3. Sound(c, Replaced(c)) /\ ~FixupOverruns(c) =>
            (63 \in DOMAIN c.nodes => 16 \in Connected(c.nodes[63]) \/ c.nodes[63].num_nodes < MaxConns)
      BY <3>1, <3>2, RoomLeftFor
    <3>4. QED
      BY <1>4, <3>1, <3>3, MixerFits
  <2>6. CASE c.vendor_id = "haswellhdmi" /\ 5 \in DOMAIN c.nodes
    <3>1. apply_fixups(c) = fixup_haswellhdmi(c) /\ 5 .. 7 \subseteq Replaced(c)
      BY <2>6 DEF apply_fixups, Replaced
    <3>2. QED
      BY <1>3, <2>6, <3>1, HaswellFits
  <2>7. CASE c.vendor_id = "haswellhdmi" /\ 5 \notin DOMAIN c.nodes
    <3>1. apply_fixups(c) = FixConnections(c, 3, <<2>>) /\ {3} \subseteq Replaced(c)
      BY <2>7 DEF apply_fixups, fixup_haswellhdmi, Replaced
    <3>2. Len(<<2>>) \in 1 .. MaxConns
      BY MaxConnsAssumption
    <3>3. QED
      BY <1>3, <3>1, <3>2, ListFits
  <2>8. CASE c.vendor_id \notin {"alc268", "vt1708S", "vt1718S", "vt1802", "vt3476", "haswellhdmi"}
    <3>1. apply_fixups(c) = c
      BY <2>8 DEF apply_fixups
    <3>2. QED
      BY <1>2, <3>1 DEF Good
  <2>9. QED
    BY <2>1, <2>2, <2>3, <2>4, <2>5, <2>6, <2>7, <2>8
<1>6. PICK d : d = apply_fixups(c)
  OBVIOUS
<1>7. QED
  BY <1>1, <1>5, <1>6 DEF Good, add_codec_extensions, Sound

----------------------------------------------------------------------------
(* The lines of an option that are read so far, and what they mean.        *)
PinKeys == {"comment", "section", "pair", "junk"}

GoodLines(ls) == Len(ls) \in Nat /\ \A j \in 1 .. Len(ls) : ls[j].key \in PinKeys

PinsFields == {"lines", "pos", "is_fw_file", "is_in_pincfg", "done"}

Progress(s) ==
  /\ PinsFields \subseteq DOMAIN s
  /\ s.pos \in Nat \ {0}
  /\ s.is_fw_file \in BOOLEAN /\ s.is_in_pincfg \in BOOLEAN /\ s.done \in BOOLEAN
  /\ s.pos <= Len(s.lines) + 1
  /\ s.is_fw_file <=> Firmware(s.lines, s.pos - 1)
  /\ s.is_in_pincfg <=> \E j \in 1 .. s.pos - 1 : Title(s.lines, j)
  /\ s.done <=> \E j \in 1 .. s.pos - 1 : Ends(s.lines, j)
  /\ ~s.done /\ s.is_in_pincfg =>
       \E j \in 1 .. s.pos - 1 : Title(s.lines, j) /\ \A m \in j + 1 .. s.pos - 1 : s.lines[m].key # "section"

(* A line of the option moves on as the definitions say: what is a pair    *)
(* for the code is one that counts.                                        *)
LEMMA PinLine ==
  ASSUME NEW s, Progress(s), GoodLines(s.lines), ~s.done, s.pos <= Len(s.lines)
  PROVE  /\ Progress(pincfg_line(s))
         /\ pincfg_line(s).lines = s.lines /\ pincfg_line(s).pos = s.pos + 1
         /\ IsPinPair(s) <=> Counts(s.lines, s.pos)
<1> DEFINE L == s.lines
           k == s.pos
           t == pincfg_line(s)
<1>1. k \in Nat \ {0} /\ Len(L) \in Nat /\ k \in 1 .. Len(L) /\ L[k].key \in PinKeys /\ (k + 1) - 1 = k
  BY DEF Progress, GoodLines
<1>2. 1 .. k = (1 .. k - 1) \cup {k} /\ k \notin 1 .. k - 1 /\ \A j \in 1 .. k - 1 : j \in Nat /\ j < k
  BY <1>1
<1>3. /\ PinsFields \subseteq DOMAIN t /\ t.lines = L /\ t.pos = k + 1
      /\ t.is_fw_file \in BOOLEAN /\ t.is_in_pincfg \in BOOLEAN /\ t.done \in BOOLEAN
  BY DEF pincfg_line, Progress, PinsFields
<1>4. /\ s.is_fw_file <=> Firmware(L, k - 1)
      /\ s.is_in_pincfg <=> \E j \in 1 .. k - 1 : Title(L, j)
      /\ \A j \in 1 .. k - 1 : ~Ends(L, j)
      /\ s.is_in_pincfg => \E j \in 1 .. k - 1 : Title(L, j) /\ \A m \in j + 1 .. k - 1 : L[m].key # "section"
  BY DEF Progress
<1>5. /\ t.is_fw_file <=> s.is_fw_file \/ Section(L[k], "codec")
      /\ t.is_in_pincfg <=> s.is_in_pincfg \/ (s.is_fw_file /\ Section(L[k], "pincfg"))
  BY <1>1, <1>4 DEF pincfg_line, Progress, PinsFields, Section
<1>6. Firmware(L, k) <=> Firmware(L, k - 1) \/ Section(L[k], "codec")
  BY <1>2 DEF Firmware
<1>7. Title(L, k) <=> s.is_fw_file /\ Section(L[k], "pincfg")
  BY <1>4, <1>6 DEF Title, Section
<1>8. (\E j \in 1 .. k : Title(L, j)) <=> s.is_in_pincfg \/ Title(L, k)
  BY <1>2, <1>4
<1>9. L[k].key # "section" => (Inside(L, k) <=> (s.is_fw_file => s.is_in_pincfg))
  <2> SUFFICES ASSUME L[k].key # "section" PROVE Inside(L, k) <=> (s.is_fw_file => s.is_in_pincfg)
    OBVIOUS
  <2>1. Firmware(L, k) <=> s.is_fw_file
    BY <1>4, <1>6 DEF Section
  <2>2. \A j \in 1 .. k - 1 : (j + 1 .. k) = (j + 1 .. k - 1) \cup {k}
    BY <1>1
  <2>3. (\E j \in 1 .. k - 1 : Title(L, j) /\ \A m \in j + 1 .. k : L[m].key # "section") <=> s.is_in_pincfg
    BY <1>4, <2>2
  <2>4. QED
    BY <2>1, <2>3 DEF Inside
<1>10. Ends(L, k) <=> \/ L[k].key = "junk" /\ (s.is_fw_file => s.is_in_pincfg)
                      \/ L[k].key = "section" /\ s.is_in_pincfg
                      \/ L[k].key = "section" /\ ~s.is_fw_file /\ L[k].val # "codec"
  <2>1. Firmware(L, k) <=> s.is_fw_file \/ (L[k].key = "section" /\ L[k].val = "codec")
    BY <1>4, <1>6 DEF Section
  <2>2. (\E j \in 1 .. k - 1 : Title(L, j)) <=> s.is_in_pincfg
    BY <1>4
  <2>3. QED
    BY <1>9, <2>1, <2>2, Zenon DEF Ends
<1>11. s.is_in_pincfg => s.is_fw_file
  BY <1>2, <1>4 DEF Title, Firmware
<1>12. t.done <=> Ends(L, k)
  BY <1>1, <1>10, <1>11 DEF pincfg_line, Progress, PinsFields, PinKeys
<1>13. t.done <=> \E j \in 1 .. k : Ends(L, j)
  BY <1>2, <1>4, <1>12
<1>14. ASSUME ~t.done, t.is_in_pincfg
       PROVE  \E j \in 1 .. k : Title(L, j) /\ \A m \in j + 1 .. k : L[m].key # "section"
  <2>1. CASE s.is_in_pincfg
    <3>1. L[k].key # "section"
      BY <1>10, <1>12, <1>14, <2>1
    <3>2. PICK j \in 1 .. k - 1 : Title(L, j) /\ \A m \in j + 1 .. k - 1 : L[m].key # "section"
      BY <1>4, <2>1
    <3>3. j \in 1 .. k /\ \A m \in j + 1 .. k : m = k \/ m \in j + 1 .. k - 1
      BY <1>1
    <3>4. QED
      BY <3>1, <3>2, <3>3
  <2>2. CASE ~s.is_in_pincfg
    <3>1. Title(L, k)
      BY <1>5, <1>7, <1>14, <2>2
    <3>2. k \in 1 .. k /\ \A m : m \notin k + 1 .. k
      BY <1>1
    <3>3. QED
      BY <3>1, <3>2
  <2>3. QED
    BY <2>1, <2>2
<1>15. IsPinPair(s) <=> Counts(L, k)
  <2>1. IsPinPair(s) <=> L[k].key = "pair" /\ (s.is_fw_file => s.is_in_pincfg)
    BY DEF IsPinPair
  <2>2. L[k].key = "pair" => ~Ends(L, k) /\ (Inside(L, k) <=> (s.is_fw_file => s.is_in_pincfg))
    BY <1>9, <1>10
  <2>3. L[k].key = "pair" => \A j \in 1 .. k : ~Ends(L, j)
    BY <1>2, <1>4, <2>2
  <2>4. QED
    BY <2>1, <2>2, <2>3, Zenon DEF Counts
<1>16. Progress(t)
  <2> HIDE DEF t
  <2>1. t.is_fw_file <=> Firmware(L, k)
    BY <1>4, <1>5, <1>6
  <2>2. t.is_in_pincfg <=> \E j \in 1 .. k : Title(L, j)
    BY <1>5, <1>7, <1>8
  <2>3. t.pos - 1 = k /\ t.pos \in Nat \ {0} /\ t.pos <= Len(L) + 1
    BY <1>1, <1>3
  <2>4. ~t.done /\ t.is_in_pincfg =>
          \E j \in 1 .. k : Title(L, j) /\ \A m \in j + 1 .. k : L[m].key # "section"
    BY <1>14
  <2>5. QED
    BY <1>3, <1>13, <2>1, <2>2, <2>3, <2>4 DEF Progress
<1>17. QED
  BY <1>3, <1>15, <1>16

(* Before the first line.                                                  *)
LEMMA PinStart == ASSUME NEW ls, GoodLines(ls) PROVE Progress(ReadFrom(ls)) /\ ReadFrom(ls).lines = ls
<1>1. 1 .. 0 = {} /\ 1 - 1 = 0 /\ 1 <= Len(ls) + 1
  BY DEF GoodLines
<1>2. ~Firmware(ls, 0)
  BY <1>1 DEF Firmware
<1>3. QED
  BY <1>1, <1>2 DEF Progress, ReadFrom, PinsFields

(* The lines of an option that was found are lines of pins.                *)
LEMMA LinesGood ==
  ASSUME NEW c, IsCodec(c), NEW o,
         \/ PinOption[o].pair # <<>>
         \/ PinEntries(c, PinOption[o].name) # {}
         \/ PinOption[o].name \in DOMAIN PinFile
  PROVE  GoodLines(OptionLines(c, PinOption[o]))
<1>1. ASSUME NEW S, NEW vals \in Seq(S)
      PROVE  GoodLines(Pairs(vals))
  <2> DEFINE f == Pairs(vals)
             T == {Line("pair", v) : v \in S}
  <2>1. f = [k \in 1 .. Len(vals) |-> Line("pair", vals[k])] /\ Len(vals) \in Nat
    BY DEF Pairs
  <2>2. \A k \in 1 .. Len(vals) : Line("pair", vals[k]) \in T /\ Line("pair", vals[k]).key = "pair"
    BY DEF Line
  <2>3. \A k \in DOMAIN f : f[k].key = "pair"
    BY <2>1, <2>2
  <2> HIDE DEF T
  <2>4. f \in Seq(T)
    BY <2>1, <2>2
  <2> HIDE DEF f
  <2>5. Len(f) \in Nat /\ DOMAIN f = 1 .. Len(f)
    BY <2>4
  <2>6. GoodLines(f)
    BY <2>3, <2>5 DEF GoodLines, PinKeys
  <2>7. QED
    BY <2>6 DEF f
<1> DEFINE opt == PinOption[o]
           entries == PinEntries(c, opt.name)
<1>2. CASE opt.pair # <<>>
  <2>1. <<opt.pair>> \in Seq({opt.pair})
    OBVIOUS
  <2>2. OptionLines(c, opt) = Pairs(<<opt.pair>>)
    BY <1>2 DEF OptionLines
  <2>3. QED
    BY <1>1, <2>1, <2>2
<1>3. CASE opt.pair = <<>> /\ entries # {}
  <2>1. entries \subseteq DOMAIN c.sysfs
    BY DEF PinEntries
  <2>2. DOMAIN c.sysfs \subseteq Nat
    <3>1. PICK S : c.sysfs \in Seq(S)
      BY DEF IsCodec, IsSysfs
    <3>2. QED
      BY <3>1
  <2>3. \E e \in entries : \A k \in entries : e <= k
    <3>1. PICK e \in entries : \A k \in entries : ~(<<k, e>> \in OpToRel(<, Nat))
      BY <1>3, <2>1, <2>2, NatLessThanWellFounded, WFMin
    <3>2. \A k \in entries : <<k, e>> \in OpToRel(<, Nat) <=> k < e
      BY <2>1, <2>2, Zenon DEF OpToRel
    <3>3. \A k \in entries : ~(k < e)
      BY <3>1, <3>2, Zenon
    <3>4. QED
      BY <2>1, <2>2, <3>3
  <2>4. Least(entries) \in DOMAIN c.sysfs
    BY <2>1, <2>3 DEF Least
  <2>5. PICK S : c.sysfs[Least(entries)].vals \in Seq(S)
    BY <2>4 DEF IsCodec, IsSysfs, IsEntry
  <2>6. OptionLines(c, opt) = Pairs(c.sysfs[Least(entries)].vals)
    BY <1>3 DEF OptionLines
  <2>7. QED
    BY <1>1, <2>5, <2>6
<1>4. CASE opt.pair = <<>> /\ entries = {}
  <2>1. OptionLines(c, opt) = PinFile[opt.name] /\ opt.name \in DOMAIN PinFile
    BY <1>4 DEF OptionLines
  <2>2. /\ PinFile[opt.name] \in Seq(Range(PinFile[opt.name]))
        /\ \A k \in DOMAIN PinFile[opt.name] : PinFile[opt.name][k].key \in PinKeys
    BY <2>1, PinFileAssumption DEF PinKeys
  <2>3. PICK f, S : f = PinFile[opt.name] /\ f \in Seq(S)
    BY <2>2
  <2>4. Len(f) \in Nat /\ DOMAIN f = 1 .. Len(f)
    BY <2>3
  <2>5. QED
    BY <2>1, <2>2, <2>3, <2>4 DEF GoodLines
<1>5. QED
  BY <1>2, <1>3, <1>4

(* d is codec c with one pin overridden: the same nodes, as right as they   *)
(* were, and no default configuration moved but the one the pair names.     *)
OnePinSet(c, pair, d) ==
  /\ IsCodec(d) /\ DOMAIN d.nodes = DOMAIN c.nodes /\ d.sysfs = c.sysfs /\ d.vendor_id = c.vendor_id
  /\ \A nid \in DOMAIN c.nodes :
       /\ \A R : NodeOK(c.nodes[nid], nid, R) => NodeOK(d.nodes[nid], nid, R)
       /\ nid # AFG => d.nodes[nid].pin_default = IF nid = pair[1] THEN pair[2] ELSE c.nodes[nid].pin_default

(* A pair sets one pin, and leaves the codec as it was otherwise.          *)
LEMMA PinSet ==
  ASSUME NEW c, IsCodec(c), NEW pair
  PROVE  OnePinSet(c, pair, set_pincfg(c, pair))
<1> DEFINE d == set_pincfg(c, pair)
<1> SUFFICES OnePinSet(c, pair, d)
  OBVIOUS
<1> USE DEF OnePinSet
<1> HIDE DEF d
<1>1. CASE pair[1] = AFG
  <2> DEFINE a == [c.afg EXCEPT !.pin_default = pair[2]]
  <2>1. d = [c EXCEPT !.afg = a]
    BY <1>1 DEF d, set_pincfg
  <2> HIDE DEF a
  <2>2. IsCodec(d) /\ d.nodes = c.nodes /\ d.sysfs = c.sysfs /\ d.vendor_id = c.vendor_id
    BY <2>1 DEF IsCodec, CodecFields
  <2>3. QED
    BY <1>1, <2>2
<1>2. CASE pair[1] # AFG /\ pair[1] \in DOMAIN c.nodes
  <2> DEFINE n == [c.nodes[pair[1]] EXCEPT !.pin_default = pair[2]]
  <2>1. d = [c EXCEPT !.nodes[pair[1]] = n]
    BY <1>2 DEF d, set_pincfg
  <2>2. /\ IsNode(n) /\ n.pin_default = pair[2]
        /\ \A R : NodeOK(c.nodes[pair[1]], pair[1], R) => NodeOK(n, pair[1], R)
    BY <1>2 DEF IsCodec, IsNode, NodeFields, NodeOK
  <2>5. d.vendor_id = c.vendor_id
    BY <2>1 DEF IsCodec, CodecFields
  <2> HIDE DEF n
  <2>3. /\ IsCodec(d) /\ DOMAIN d.nodes = DOMAIN c.nodes /\ d.sysfs = c.sysfs
        /\ \A m \in DOMAIN c.nodes : d.nodes[m] = IF m = pair[1] THEN n ELSE c.nodes[m]
    BY <1>2, <2>1, <2>2, NodeReplaced
  <2>4. QED
    BY <2>2, <2>3, <2>5
<1>3. CASE pair[1] # AFG /\ pair[1] \notin DOMAIN c.nodes
  <2>1. d = c
    BY <1>3 DEF d, set_pincfg
  <2>2. QED
    BY <1>3, <2>1
<1>4. QED
  BY <1>1, <1>2, <1>3

(* One line more names a pin, or does not.                                 *)
LEMMA NamingNext ==
  ASSUME NEW ls, NEW k \in Nat \ {0}, NEW nid
  PROVE  /\ Counts(ls, k) /\ ls[k].val[1] = nid => Naming(ls, k + 1, nid) = Naming(ls, k, nid) \cup {k}
         /\ ~(Counts(ls, k) /\ ls[k].val[1] = nid) => Naming(ls, k + 1, nid) = Naming(ls, k, nid)
<1>1. (k + 1) - 1 = k /\ 1 .. k = (1 .. k - 1) \cup {k}
  OBVIOUS
<1>2. QED
  BY <1>1 DEF Naming

(* The last of a set of places that has one.                               *)
LEMMA LastIs ==
  ASSUME NEW k \in Nat, NEW S, S \subseteq 1 .. k, k \in S
  PROVE  LastOf(S) = k
<1>1. \A j \in S : j <= k
  OBVIOUS
<1>2. \A i \in S : (\A j \in S : j <= i) => i = k
  OBVIOUS
<1>3. QED
  BY <1>1, <1>2 DEF LastOf

(* What the first m options, and the lines before the k-th of another, say *)
(* of a pin.                                                               *)
OptionsNaming(c, opts, m, nid) == {i \in 1 .. m : OptionNames(c, opts[i], nid) # {}}

Expected(c, before, opts, m, nid) ==
  LET by == OptionsNaming(c, opts, m, nid)
  IN  IF by = {} THEN before ELSE OptionSays(c, opts[LastOf(by)], nid)

ExpectedIn(c, before, opts, m, ls, k, nid) ==
  LET at == Naming(ls, k, nid)
  IN  IF at = {} THEN Expected(c, before, opts, m, nid) ELSE ls[LastOf(at)].val[2]

(* A line of the option that is being read.                                *)
LEMMA ExpectedNext ==
  ASSUME NEW c, NEW before, NEW opts, NEW m, NEW ls, NEW k \in Nat \ {0}, NEW nid
  PROVE  ExpectedIn(c, before, opts, m, ls, k + 1, nid) =
           IF Counts(ls, k) /\ ls[k].val[1] = nid THEN ls[k].val[2]
           ELSE ExpectedIn(c, before, opts, m, ls, k, nid)
<1>1. CASE Counts(ls, k) /\ ls[k].val[1] = nid
  <2>1. Naming(ls, k + 1, nid) = Naming(ls, k, nid) \cup {k}
    BY <1>1, NamingNext
  <2>2. Naming(ls, k, nid) \cup {k} \subseteq 1 .. k
    BY DEF Naming
  <2>3. LastOf(Naming(ls, k + 1, nid)) = k
    BY <2>1, <2>2, LastIs
  <2>4. QED
    BY <1>1, <2>1, <2>3 DEF ExpectedIn
<1>2. CASE ~(Counts(ls, k) /\ ls[k].val[1] = nid)
  <2>1. Naming(ls, k + 1, nid) = Naming(ls, k, nid)
    BY <1>2, NamingNext
  <2>2. QED
    BY <1>2, <2>1 DEF ExpectedIn
<1>3. QED
  BY <1>1, <1>2

(* The end of an option: no line counts behind one that ends it.           *)
LEMMA ExpectedEnd ==
  ASSUME NEW c, NEW before, NEW opts, NEW m \in Nat, NEW s, Progress(s), GoodLines(s.lines),
         s.done \/ s.pos > Len(s.lines),
         s.lines = OptionLines(c, PinOption[opts[m + 1]]), NEW nid
  PROVE  Expected(c, before, opts, m + 1, nid) = ExpectedIn(c, before, opts, m, s.lines, s.pos, nid)
<1> DEFINE L == s.lines
           all == Naming(L, Len(L) + 1, nid)
           at == Naming(L, s.pos, nid)
           by == OptionsNaming(c, opts, m, nid)
           by1 == OptionsNaming(c, opts, m + 1, nid)
<1>1. all = at
  <2>1. s.pos \in Nat \ {0} /\ Len(L) \in Nat /\ s.pos <= Len(L) + 1 /\ (Len(L) + 1) - 1 = Len(L)
    BY DEF Progress, GoodLines
  <2>2. CASE s.pos > Len(L)
    <3>1. s.pos = Len(L) + 1
      BY <2>1, <2>2
    <3>2. QED
      BY <3>1
  <2>3. CASE s.done
    <3>1. PICK e \in 1 .. s.pos - 1 : Ends(L, e)
      BY <2>3 DEF Progress
    <3>2. \A j \in 1 .. Len(L) : Counts(L, j) => j < e
      <4>1. ASSUME NEW j \in 1 .. Len(L), ~(j < e) PROVE e \in 1 .. j
        BY <2>1, <3>1, <4>1
      <4>2. QED
        BY <3>1, <4>1 DEF Counts
    <3>3. \A j \in 1 .. Len(L) : Counts(L, j) => j \in 1 .. s.pos - 1
      BY <2>1, <3>1, <3>2
    <3>4. 1 .. s.pos - 1 \subseteq 1 .. Len(L)
      BY <2>1
    <3>5. QED
      BY <2>1, <3>3, <3>4 DEF Naming
  <2>4. QED
    BY <2>2, <2>3
<1>2. OptionNames(c, opts[m + 1], nid) = all
  BY DEF OptionNames
<1>3. 1 .. m + 1 = (1 .. m) \cup {m + 1} /\ m + 1 \notin 1 .. m
  OBVIOUS
<1>4. by1 = by \cup (IF all # {} THEN {m + 1} ELSE {})
  BY <1>2, <1>3 DEF OptionsNaming
<1>5. CASE all # {}
  <2>1. by1 \subseteq 1 .. m + 1 /\ m + 1 \in by1
    BY <1>4, <1>5 DEF OptionsNaming
  <2>2. LastOf(by1) = m + 1
    BY <2>1, LastIs
  <2>3. Expected(c, before, opts, m + 1, nid) = L[LastOf(all)].val[2]
    BY <1>2, <2>1, <2>2 DEF Expected, OptionSays
  <2>4. QED
    BY <1>1, <1>5, <2>3 DEF ExpectedIn
<1>6. CASE all = {}
  BY <1>1, <1>4, <1>6 DEF Expected, ExpectedIn
<1>7. QED
  BY <1>5, <1>6

(* Before its first line an option says nothing.                           *)
LEMMA ExpectedStart ==
  ASSUME NEW c, NEW before, NEW opts, NEW m, NEW ls, NEW nid
  PROVE  ExpectedIn(c, before, opts, m, ls, 1, nid) = Expected(c, before, opts, m, nid)
<1>1. 1 .. 1 - 1 = {}
  OBVIOUS
<1>2. QED
  BY <1>1 DEF ExpectedIn, Naming

(* What the options say depends on the entries of the codec only.          *)
LEMMA SameSays ==
  ASSUME NEW c, NEW d, d.sysfs = c.sysfs
  PROVE  /\ \A o : OptionLines(d, PinOption[o]) = OptionLines(c, PinOption[o])
         /\ \A before, opts, m, nid : Expected(d, before, opts, m, nid) = Expected(c, before, opts, m, nid)
         /\ \A before, opts, m, ls, k, nid :
              ExpectedIn(d, before, opts, m, ls, k, nid) = ExpectedIn(c, before, opts, m, ls, k, nid)
<1>1. \A o : OptionLines(d, PinOption[o]) = OptionLines(c, PinOption[o])
  BY DEF OptionLines, PinEntries
<1>2. \A o, nid : OptionNames(d, o, nid) = OptionNames(c, o, nid) /\ OptionSays(d, o, nid) = OptionSays(c, o, nid)
  BY <1>1 DEF OptionNames, OptionSays
<1>3. \A before, opts, m, nid : Expected(d, before, opts, m, nid) = Expected(c, before, opts, m, nid)
  <2>1. \A opts, m, nid : OptionsNaming(d, opts, m, nid) = OptionsNaming(c, opts, m, nid)
    BY <1>2 DEF OptionsNaming
  <2>2. QED
    BY <1>2, <2>1 DEF Expected
<1>4. QED
  BY <1>1, <1>3 DEF ExpectedIn

----------------------------------------------------------------------------
(* A verb selects none but a connection the node has.                      *)
Verbs == {"connect_sel", "power_state", "pin_ctl", "digi_cvt_1", "digi_cvt_2", "config_def",
          "gpio", "reg", "asp", "reset", "dip_index", "dip_data", "pin_sense"}

GoodVerb(v) == v.set \in Verbs /\ (v.set = "connect_sel" => v.val \in Nat)

SameList(m, n) ==
  DOMAIN m = DOMAIN n /\ m.nid = n.nid /\ m.num_nodes = n.num_nodes /\ m.curr_conn = n.curr_conn

(* No other verb touches the list.                                         *)
LEMMA VerbElse ==
  ASSUME NEW n, IsNode(n), NEW v, v.set \in Verbs \ {"connect_sel"}
  PROVE  SameList(set_verb(n, v), n)
<1> USE DEF IsNode, NodeFields, SameList
<1>1. \A x : SameList([n EXCEPT !.pinctl = x], n) /\ SameList([n EXCEPT !.power = x], n)
             /\ SameList([n EXCEPT !.dig_conv = x], n) /\ SameList([n EXCEPT !.dig_category = x], n)
  OBVIOUS
<1>2. \A k, x : SameList([n EXCEPT !.pin_default[k] = x], n) /\ SameList([n EXCEPT !.gpio[k] = x], n)
                /\ SameList([n EXCEPT !.reg[k] = x], n) /\ SameList([n EXCEPT !.asp[k] = x], n)
  OBVIOUS
<1>3. SameList(n, n)
  OBVIOUS
<1>13. /\ \A k, x : SameList(set_config_def(n, k, x), n)
       /\ \A p : SameList(set_asp_channel_slot(n, p), n)
  BY DEF set_config_def, set_asp_channel_slot
<1>14. /\ \A x : SameList(set_digi_cvt_1(n, x), n) /\ SameList(set_digi_cvt_2(n, x), n)
       /\ \A k, x : SameList(set_gpio(n, k, x), n)
  BY DEF set_digi_cvt_1, set_digi_cvt_2, set_gpio
<1> USE DEF Verbs
<1> HIDE DEF SameList, IsNode
<1>4. CASE v.set = "power_state"
  <2>1. set_verb(n, v) = set_power_state(n, v.val)
    BY <1>4 DEF set_verb
  <2>2. QED
    BY <1>1, <1>3, <2>1 DEF set_power_state
<1>5. CASE v.set = "config_def"
  <2>1. set_verb(n, v) = set_config_def(n, v.val[1], v.val[2])
    BY <1>5 DEF set_verb
  <2>2. QED
    BY <1>13, <2>1, Zenon
<1>6. CASE v.set = "reg"
  <2>1. \/ set_verb(n, v) = set_sdi_select(n, v.val[2])
        \/ set_verb(n, v) = set_dip_xmitctrl(n, v.val[2])
        \/ set_verb(n, v) = set_reg(n, v.val[1], v.val[2])
    BY <1>6 DEF set_verb
  <2>2. \A x : SameList(set_sdi_select(n, x), n)
    BY <1>2 DEF set_sdi_select
  <2>3. \A x : SameList(set_dip_xmitctrl(n, x), n)
    BY <1>2 DEF set_dip_xmitctrl
  <2>4. \A r, x : SameList(set_reg(n, r, x), n)
    BY <1>2 DEF set_reg
  <2>5. QED
    BY <2>1, <2>2, <2>3, <2>4
<1>7. CASE v.set = "asp"
  <2>1. set_verb(n, v) = set_asp_channel_slot(n, v.val)
    BY <1>7 DEF set_verb
  <2>2. QED
    BY <1>13, <2>1, Zenon
<1>8. CASE v.set \in {"pin_ctl", "digi_cvt_1", "digi_cvt_2", "gpio"}
  <2>1. \/ set_verb(n, v) = [n EXCEPT !.pinctl = v.val]
        \/ set_verb(n, v) = set_digi_cvt_1(n, v.val)
        \/ set_verb(n, v) = set_digi_cvt_2(n, v.val)
        \/ set_verb(n, v) = set_gpio(n, v.val[1], v.val[2])
    BY <1>8 DEF set_verb
  <2>2. QED
    BY <1>1, <1>14, <2>1, Zenon
<1>9. CASE v.set \in {"reset", "dip_index", "dip_data", "pin_sense"}
  <2>1. set_verb(n, v) = n
    BY <1>9 DEF set_verb
  <2>2. QED
    BY <1>3, <2>1
<1>10. QED
  BY <1>4, <1>5, <1>6, <1>7, <1>8, <1>9

(* And the one that does selects a connection the node has, or none.       *)
LEMMA VerbKeeps ==
  ASSUME NEW n, IsNode(n), NEW v, GoodVerb(v)
  PROVE  IsNode(set_verb(n, v)) /\ \A nid, R : NodeOK(n, nid, R) => NodeOK(set_verb(n, v), nid, R)
<1>1. CASE v.set = "connect_sel"
  <2> USE DEF IsNode, NodeFields
  <2>1. set_verb(n, v) = set_connect_sel(n, v.val)
    BY <1>1 DEF set_verb
  <2>2. CASE set_connect_sel(n, v.val) = n
    BY <2>1, <2>2
  <2>3. CASE ~(v.val >= n.num_nodes) /\ set_connect_sel(n, v.val) = [n EXCEPT !.curr_conn = v.val]
    BY <1>1, <2>1, <2>3, MaxConnsAssumption DEF NodeOK, GoodVerb
  <2>4. QED
    BY <2>2, <2>3 DEF set_connect_sel
<1>2. CASE v.set # "connect_sel"
  <2>1. PICK m : m = set_verb(n, v)
    OBVIOUS
  <2>2. SameList(m, n)
    BY <1>2, <2>1, VerbElse DEF GoodVerb
  <2>3. IsNode(m) /\ \A nid, R : NodeOK(n, nid, R) => NodeOK(m, nid, R)
    BY <2>2 DEF NodeOK, SameList, IsNode
  <2>4. QED
    BY <2>1, <2>3
<1>3. QED
  BY <1>1, <1>2

(* The parser with another codec, whose nodes are as right as they were.   *)
AsRight(p, q) ==
  /\ IsParser(q)
  /\ DOMAIN q.codec.nodes = DOMAIN p.codec.nodes /\ q.codec.vendor_id = p.codec.vendor_id
  /\ \A R : ParserOK(p, R) => ParserOK(q, R)

(* A node of the codec, or the function group, is changed.                 *)
LEMMA CmdKeeps ==
  ASSUME NEW p, IsParser(p), NEW v, GoodVerb(v), HasNode(p.codec, v.nid)
  PROVE  LET q == IF v.nid = AFG THEN [p EXCEPT !.codec.afg = set_verb(@, v)]
                  ELSE [p EXCEPT !.codec.nodes[v.nid] = set_verb(@, v)]
         IN  AsRight(p, q)
<1>1. CASE v.nid = AFG
  <2> DEFINE a == set_verb(p.codec.afg, v)
             q == [p EXCEPT !.codec.afg = a]
  <2> HIDE DEF a
  <2>1. AsRight(p, q)
    BY DEF AsRight, IsParser, ParserFields, IsCodec, CodecFields, ParserOK
  <2>2. QED
    BY <1>1, <2>1 DEF a
<1>2. CASE v.nid # AFG
  <2> DEFINE n == set_verb(p.codec.nodes[v.nid], v)
             c == [p.codec EXCEPT !.nodes[v.nid] = n]
             q == [p EXCEPT !.codec = c]
  <2>1. v.nid \in DOMAIN p.codec.nodes /\ IsCodec(p.codec) /\ IsNode(p.codec.nodes[v.nid])
    BY <1>2 DEF HasNode, IsParser, IsCodec
  <2>2. IsNode(n) /\ \A nid, R : NodeOK(p.codec.nodes[v.nid], nid, R) => NodeOK(n, nid, R)
    BY <2>1, VerbKeeps
  <2> HIDE DEF n
  <2>6. c.vendor_id = p.codec.vendor_id
    BY <2>1 DEF IsCodec, CodecFields
  <2>3. IsCodec(c) /\ DOMAIN c.nodes = DOMAIN p.codec.nodes
        /\ \A m \in DOMAIN c.nodes : c.nodes[m] = IF m = v.nid THEN n ELSE p.codec.nodes[m]
    BY <2>1, <2>2, NodeReplaced
  <2> HIDE DEF c
  <2>4. AsRight(p, q)
    BY <2>2, <2>3, <2>6 DEF AsRight, IsParser, ParserFields, ParserOK
  <2>5. QED
    BY <1>2, <2>4 DEF c, n
<1>3. QED
  BY <1>1, <1>2

(* The invariant that holds whatever the files are.                        *)
PinsOK ==
  /\ phase = "parse" => init_pincfg = <<>>
  /\ Progress(pins) /\ GoodLines(pins.lines)
  /\ phase = "parsed" =>
       \A nid \in DOMAIN parser.codec.nodes \ {AFG} :
         parser.codec.nodes[nid].pin_default
           = Expected(parser.codec, written.nodes[nid].pin_default, init_pincfg, Len(init_pincfg), nid)
  /\ phase = "pins" =>
       /\ Len(init_pincfg) \in Nat \ {0}
       /\ pins.lines = OptionLines(parser.codec, PinOption[init_pincfg[Len(init_pincfg)]])
       /\ \A nid \in DOMAIN parser.codec.nodes \ {AFG} :
            parser.codec.nodes[nid].pin_default
              = ExpectedIn(parser.codec, written.nodes[nid].pin_default, init_pincfg, Len(init_pincfg) - 1,
                           pins.lines, pins.pos, nid)

OptionsTyped == init_pincfg \in Seq(DOMAIN PinOption) /\ Len(init_pincfg) <= MaxPinOptions

Shape == IsParser(parser) /\ OptionsTyped /\ PinsOK

(* Nothing is read between two options.                                    *)
LEMMA NoLines == GoodLines(<<>>) /\ Progress(NoPins) /\ NoPins.lines = <<>>
<1>1. Len(<<>>) = 0 /\ 1 .. 0 = {}
  OBVIOUS
<1>2. GoodLines(<<>>)
  BY <1>1 DEF GoodLines
<1>3. QED
  BY <1>2, PinStart DEF NoPins

(* The invariant holds before the first line.                              *)
LEMMA InitShape == Init => Shape
<1> SUFFICES ASSUME Init PROVE Shape
  OBVIOUS
<1>1. <<>> \in Seq(DOMAIN PinOption) /\ Len(<<>>) = 0
  OBVIOUS
<1>2. OptionsTyped
  BY <1>1, MaxPinOptionsAssumption DEF Init, OptionsTyped
<1>3. PinsOK
  BY NoLines DEF Init, PinsOK
<1>4. QED
  BY <1>2, <1>3, NewParserFits DEF Init, Shape

(* Without an option that reads pins nothing is said of them.              *)
LEMMA StepShape == Shape /\ [Next]_vars => Shape'
<1> SUFFICES ASSUME Shape, [Next]_vars PROVE Shape'
  OBVIOUS
<1>0. IsParser(parser) /\ OptionsTyped /\ PinsOK
  BY DEF Shape
<1>1. CASE ReadLine
  <2>1. IsParser(parser')
    BY <1>0, <1>1, LineKeeps DEF ReadLine, Kept
  <2>2. OptionsTyped'
    BY <1>0, <1>1 DEF ReadLine, OptionsTyped
  <2>3. PinsOK'
    BY <1>0, <1>1 DEF ReadLine, Reading, PinsOK
  <2>4. QED
    BY <2>1, <2>2, <2>3 DEF Shape
<1>2. CASE EndOfFile
  <2>1. IsParser(parser')
    <3>1. \/ parser' = [parser EXCEPT !.codec = add_codec_extensions(@)]
          \/ \E err : parser' = Error(parser, err)
      BY <1>2 DEF EndOfFile
    <3>2. PICK c : c = add_codec_extensions(parser.codec)
      OBVIOUS
    <3>3. IsCodec(c)
      BY <1>0, <3>2, ExtensionsFit DEF IsParser
    <3>4. IsParser([parser EXCEPT !.codec = c])
      BY <1>0, <3>3, CodecReplaced
    <3>5. \A err : IsParser(Error(parser, err))
      BY <1>0 DEF Error, IsParser, ParserFields
    <3>6. QED
      BY <3>1, <3>2, <3>4, <3>5
  <2>2. OptionsTyped'
    BY <1>0, <1>2 DEF EndOfFile, OptionsTyped
  <2>3. PinsOK'
    <3>1. phase' \in {"failed", "parsed", "end"}
      BY <1>2 DEF EndOfFile, Reading
    <3>2. phase' = "parsed" => written' = parser'.codec /\ init_pincfg' = <<>>
      BY <1>0, <1>2 DEF EndOfFile, Reading, PinsOK
    <3>3. Progress(pins') /\ GoodLines(pins'.lines)
      BY <1>0, <1>2 DEF EndOfFile, PinsOK
    <3>4. \A c, before, nid : Expected(c, before, <<>>, Len(<<>>), nid) = before
      BY DEF Expected, OptionsNaming
    <3>5. QED
      BY <3>1, <3>2, <3>3, <3>4 DEF PinsOK
  <2>4. QED
    BY <2>1, <2>2, <2>3 DEF Shape
<1>3. ASSUME NEW o \in DOMAIN PinOption, override_pincfg(o)
      PROVE  Shape'
  <2>1. IsParser(parser')
    BY <1>0, <1>3 DEF override_pincfg, Error, IsParser, ParserFields
  <2>2. /\ init_pincfg' = Append(init_pincfg, o) /\ Len(init_pincfg) \in Nat
        /\ Len(init_pincfg') = Len(init_pincfg) + 1 /\ init_pincfg'[Len(init_pincfg) + 1] = o
        /\ \A k \in 1 .. Len(init_pincfg) : init_pincfg'[k] = init_pincfg[k]
        /\ init_pincfg' \in Seq(DOMAIN PinOption)
    BY <1>0, <1>3 DEF override_pincfg, OptionsTyped
  <2>3. OptionsTyped'
    BY <1>3, <2>2, MaxPinOptionsAssumption DEF override_pincfg, OptionsTyped
  <2>4. CASE phase' = "failed" /\ UNCHANGED pins
    BY <1>0, <2>1, <2>3, <2>4 DEF PinsOK, Shape
  <2>5. CASE /\ phase' = "pins" /\ UNCHANGED <<parser, written>>
             /\ pins' = ReadFrom(OptionLines(parser.codec, PinOption[o]))
             /\ GoodLines(OptionLines(parser.codec, PinOption[o]))
    <3>1. PICK ls : ls = OptionLines(parser.codec, PinOption[o])
      OBVIOUS
    <3>2. Progress(pins') /\ pins'.lines = ls /\ GoodLines(ls) /\ pins'.pos = 1
      BY <2>5, <3>1, PinStart DEF ReadFrom
    <3>3. \A c, before, nid : Expected(c, before, init_pincfg', Len(init_pincfg), nid)
                              = Expected(c, before, init_pincfg, Len(init_pincfg), nid)
      <4>1. PICK a, b, m : a = init_pincfg /\ b = init_pincfg' /\ m = Len(init_pincfg)
        OBVIOUS
      <4>2. \A k \in 1 .. m : b[k] = a[k]
        BY <2>2, <4>1
      <4>3. \A c, nid : OptionsNaming(c, b, m, nid) = OptionsNaming(c, a, m, nid)
        BY <4>2 DEF OptionsNaming
      <4>4. m \in Nat
        BY <2>2, <4>1
      <4>5. \A c, nid : OptionsNaming(c, a, m, nid) # {} =>
                          b[LastOf(OptionsNaming(c, a, m, nid))] = a[LastOf(OptionsNaming(c, a, m, nid))]
        <5>1. ASSUME NEW c, NEW nid, OptionsNaming(c, a, m, nid) # {}
              PROVE  LastOf(OptionsNaming(c, a, m, nid)) \in 1 .. m
          <6> DEFINE S == OptionsNaming(c, a, m, nid)
          <6>1. S \subseteq 1 .. m
            BY DEF OptionsNaming
          <6>2. S \subseteq 0 .. (m + 1) - 1
            BY <4>4, <6>1
          <6>3. S # {} /\ m + 1 \in Nat
            BY <4>4, <5>1
          <6> HIDE DEF S
          <6>6. \E i \in S : \A j \in S : j <= i
            BY <6>2, <6>3, LastMark
          <6>4. LastOf(S) \in S
            BY <6>6 DEF LastOf
          <6>5. QED
            BY <6>1, <6>4 DEF S
        <5>2. QED
          BY <4>2, <5>1
      <4>6. QED
        BY <4>1, <4>3, <4>5 DEF Expected
    <3>4. PinsOK'
      <4>1. init_pincfg'[Len(init_pincfg')] = o /\ Len(init_pincfg') - 1 = Len(init_pincfg)
            /\ Len(init_pincfg') \in Nat \ {0}
        BY <2>2
      <4>2. \A nid \in DOMAIN parser.codec.nodes \ {AFG} :
              parser.codec.nodes[nid].pin_default
                = ExpectedIn(parser.codec, written.nodes[nid].pin_default, init_pincfg', Len(init_pincfg), ls, 1, nid)
        BY <1>0, <1>3, <3>3, ExpectedStart DEF override_pincfg, PinsOK
      <4>3. QED
        BY <2>5, <3>1, <3>2, <4>1, <4>2 DEF PinsOK
    <3>5. QED
      BY <2>1, <2>3, <3>4 DEF Shape
  <2>6. \/ phase' = "failed" /\ UNCHANGED pins
        \/ /\ phase' = "pins" /\ UNCHANGED <<parser, written>>
           /\ pins' = ReadFrom(OptionLines(parser.codec, PinOption[o]))
           /\ PinOption[o].pair # <<>> \/ PinEntries(parser.codec, PinOption[o].name) # {}
              \/ PinOption[o].name \in DOMAIN PinFile
    BY <1>3 DEF override_pincfg, proc
  <2>7. IsCodec(parser.codec)
    BY <1>0 DEF IsParser
  <2>8. QED
    BY <2>4, <2>5, <2>6, <2>7, LinesGood
<1>4. CASE ReadPins
  <2> DEFINE pair == pins.lines[pins.pos].val
             c == set_pincfg(parser.codec, pair)
             counts == Counts(pins.lines, pins.pos)
  <2>1. /\ phase = "pins" /\ phase' = "pins" /\ UNCHANGED <<init_pincfg, written>>
        /\ ~pins.done /\ ~(pins.pos > Len(pins.lines)) /\ pins' = pincfg_line(pins)
        /\ parser' = IF IsPinPair(pins) THEN [parser EXCEPT !.codec = c] ELSE parser
    BY <1>4 DEF ReadPins, PinsRead
  <2>2. /\ Progress(pins') /\ pins'.lines = pins.lines /\ pins'.pos = pins.pos + 1
        /\ IsPinPair(pins) <=> counts
    <3>1. pins.pos <= Len(pins.lines)
      BY <1>0, <2>1 DEF PinsOK, Progress, GoodLines
    <3>2. QED
      BY <1>0, <2>1, <3>1, PinLine DEF PinsOK
  <2>3. IsCodec(parser.codec)
    BY <1>0 DEF IsParser
  <2> HIDE DEF pair
  <2>4. /\ IsCodec(c) /\ DOMAIN c.nodes = DOMAIN parser.codec.nodes /\ c.sysfs = parser.codec.sysfs
        /\ \A nid \in DOMAIN parser.codec.nodes : nid # AFG =>
             c.nodes[nid].pin_default = IF nid = pair[1] THEN pair[2] ELSE parser.codec.nodes[nid].pin_default
    <3>1. OnePinSet(parser.codec, pair, c)
      BY <2>3, PinSet
    <3>2. QED
      BY <3>1 DEF OnePinSet
  <2> USE DEF pair
  <2> HIDE DEF c
  <2>5. IsParser([parser EXCEPT !.codec = c]) /\ [parser EXCEPT !.codec = c].codec = c
    BY <1>0, <2>4, CodecReplaced
  <2>6. /\ IsParser(parser')
        /\ parser'.codec = IF counts THEN c ELSE parser.codec
        /\ parser'.codec.sysfs = parser.codec.sysfs
        /\ DOMAIN parser'.codec.nodes = DOMAIN parser.codec.nodes
    BY <1>0, <2>1, <2>2, <2>4, <2>5
  <2>7. OptionsTyped'
    BY <1>0, <2>1 DEF OptionsTyped
  <2>8. ASSUME NEW nid \in DOMAIN parser.codec.nodes \ {AFG}
        PROVE  parser'.codec.nodes[nid].pin_default
                 = ExpectedIn(parser'.codec, written.nodes[nid].pin_default, init_pincfg, Len(init_pincfg) - 1,
                              pins.lines, pins.pos + 1, nid)
    <3>1. PICK d, before, m, ls, k :
            /\ d = parser.codec /\ before = written.nodes[nid].pin_default /\ m = Len(init_pincfg) - 1
            /\ ls = pins.lines /\ k = pins.pos
      OBVIOUS
    <3>2. k \in Nat \ {0}
      BY <1>0, <3>1 DEF PinsOK, Progress
    <3>3. d.nodes[nid].pin_default = ExpectedIn(d, before, init_pincfg, m, ls, k, nid)
      BY <1>0, <2>1, <3>1 DEF PinsOK
    <3>4. ExpectedIn(d, before, init_pincfg, m, ls, k + 1, nid)
            = IF Counts(ls, k) /\ ls[k].val[1] = nid THEN ls[k].val[2]
              ELSE ExpectedIn(d, before, init_pincfg, m, ls, k, nid)
      BY <3>2, ExpectedNext
    <3>5. parser'.codec.nodes[nid].pin_default
            = IF Counts(ls, k) /\ ls[k].val[1] = nid THEN ls[k].val[2] ELSE d.nodes[nid].pin_default
      BY <2>4, <2>6, <2>8, <3>1
    <3>6. ExpectedIn(parser'.codec, before, init_pincfg, m, ls, k + 1, nid)
            = ExpectedIn(d, before, init_pincfg, m, ls, k + 1, nid)
      BY <2>6, <3>1, SameSays
    <3>7. QED
      BY <3>1, <3>3, <3>4, <3>5, <3>6
  <2>9. OptionLines(parser'.codec, PinOption[init_pincfg[Len(init_pincfg)]]) = pins.lines
    BY <1>0, <2>1, <2>6, SameSays DEF PinsOK
  <2>10. PinsOK'
    BY <1>0, <2>1, <2>2, <2>6, <2>8, <2>9 DEF PinsOK
  <2>11. QED
    BY <2>6, <2>7, <2>10 DEF Shape
<1>5. CASE EndOfPins
  <2>1. /\ phase = "pins" /\ phase' = "parsed" /\ UNCHANGED <<init_pincfg, written, parser>>
        /\ (pins.done \/ pins.pos > Len(pins.lines)) /\ pins' = NoPins
    BY <1>5 DEF EndOfPins, PinsRead
  <2>2. ASSUME NEW nid \in DOMAIN parser.codec.nodes \ {AFG}
        PROVE  parser.codec.nodes[nid].pin_default
                 = Expected(parser.codec, written.nodes[nid].pin_default, init_pincfg, Len(init_pincfg), nid)
    <3>1. PICK s, m, opts : s = pins /\ opts = init_pincfg /\ m = Len(init_pincfg) - 1
      OBVIOUS
    <3>2. m \in Nat /\ m + 1 = Len(opts) /\ Progress(s) /\ GoodLines(s.lines)
          /\ (s.done \/ s.pos > Len(s.lines)) /\ s.lines = OptionLines(parser.codec, PinOption[opts[m + 1]])
      BY <1>0, <1>5, <2>1, <3>1 DEF PinsOK, EndOfPins, PinsRead
    <3>3. Expected(parser.codec, written.nodes[nid].pin_default, opts, m + 1, nid)
            = ExpectedIn(parser.codec, written.nodes[nid].pin_default, opts, m, s.lines, s.pos, nid)
      BY <3>2, ExpectedEnd
    <3>4. QED
      BY <1>0, <2>1, <3>1, <3>2, <3>3 DEF PinsOK
  <2>3. PinsOK'
    BY <1>5, <2>1, <2>2, NoLines DEF PinsOK, EndOfPins
  <2>4. QED
    BY <1>0, <1>5, <2>1, <2>3 DEF Shape, OptionsTyped
<1>6. CASE StartDriver
  <2>1. phase' = "up" /\ UNCHANGED <<init_pincfg, parser, pins>>
    BY <1>6 DEF StartDriver
  <2>2. QED
    BY <1>0, <2>1 DEF Shape, OptionsTyped, PinsOK
<1>7. ASSUME NEW v \in DOMAIN Verb, hda_cmd(v)
      PROVE  Shape'
  <2>1. phase' = "changed" /\ UNCHANGED <<init_pincfg, pins>>
    BY <1>7 DEF hda_cmd
  <2>2. IsParser(parser')
    <3>1. HasNode(parser.codec, Verb[v].nid) /\ GoodVerb(Verb[v])
      BY <1>7, VerbAssumption DEF hda_cmd, proc, GoodVerb, Verbs
    <3>2. parser' = IF Verb[v].nid = AFG THEN [parser EXCEPT !.codec.afg = set_verb(@, Verb[v])]
                    ELSE [parser EXCEPT !.codec.nodes[Verb[v].nid] = set_verb(@, Verb[v])]
      BY <1>7 DEF hda_cmd
    <3>3. QED
      BY <1>0, <3>1, <3>2, CmdKeeps DEF AsRight
  <2>3. QED
    BY <1>0, <2>1, <2>2 DEF Shape, OptionsTyped, PinsOK
<1>8. CASE hda_log_dump_proc
  <2>1. phase' = "reparse" /\ parser' = NewParser /\ init_pincfg' = <<>> /\ UNCHANGED pins
    BY <1>8 DEF hda_log_dump_proc
  <2>2. <<>> \in Seq(DOMAIN PinOption) /\ Len(<<>>) = 0
    OBVIOUS
  <2>3. OptionsTyped'
    BY <2>1, <2>2, MaxPinOptionsAssumption DEF OptionsTyped
  <2>4. QED
    BY <1>0, <2>1, <2>3, NewParserFits DEF Shape, PinsOK
<1>9. CASE UNCHANGED vars
  BY <1>0, <1>9 DEF vars, Shape, OptionsTyped, PinsOK
<1>10. QED
  BY <1>1, <1>2, <1>3, <1>4, <1>5, <1>6, <1>7, <1>8, <1>9 DEF Next

----------------------------------------------------------------------------
(* While a file is read, the node being read has nothing selected.         *)
TypeInv == TypeOK /\ (Reading => Fit(parser))

(* The new parser fits.                                                    *)
LEMMA InitTypes == Init => TypeInv
<1> SUFFICES ASSUME Init PROVE TypeInv
  OBVIOUS
<1>1. Fit(parser) /\ ParserOK(parser, {})
  BY NewParserFits DEF Init, Fit
<1>2. OptionsTyped
  BY InitShape DEF Shape
<1>3. codec_index \in Index /\ phase = "parse" /\ pos = 1 /\ pins.pos = 1
  BY DEF Init, NoPins, ReadFrom
<1>4. QED
  BY <1>1, <1>2, <1>3 DEF TypeInv, TypeOK, OptionsTyped, Reading

(* Which lists a fixup replaces depends on the vendor and the nodes.       *)
LEMMA SameReplaced ==
  ASSUME NEW c, NEW d, DOMAIN d.nodes = DOMAIN c.nodes, d.vendor_id = c.vendor_id
  PROVE  Replaced(d) = Replaced(c)
  BY DEF Replaced

(* An error leaves the codec alone.                                        *)
LEMMA ErrorRight ==
  ASSUME NEW p, IsParser(p), NEW R, ParserOK(p, R),
         NEW err \in {"EBADFD", "ENOMEM", "ENODEV", "EINVAL", "fault"}
  PROVE  ParserOK(Error(p, err), R) /\ Error(p, err).codec = p.codec
  BY DEF Error, ParserOK, IsParser, ParserFields

(* The end of a file: a fixup that writes behind an array changes nothing  *)
(* that is seen, and after the others at most a list that was replaced     *)
(* does not reach to the selection.                                        *)
LEMMA EndRight ==
  ASSUME IsParser(parser), ParserOK(parser, {}), EndOfFile
  PROVE  ParserOK(parser', Replaced(parser'.codec))
<1> DEFINE c == parser.codec
<1>1. PICK d : d = add_codec_extensions(c)
  OBVIOUS
<1>2. IsCodec(c) /\ Sound(c, {})
  BY DEF IsParser, ParserOK, Sound
<1>3. /\ IsCodec(d) /\ DOMAIN d.nodes = DOMAIN c.nodes /\ d.vendor_id = c.vendor_id
      /\ ~FixupOverruns(c) => Sound(d, Replaced(c))
  BY <1>1, <1>2, ExtensionsFit
<1>4. Replaced(d) = Replaced(c)
  BY <1>3, SameReplaced
<1>5. CASE parser' = [parser EXCEPT !.codec = d] /\ ~FixupOverruns(c)
  <2>1. /\ parser'.codec = d /\ parser'.mode = parser.mode /\ parser'.err = parser.err
        /\ parser'.node = parser.node
    BY <1>5 DEF IsParser, ParserFields
  <2>2. QED
    BY <1>3, <1>4, <1>5, <2>1 DEF ParserOK, Sound
<1>6. ASSUME NEW err \in {"EBADFD", "ENOMEM", "ENODEV", "EINVAL", "fault"}, parser' = Error(parser, err)
      PROVE  ParserOK(parser', Replaced(parser'.codec))
  <2>1. \A R : ParserOK(parser, R)
    BY DEF ParserOK, NodeOK
  <2>2. QED
    BY <1>6, <2>1, ErrorRight
<1>7. \/ parser' = [parser EXCEPT !.codec = d] /\ ~FixupOverruns(c)
      \/ \E err \in {"EBADFD", "ENOMEM", "ENODEV", "EINVAL", "fault"} : parser' = Error(parser, err)
  BY <1>1 DEF EndOfFile, ParserOK, proc
<1>8. QED
  BY <1>5, <1>6, <1>7

(* Each step leaves what fits, whatever line it reads.                     *)
LEMMA StepTypes == Shape /\ Shape' /\ TypeInv /\ [Next]_vars => TypeInv'
<1> SUFFICES ASSUME Shape, Shape', TypeInv, [Next]_vars PROVE TypeInv'
  OBVIOUS
<1>1. IsParser(parser) /\ OptionsTyped' /\ PinsOK'
  BY DEF Shape
<1>2. /\ codec_index \in Index \cup {NoIndex} /\ pos \in Nat \ {0}
      /\ ParserOK(parser, IF Reading THEN {} ELSE Replaced(parser.codec))
      /\ phase \in {"parse", "parsed", "pins", "up", "changed", "reparse", "end", "failed"}
  BY DEF TypeInv, TypeOK, proc
<1>3. pins'.pos \in Nat \ {0}
  BY <1>1 DEF PinsOK, Progress
<1>4. ASSUME codec_index' \in Index \cup {NoIndex}, pos' \in Nat \ {0}, phase' \in {"parse", "reparse"}, Fit(parser')
      PROVE  TypeInv'
  BY <1>1, <1>3, <1>4 DEF TypeInv, TypeOK, OptionsTyped, Reading, Fit
<1>5. ASSUME UNCHANGED <<codec_index, pos>>, ParserOK(parser', Replaced(parser'.codec)),
             phase' \in {"parsed", "pins", "up", "changed", "end", "failed"}
      PROVE  TypeInv'
  BY <1>1, <1>2, <1>3, <1>5 DEF TypeInv, TypeOK, OptionsTyped, Reading, proc
<1>6. CASE ReadLine
  <2>1. /\ Reading /\ parser.err = "OK" /\ pos <= Len(file) /\ pos' = pos + 1
        /\ parser' = parse_line(parser, codec_index, file[pos]) /\ UNCHANGED <<codec_index, phase>>
    BY <1>6 DEF ReadLine
  <2>2. Fit(parser)
    BY <2>1 DEF TypeInv
  <2>3. Fit(parser')
    BY <1>1, <2>1, <2>2, LineKeeps DEF Kept
  <2>4. QED
    BY <1>2, <1>4, <2>1, <2>3 DEF Reading
<1>7. CASE EndOfFile
  <2>1. phase' \in {"failed", "parsed", "end"} /\ UNCHANGED <<codec_index, pos>> /\ Reading
    BY <1>7 DEF EndOfFile, Reading
  <2>2. ParserOK(parser', Replaced(parser'.codec))
    BY <1>1, <1>2, <1>7, <2>1, EndRight
  <2>3. QED
    BY <1>5, <2>1, <2>2
<1>8. ASSUME NEW o \in DOMAIN PinOption, override_pincfg(o)
      PROVE  TypeInv'
  <2>1. phase' \in {"failed", "pins"} /\ UNCHANGED <<codec_index, pos>> /\ ~Reading
        /\ (parser' = parser \/ parser' = Error(parser, "EINVAL"))
    BY <1>8 DEF override_pincfg, Reading
  <2>2. ParserOK(parser, Replaced(parser.codec))
    BY <1>2, <2>1
  <2>3. ParserOK(parser', Replaced(parser'.codec))
    BY <1>1, <2>1, <2>2, ErrorRight
  <2>4. QED
    BY <1>5, <2>1, <2>3
<1>9. CASE ReadPins
  <2> DEFINE pair == pins.lines[pins.pos].val
             c == set_pincfg(parser.codec, pair)
  <2>1. /\ phase' = "pins" /\ UNCHANGED <<codec_index, pos>> /\ ~Reading
        /\ parser' \in {parser, [parser EXCEPT !.codec = c]}
    BY <1>9 DEF ReadPins, Reading
  <2> HIDE DEF pair
  <2>2. IsCodec(parser.codec) /\ ParserOK(parser, Replaced(parser.codec))
    BY <1>1, <1>2, <2>1 DEF IsParser
  <2>3. /\ DOMAIN c.nodes = DOMAIN parser.codec.nodes /\ c.vendor_id = parser.codec.vendor_id
        /\ \A nid \in DOMAIN parser.codec.nodes : \A R :
             NodeOK(parser.codec.nodes[nid], nid, R) => NodeOK(c.nodes[nid], nid, R)
    <3>1. OnePinSet(parser.codec, pair, c)
      BY <2>2, PinSet
    <3>2. QED
      BY <3>1 DEF OnePinSet
  <2> HIDE DEF c
  <2>4. Replaced(c) = Replaced(parser.codec)
    BY <2>3, SameReplaced
  <2>5. [parser EXCEPT !.codec = c].codec = c /\ ParserOK([parser EXCEPT !.codec = c], Replaced(c))
    BY <1>1, <2>2, <2>3, <2>4 DEF ParserOK, IsParser, ParserFields
  <2>6. QED
    BY <1>5, <2>1, <2>2, <2>5
<1>10. CASE EndOfPins
  <2>1. phase' = "parsed" /\ UNCHANGED <<codec_index, pos, parser>> /\ ~Reading
    BY <1>10 DEF EndOfPins, Reading
  <2>2. QED
    BY <1>2, <1>5, <2>1
<1>11. CASE StartDriver
  <2>1. phase' = "up" /\ UNCHANGED <<codec_index, pos, parser>> /\ ~Reading
    BY <1>11 DEF StartDriver, Reading
  <2>2. QED
    BY <1>2, <1>5, <2>1
<1>12. ASSUME NEW v \in DOMAIN Verb, hda_cmd(v)
       PROVE  TypeInv'
  <2>1. phase' = "changed" /\ UNCHANGED <<codec_index, pos>> /\ ~Reading
    BY <1>12 DEF hda_cmd, Reading
  <2>2. HasNode(parser.codec, Verb[v].nid) /\ GoodVerb(Verb[v])
    BY <1>12, VerbAssumption DEF hda_cmd, proc, GoodVerb, Verbs
  <2>3. parser' = IF Verb[v].nid = AFG THEN [parser EXCEPT !.codec.afg = set_verb(@, Verb[v])]
                  ELSE [parser EXCEPT !.codec.nodes[Verb[v].nid] = set_verb(@, Verb[v])]
    BY <1>12 DEF hda_cmd
  <2>4. AsRight(parser, parser')
    BY <1>1, <2>2, <2>3, CmdKeeps
  <2>5. ParserOK(parser', Replaced(parser'.codec))
    BY <1>2, <2>1, <2>4, SameReplaced DEF AsRight
  <2>6. QED
    BY <1>5, <2>1, <2>5
<1>13. CASE hda_log_dump_proc
  <2>1. phase' = "reparse" /\ parser' = NewParser /\ codec_index' = NoIndex /\ pos' = 1
    BY <1>13 DEF hda_log_dump_proc
  <2>2. QED
    BY <1>4, <2>1, NewParserFits
<1>14. CASE UNCHANGED vars
  BY <1>14 DEF vars, TypeInv, TypeOK, Reading, proc
<1>15. QED
  BY <1>6, <1>7, <1>8, <1>9, <1>10, <1>11, <1>12, <1>13, <1>14 DEF Next

(* Whatever the files, the options and the verbs are, the parser and the   *)
(* options keep to what the invariant of the pins says.                    *)
THEOREM StartupShape == Spec => []Shape
<1>1. Init => Shape
  BY InitShape
<1>2. Shape /\ [Next]_vars => Shape'
  BY StepShape
<1>3. QED
  BY <1>1, <1>2, PTL DEF Spec

(* Whatever the files hold: the parser believes no list of more than 127   *)
(* connections, reads the connections of no list without a node, and after *)
(* the fixups, the options and the verbs each selection points into its    *)
(* list, but for the lists that a fixup replaced.  Counts that the arrays  *)
(* have no room for are not assumed away: the parser and the fixups test   *)
(* none, and where they write behind an array the file ends in a fault.    *)
THEOREM StartupTypeCorrect == Spec => []TypeOK
<1>1. Init => TypeInv
  BY InitTypes
<1>2. Shape /\ Shape' /\ TypeInv /\ [Next]_vars => TypeInv'
  BY StepTypes
<1>3. TypeInv => TypeOK
  BY DEF TypeInv
<1>4. QED
  BY <1>1, <1>2, <1>3, StartupShape, PTL DEF Spec

(* The last option that names a pin decides on its configuration.          *)
THEOREM PinsOverride == Spec => []InitPinsOverride
<1>1. Shape => InitPinsOverride
  <2> SUFFICES ASSUME Shape, phase = "parsed", NEW nid \in DOMAIN parser.codec.nodes \ {AFG}
               PROVE  parser.codec.nodes[nid].pin_default
                        = LET by == {k \in DOMAIN init_pincfg : OptionNames(parser.codec, init_pincfg[k], nid) # {}}
                          IN  IF by = {} THEN written.nodes[nid].pin_default
                              ELSE OptionSays(parser.codec, init_pincfg[LastOf(by)], nid)
    BY DEF InitPinsOverride, proc
  <2>1. DOMAIN init_pincfg = 1 .. Len(init_pincfg)
    BY DEF Shape, OptionsTyped
  <2>2. parser.codec.nodes[nid].pin_default
          = Expected(parser.codec, written.nodes[nid].pin_default, init_pincfg, Len(init_pincfg), nid)
    BY DEF Shape, PinsOK
  <2>3. QED
    BY <2>1, <2>2 DEF Expected, OptionsNaming
<1>2. QED
  BY <1>1, StartupShape, PTL
----------------------------------------------------------------------------
(* Shell *)

Pair == [key : STRING, val : STRING \ {None}]

HintKeys == {hints[i].key : i \in DOMAIN hints}
ToldKeys == {told[k].key : k \in DOMAIN told}
OneHintEach == \A i, j \in DOMAIN hints : hints[i].key = hints[j].key => i = j

(* Line k is the last of ls about the key.                                 *)
IsLast(ls, k, key) ==
  k \in DOMAIN ls /\ ls[k].key = key /\ \A j \in k + 1 .. Len(ls) : ls[j].key # key

(* The table has what it was told last of each of its keys; its keys are   *)
(* those that were stored, and as long as there is room these are all.     *)
HintsTyped ==
  /\ hints \in Seq(Pair) /\ told \in Seq(HintLine)
  /\ OneHintEach /\ Len(hints) <= MAX_HINTS
ValuesLast == \A i \in DOMAIN hints : \E k : IsLast(told, k, hints[i].key) /\ told[k].val = hints[i].val
KeysStored == \A key : key \in HintKeys <=> Stored(key)
RoomLeft == Len(hints) < MAX_HINTS => ToldKeys \subseteq HintKeys

HintInv == HintsTyped /\ ValuesLast /\ KeysStored /\ RoomLeft

(* The table has as many keys as entries.                                  *)
LEMMA KeysCounted ==
  ASSUME hints \in Seq(Pair), OneHintEach
  PROVE  IsFiniteSet(HintKeys) /\ Cardinality(HintKeys) = Len(hints)
<1> DEFINE n == Len(hints)
           f == [i \in 1 .. n |-> hints[i].key]
<1>1. n \in Nat /\ DOMAIN hints = 1 .. n
  OBVIOUS
<1>2. IsFiniteSet(1 .. n) /\ Cardinality(1 .. n) = n
  BY <1>1, FS_Interval
<1>3. f \in Surjection(1 .. n, HintKeys)
  BY <1>1 DEF Surjection, HintKeys
<1>4. f \in Injection(1 .. n, HintKeys)
  BY <1>1, <1>3 DEF Surjection, Injection, IsInjective, OneHintEach
<1> HIDE DEF f
<1>5. QED
  BY <1>2, <1>3, <1>4, FS_Surjection

(* The lines name finitely many keys.                                      *)
LEMMA ToldFinite ==
  ASSUME told \in Seq(HintLine)
  PROVE  IsFiniteSet(ToldKeys)
<1> DEFINE f == [i \in 1 .. Len(told) |-> told[i].key]
<1>1. Len(told) \in Nat /\ DOMAIN told = 1 .. Len(told)
  OBVIOUS
<1>2. IsFiniteSet(1 .. Len(told))
  BY <1>1, FS_Interval
<1>3. f \in Surjection(1 .. Len(told), ToldKeys)
  BY <1>1 DEF Surjection, ToldKeys
<1> HIDE DEF f
<1>4. QED
  BY <1>2, <1>3, FS_Surjection

(* One line more: only its own key can find a place by it, if the others   *)
(* so far have not filled the table.                                       *)
LEMMA ToldGrows ==
  ASSUME told \in Seq(HintLine), NEW l \in HintLine, told' = Append(told, l)
  PROVE  /\ told' \in Seq(HintLine)
         /\ DOMAIN told' = DOMAIN told \cup {Len(told) + 1} /\ Len(told') = Len(told) + 1
         /\ told'[Len(told) + 1] = l /\ \A k \in DOMAIN told : told'[k] = told[k]
         /\ ToldKeys' = ToldKeys \cup {l.key}
         /\ \A key : Stored(key)' <=> \/ Stored(key)
                                      \/ key = l.key /\ Cardinality(ToldKeys \ {key}) < MAX_HINTS
<1>1. Len(told) \in Nat /\ DOMAIN told = 1 .. Len(told)
  OBVIOUS
<1>2. /\ told' \in Seq(HintLine) /\ DOMAIN told' = 1 .. Len(told) + 1 /\ Len(told') = Len(told) + 1
      /\ told'[Len(told) + 1] = l /\ \A k \in DOMAIN told : told'[k] = told[k]
  BY <1>1
<1>3. DOMAIN told' = DOMAIN told \cup {Len(told) + 1}
  BY <1>1, <1>2
<1>4. ToldKeys' = ToldKeys \cup {l.key}
  BY <1>1, <1>2, <1>3 DEF ToldKeys
<1>5. \A k \in DOMAIN told : Before(k)' = Before(k)
  BY <1>1, <1>2 DEF Before
<1>6. PICK m : m = Len(told) + 1
  OBVIOUS
<1>7. Before(m)' = ToldKeys
  <2>1. 1 .. m - 1 = DOMAIN told
    BY <1>1, <1>6
  <2>2. Before(m)' = {told'[j].key : j \in 1 .. m - 1}
    BY DEF Before
  <2>3. QED
    BY <2>1, <2>2, <1>2 DEF ToldKeys
<1>8. ASSUME NEW key
      PROVE  Stored(key)' <=> \/ Stored(key)
                              \/ key = l.key /\ Cardinality(ToldKeys \ {key}) < MAX_HINTS
  <2> DEFINE In(k) == Cardinality(Before(k) \ {key}) < MAX_HINTS
             InNext(k) == Cardinality(Before(k)' \ {key}) < MAX_HINTS
  <2>1. Stored(key)' <=> \E k \in DOMAIN told' : told'[k].key = key /\ InNext(k)
    BY DEF Stored
  <2>2. Stored(key) <=> \E k \in DOMAIN told : told[k].key = key /\ In(k)
    BY DEF Stored
  <2>3. \A k \in DOMAIN told : In(k) = InNext(k)
    BY <1>5
  <2>4. InNext(m) <=> Cardinality(ToldKeys \ {key}) < MAX_HINTS
    BY <1>7
  <2> HIDE DEF In, InNext
  <2>5. QED
    BY <1>2, <1>3, <1>6, <2>1, <2>2, <2>3, <2>4, Zenon
<1>9. QED
  BY <1>2, <1>3, <1>4, <1>8

(* The new line is the last about its key, and no other key's last.        *)
LEMMA LastMoves ==
  ASSUME told \in Seq(HintLine), NEW l \in HintLine, told' = Append(told, l)
  PROVE  /\ IsLast(told', Len(told) + 1, l.key)
         /\ \A k, key : IsLast(told, k, key) /\ key # l.key => IsLast(told', k, key)
<1>1. Len(told) \in Nat /\ DOMAIN told = 1 .. Len(told)
  OBVIOUS
<1>2. /\ DOMAIN told' = 1 .. Len(told) + 1 /\ Len(told') = Len(told) + 1
      /\ told'[Len(told) + 1] = l /\ \A k \in DOMAIN told : told'[k] = told[k]
  BY <1>1
<1>3. IsLast(told', Len(told) + 1, l.key)
  BY <1>1, <1>2 DEF IsLast
<1>4. ASSUME NEW k, NEW key, IsLast(told, k, key), key # l.key
      PROVE  IsLast(told', k, key)
  BY <1>1, <1>2, <1>4 DEF IsLast
<1>5. QED
  BY <1>3, <1>4

(* Where no line is taken, nothing changes.                                *)
LEMMA HintsStay ==
  ASSUME HintInv, hints' = hints, told' = told
  PROVE  HintInv'
<1>1. HintKeys' = HintKeys /\ ToldKeys' = ToldKeys /\ \A key : Stored(key)' = Stored(key)
  BY DEF HintKeys, ToldKeys, Stored, Before
<1>2. HintsTyped'
  BY DEF HintInv, HintsTyped, OneHintEach
<1>3. ValuesLast'
  BY DEF HintInv, ValuesLast, IsLast
<1>4. KeysStored' /\ RoomLeft'
  BY <1>1 DEF HintInv, KeysStored, RoomLeft
<1>5. QED
  BY <1>2, <1>3, <1>4 DEF HintInv

(* A line that is taken: a new value of a key the table has, a key that    *)
(* finds it full, a new entry, or no pair at all.                          *)
LEMMA ParseKeeps ==
  ASSUME HintInv, NEW l \in HintLine, Parse(l)
  PROVE  HintInv'
<1>0. /\ hints \in Seq(Pair) /\ Len(hints) \in Nat /\ DOMAIN hints = 1 .. Len(hints)
      /\ \A i \in DOMAIN hints : hints[i] \in Pair
      /\ told \in Seq(HintLine) /\ OneHintEach /\ Len(hints) <= MAX_HINTS /\ MAX_HINTS \in Nat
  BY MaxHintsAssumption DEF HintInv, HintsTyped
<1>1. CASE l.kind # "pair"
  BY <1>1, HintsStay DEF Parse, _parse_hints
<1>2. ASSUME l.kind = "pair"
      PROVE  HintInv'
  <2>1. told' = Append(told, l) /\ hints' = _parse_hints(hints, l)
    BY <1>2 DEF Parse
  <2>2. /\ told' \in Seq(HintLine) /\ DOMAIN told' = DOMAIN told \cup {Len(told) + 1}
        /\ told'[Len(told) + 1] = l /\ \A k \in DOMAIN told : told'[k] = told[k]
        /\ ToldKeys' = ToldKeys \cup {l.key}
        /\ \A key : Stored(key)' <=> \/ Stored(key)
                                     \/ key = l.key /\ Cardinality(ToldKeys \ {key}) < MAX_HINTS
    BY <1>0, <2>1, ToldGrows
  <2>3. /\ IsLast(told', Len(told) + 1, l.key)
        /\ \A k, key : IsLast(told, k, key) /\ key # l.key => IsLast(told', k, key)
    BY <1>0, <2>1, LastMoves
  <2>4. \A key : key \in HintKeys <=> Stored(key)
    BY DEF HintInv, KeysStored
  <2>5. \A i \in DOMAIN hints : \E k : IsLast(told, k, hints[i].key) /\ told[k].val = hints[i].val
    BY DEF HintInv, ValuesLast
  <2>6. HintKeys = {hints[i].key : i \in DOMAIN hints} /\ HintKeys \subseteq ToldKeys
    BY <2>4 DEF HintKeys, Stored, ToldKeys
  <2>7. IsFiniteSet(HintKeys) /\ Cardinality(HintKeys) = Len(hints) /\ IsFiniteSet(ToldKeys)
    BY <1>0, KeysCounted, ToldFinite
  <2>8. \A k, key : IsLast(told, k, key) => k \in DOMAIN told
    BY DEF IsLast
  <2>9. get_hint(hints, l.key) = {i \in DOMAIN hints : hints[i].key = l.key}
    BY DEF get_hint
  <2>10. CASE l.key \in HintKeys
    <3>1. hints' = [i \in DOMAIN hints |-> IF hints[i].key = l.key THEN [hints[i] EXCEPT !.val = l.val]
                                           ELSE hints[i]]
      BY <1>2, <2>1, <2>6, <2>9, <2>10 DEF _parse_hints
    <3>2. l.val \in STRING \ {None}
      BY DEF HintLine
    <3>3. /\ DOMAIN hints' = DOMAIN hints
          /\ \A i \in DOMAIN hints : /\ hints'[i] \in Pair /\ hints'[i].key = hints[i].key
                                     /\ hints'[i].val = IF hints[i].key = l.key THEN l.val ELSE hints[i].val
      BY <1>0, <3>1, <3>2 DEF Pair
    <3>4. hints' \in Seq(Pair) /\ Len(hints') = Len(hints)
      BY <1>0, <3>1, <3>3
    <3>5. HintKeys' = HintKeys
      BY <3>3 DEF HintKeys
    <3>6. HintsTyped'
      BY <1>0, <2>2, <3>3, <3>4 DEF HintsTyped, OneHintEach
    <3>7. ASSUME NEW i \in DOMAIN hints'
          PROVE  \E k : IsLast(told', k, hints[i].key) /\ told'[k].val = hints'[i].val
      <4>1. CASE hints[i].key = l.key
        BY <2>2, <2>3, <3>3, <4>1
      <4>2. CASE hints[i].key # l.key
        <5>1. PICK k : IsLast(told, k, hints[i].key) /\ told[k].val = hints[i].val
          BY <2>5, <3>3
        <5>2. k \in DOMAIN told /\ told'[k] = told[k] /\ IsLast(told', k, hints[i].key)
          BY <5>1, <2>2, <2>3, <2>8, <4>2
        <5>3. QED
          BY <5>1, <5>2, <3>3, <4>2
      <4>3. QED
        BY <4>1, <4>2
    <3>8. ValuesLast'
      BY <3>3, <3>7 DEF ValuesLast
    <3>9. KeysStored' /\ RoomLeft'
      BY <2>2, <2>4, <2>10, <3>4, <3>5 DEF HintInv, KeysStored, RoomLeft
    <3>10. QED
      BY <3>6, <3>8, <3>9 DEF HintInv
  <2>11. CASE l.key \notin HintKeys /\ Len(hints) >= MAX_HINTS
    <3>1. hints' = hints
      BY <1>2, <2>1, <2>6, <2>9, <2>11 DEF _parse_hints
    <3>2. HintKeys' = HintKeys
      BY <3>1 DEF HintKeys
    <3>3. Cardinality(HintKeys) <= Cardinality(ToldKeys \ {l.key}) /\ Cardinality(ToldKeys \ {l.key}) \in Nat
      <4>1. HintKeys \subseteq ToldKeys \ {l.key} /\ IsFiniteSet(ToldKeys \ {l.key})
        BY <2>6, <2>7, <2>11, FS_Subset
      <4>2. QED
        BY <4>1, FS_Subset, FS_CardinalityType
    <3>4. \A key : Stored(key)' <=> Stored(key)
      <4>1. ~(Cardinality(ToldKeys \ {l.key}) < MAX_HINTS)
        BY <1>0, <2>7, <2>11, <3>3
      <4>2. QED
        BY <2>2, <4>1, Zenon
    <3>5. HintsTyped'
      BY <1>0, <2>2, <3>1 DEF HintsTyped, OneHintEach
    <3>6. ASSUME NEW i \in DOMAIN hints'
          PROVE  \E k : IsLast(told', k, hints[i].key) /\ told'[k].val = hints'[i].val
      <4>1. PICK k : IsLast(told, k, hints[i].key) /\ told[k].val = hints[i].val
        BY <2>5, <3>1
      <4>2. hints[i].key # l.key
        BY <2>6, <2>11, <3>1
      <4>3. k \in DOMAIN told /\ told'[k] = told[k] /\ IsLast(told', k, hints[i].key)
        BY <4>1, <4>2, <2>2, <2>3, <2>8
      <4>4. QED
        BY <4>1, <4>3, <3>1
    <3>7. ValuesLast'
      BY <3>1, <3>6 DEF ValuesLast
    <3>8. KeysStored' /\ RoomLeft'
      BY <1>0, <2>4, <2>11, <3>1, <3>2, <3>4 DEF KeysStored, RoomLeft
    <3>9. QED
      BY <3>5, <3>7, <3>8 DEF HintInv
  <2>12. CASE l.key \notin HintKeys /\ Len(hints) < MAX_HINTS
    <3> DEFINE new == [key |-> l.key, val |-> l.val]
    <3>1. hints' = Append(hints, new)
      BY <1>0, <1>2, <2>1, <2>6, <2>9, <2>12 DEF _parse_hints
    <3>2. new \in Pair /\ new.key = l.key /\ new.val = l.val
      BY DEF HintLine, Pair
    <3> HIDE DEF new
    <3>3. /\ hints' \in Seq(Pair) /\ Len(hints') = Len(hints) + 1
          /\ DOMAIN hints' = 1 .. Len(hints) + 1
          /\ hints'[Len(hints) + 1] = new /\ \A i \in DOMAIN hints : hints'[i] = hints[i]
      BY <1>0, <3>1, <3>2
    <3>4. DOMAIN hints' = DOMAIN hints \cup {Len(hints) + 1}
      BY <1>0, <3>3
    <3>5. HintKeys' = HintKeys \cup {l.key}
      BY <2>6, <3>2, <3>3, <3>4 DEF HintKeys
    <3>6. HintsTyped'
      <4>1. OneHintEach'
        BY <1>0, <2>6, <2>12, <3>2, <3>3, <3>4 DEF OneHintEach
      <4>2. QED
        BY <1>0, <2>2, <2>12, <3>3, <4>1 DEF HintsTyped
    <3>7. ASSUME NEW i \in DOMAIN hints'
          PROVE  \E k : IsLast(told', k, hints'[i].key) /\ told'[k].val = hints'[i].val
      <4>1. CASE i = Len(hints) + 1
        BY <2>2, <2>3, <3>2, <3>3, <4>1
      <4>2. CASE i \in DOMAIN hints
        <5>1. PICK k : IsLast(told, k, hints[i].key) /\ told[k].val = hints[i].val
          BY <2>5, <4>2
        <5>2. hints[i].key # l.key
          BY <2>6, <2>12, <4>2
        <5>3. k \in DOMAIN told /\ told'[k] = told[k] /\ IsLast(told', k, hints[i].key)
          BY <5>1, <5>2, <2>2, <2>3, <2>8
        <5>4. QED
          BY <5>1, <5>3, <3>3, <4>2
      <4>3. QED
        BY <3>4, <4>1, <4>2
    <3>8. ValuesLast'
      BY <3>7 DEF ValuesLast
    <3>9. ToldKeys \subseteq HintKeys
      BY <2>12 DEF HintInv, RoomLeft
    <3>10. Cardinality(ToldKeys \ {l.key}) < MAX_HINTS
      <4>1. Cardinality(ToldKeys \ {l.key}) <= Cardinality(HintKeys) /\ Cardinality(ToldKeys \ {l.key}) \in Nat
        <5>1. ToldKeys \ {l.key} \subseteq HintKeys
          BY <3>9
        <5>2. QED
          BY <5>1, <2>7, FS_Subset, FS_CardinalityType
      <4>2. QED
        BY <1>0, <2>7, <2>12, <4>1
    <3>11. KeysStored'
      BY <2>2, <2>4, <3>5, <3>10, Zenon DEF KeysStored
    <3>12. RoomLeft'
      BY <2>2, <3>5, <3>9 DEF RoomLeft
    <3>13. QED
      BY <3>6, <3>8, <3>11, <3>12 DEF HintInv
  <2>13. QED
    BY <1>0, <2>10, <2>11, <2>12
<1>3. QED
  BY <1>1, <1>2

(* An option given directly has its line, which main reads unasked.        *)
LinesTyped ==
  /\ lines \in Seq(HintLine)
  /\ state = "direct" => lines # <<>>

IInv == ShellTypeOK /\ HintInv /\ LinesTyped

(* There are no hints at the start.                                        *)
LEMMA InitInv == ShellInit => IInv
<1> SUFFICES ASSUME ShellInit PROVE IInv
  OBVIOUS
<1>1. /\ <<>> \in Seq(HintLine) /\ <<>> \in Seq(Pair) /\ DOMAIN <<>> = {} /\ Len(<<>>) = 0
  <2> HIDE DEF HintLine, Pair
  <2>1. QED
    OBVIOUS
<1>2. ShellTypeOK
  BY <1>1, MaxHintsAssumption, BoundsAssumption DEF ShellInit, ShellTypeOK
<1>3. HintKeys = {} /\ ToldKeys = {} /\ \A key : ~Stored(key)
  BY <1>1 DEF ShellInit, HintKeys, ToldKeys, Stored
<1>4. HintInv
  BY <1>1, <1>3, MaxHintsAssumption DEF ShellInit, HintInv, HintsTyped, OneHintEach, ValuesLast, KeysStored, RoomLeft
<1>5. QED
  BY <1>1, <1>2, <1>4 DEF ShellInit, IInv, LinesTyped

(* Where a line takes the loop.                                            *)
LEMMA BranchIs == \A l : Branch(l) \in {"exit", "set_hints", "driver", "next"}
BY DEF Branch

(* Every action keeps the invariant; four of them take lines for hints.    *)
LEMMA StepInv == IInv /\ [ShellNext]_shell_vars => IInv'
<1> SUFFICES ASSUME IInv, [ShellNext]_shell_vars PROVE IInv'
  OBVIOUS
<1> USE DEF IInv
<1>0. ShellTypeOK /\ HintInv /\ LinesTyped
  OBVIOUS
<1>t. HintInv' => /\ Len(hints') <= MAX_HINTS
                  /\ \A i, j \in DOMAIN hints' : hints'[i].key = hints'[j].key => i = j
  BY DEF HintInv, HintsTyped, OneHintEach
<1>s. ASSUME UNCHANGED <<hints, told, lines>>, state' # "direct" \/ state' = state
      PROVE  HintInv' /\ LinesTyped'
  BY <1>s, HintsStay DEF LinesTyped
<1>1. ASSUME NEW o \in DOMAIN HintOption, load_init_hints(o)
      PROVE  IInv'
  <2>1. /\ HintOption[o].from \in {"direct", "sysfs", "file", "none"}
        /\ HintOption[o].lines \in Seq(HintLine)
        /\ HintOption[o].from = "direct" => HintOption[o].lines # <<>>
    BY InputAssumption
  <2>2. HintInv'
    BY <1>1, HintsStay DEF load_init_hints
  <2>3. LinesTyped'
    BY <1>1, <2>1 DEF load_init_hints, LinesTyped
  <2>4. ShellTypeOK'
    BY <1>1, <1>t, <2>1, <2>2, BoundsAssumption DEF load_init_hints, ShellTypeOK
  <2>5. QED
    BY <2>2, <2>3, <2>4
<1>2. CASE DirectHint
  <2>1. lines[1] \in HintLine
    BY <1>2 DEF LinesTyped, DirectHint
  <2>2. HintInv'
    BY <1>2, <2>1, ParseKeeps DEF DirectHint
  <2>3. <<>> \in Seq(HintLine)
    OBVIOUS
  <2>4. LinesTyped'
    BY <1>2, <2>3 DEF DirectHint, LinesTyped
  <2>5. ShellTypeOK'
    BY <1>2, <1>t, <2>2 DEF DirectHint, ShellTypeOK
  <2>6. QED
    BY <2>2, <2>4, <2>5
<1>3. CASE ReadHint
  <2>1. Head(lines) \in HintLine /\ Tail(lines) \in Seq(HintLine)
    BY <1>3 DEF LinesTyped, ReadHint
  <2>2. HintInv'
    BY <1>3, <2>1, ParseKeeps, HintsStay DEF ReadHint
  <2>3. LinesTyped'
    BY <1>3, <2>1 DEF ReadHint, LinesTyped
  <2>4. ShellTypeOK'
    BY <1>3, <1>t, <2>2 DEF ReadHint, ShellTypeOK
  <2>5. QED
    BY <2>2, <2>3, <2>4
<1>4. CASE EndOfHints
  <2>1. HintInv' /\ LinesTyped'
    BY <1>4, <1>s DEF EndOfHints
  <2>2. QED
    BY <1>4, <1>t, <2>1 DEF EndOfHints, ShellTypeOK
<1>5. CASE snd_hda_codec_configure
  <2>1. HintInv' /\ LinesTyped'
    BY <1>5, <1>s DEF snd_hda_codec_configure
  <2>2. QED
    BY <1>5, <1>t, <2>1 DEF snd_hda_codec_configure, ShellTypeOK
<1>6. CASE DriverCall
  <2>1. HintInv' /\ LinesTyped'
    BY <1>6, <1>s DEF DriverCall
  <2>2. {pending', work'} \subseteq Work \cup {None}
    BY <1>6 DEF DriverCall, WorkCall, schedule_delayed_work, cancel_delayed_work_sync, schedule_work,
                flush_scheduled_work, ShellTypeOK
  <2>3. QED
    BY <1>6, <1>t, <2>1, <2>2, BoundsAssumption DEF DriverCall, ShellTypeOK
<1>7. CASE WorkSchedules
  <2>1. HintInv' /\ LinesTyped'
    BY <1>7, <1>s DEF WorkSchedules
  <2>2. {pending', work'} \subseteq Work \cup {None}
    BY <1>7, AgainAssumption DEF WorkSchedules, ShellTypeOK
  <2>3. QED
    BY <1>7, <1>t, <2>1, <2>2, BoundsAssumption DEF WorkSchedules, ShellTypeOK
<1>8. CASE WorkReturns
  <2>1. HintInv' /\ LinesTyped'
    BY <1>8, <1>s DEF WorkReturns
  <2>2. QED
    BY <1>8, <1>t, <2>1 DEF WorkReturns, ShellTypeOK
<1>9. CASE cmd_loop \/ Return \/ Prompt
  <2>1. HintInv' /\ LinesTyped'
    BY <1>9, <1>s DEF cmd_loop, Return, Prompt, Goto
  <2>2. QED
    BY <1>9, <1>t, <2>1, BoundsAssumption DEF cmd_loop, Return, Prompt, Goto, ShellTypeOK
<1>10. CASE set_hints
  <2>1. Len(line) > 3 => line \in Input /\ line[4] \in HintLine
    <3>1. Len(<<>>) = 0
      OBVIOUS
    <3>2. QED
      BY <1>0, <3>1, InputAssumption DEF ShellTypeOK
  <2>2. HintInv'
    BY <1>10, <2>1, ParseKeeps, HintsStay DEF set_hints
  <2>3. LinesTyped'
    BY <1>10 DEF set_hints, LinesTyped
  <2>4. ShellTypeOK'
    BY <1>10, <1>t, <2>2 DEF set_hints, ShellTypeOK
  <2>5. QED
    BY <2>2, <2>3, <2>4
<1>11. CASE EndTurn
  <2>1. HintInv' /\ LinesTyped'
    BY <1>11, <1>s DEF EndTurn
  <2>2. QED
    BY <1>11, <1>t, <2>1 DEF EndTurn, flush_scheduled_work, ShellTypeOK
<1>12. ASSUME NEW l \in Input, readline(l)
       PROVE  IInv'
  <2>1. state' \in {"exit", "set_hints", "driver", "next"}
    BY <1>12, BranchIs DEF readline
  <2>2. HintInv' /\ LinesTyped'
    BY <1>12, <1>s, <2>1 DEF readline
  <2>3. QED
    BY <1>12, <1>t, <2>1, <2>2 DEF readline, ShellTypeOK
<1>13. CASE EndOfInput
  <2>1. HintInv' /\ LinesTyped'
    BY <1>13, <1>s DEF EndOfInput
  <2>2. QED
    BY <1>13, <1>t, <2>1 DEF EndOfInput, ShellTypeOK
<1>14. CASE UNCHANGED shell_vars
  <2>1. HintInv' /\ LinesTyped'
    BY <1>14, <1>s DEF shell_vars
  <2>2. QED
    BY <1>14, <1>t, <2>1 DEF shell_vars, ShellTypeOK
<1>15. QED
  BY <1>1, <1>2, <1>3, <1>4, <1>5, <1>6, <1>7, <1>8, <1>9, <1>10, <1>11, <1>12, <1>13, <1>14
  DEF ShellNext, Program

(* The inductive invariant holds of every session.                         *)
LEMMA InvHolds == ShellSpec => []IInv
BY InitInv, StepInv, PTL DEF ShellSpec

(* No more hints than the table has places, none twice (_parse_hints),     *)
(* and the works are works of the driver (workqueue.h).                    *)
THEOREM TypeCorrect == ShellSpec => []ShellTypeOK
<1>1. IInv => ShellTypeOK
  BY DEF IInv
<1>2. QED
  BY <1>1, InvHolds, PTL

(* The last line about a key is its hint.                                  *)
LEMMA InvHints == IInv => HintsLast
<1> SUFFICES ASSUME IInv, NEW k0 \in DOMAIN told, NEW key, key = told[k0].key
             PROVE  /\ snd_hda_get_hint(hints, key) = IF Stored(key) THEN told[LastTold(key)].val ELSE None
                    /\ snd_hda_get_bool_hint(hints, key) = "ENOENT" <=> ~Stored(key) \/ told[LastTold(key)].val = ""
  BY DEF HintsLast
<1>1. /\ hints \in Seq(Pair) /\ told \in Seq(HintLine)
      /\ \A i \in DOMAIN hints : \E k : IsLast(told, k, hints[i].key) /\ told[k].val = hints[i].val
      /\ key \in HintKeys <=> Stored(key)
  BY DEF IInv, HintInv, HintsTyped, ValuesLast, KeysStored
<1>2. \A k \in DOMAIN told : told[k].val # None
  <2>1. \A k \in DOMAIN told : told[k] \in HintLine
    <3> HIDE DEF HintLine
    <3>1. QED
      BY <1>1
  <2>2. QED
    BY <2>1 DEF HintLine
<1>3. CASE Stored(key)
  <2>1. get_hint(hints, key) # {}
    BY <1>1, <1>3 DEF get_hint, HintKeys
  <2>2. PICK i : i = CHOOSE j \in get_hint(hints, key) : TRUE
    OBVIOUS
  <2>3. i \in DOMAIN hints /\ hints[i].key = key /\ snd_hda_get_hint(hints, key) = hints[i].val
    BY <2>1, <2>2 DEF get_hint, snd_hda_get_hint
  <2>4. PICK k : IsLast(told, k, key) /\ told[k].val = hints[i].val
    BY <1>1, <2>3
  <2>5. LastTold(key) = k
    <3>1. LastTold(key) = CHOOSE m : IsLast(told, m, key)
      BY DEF LastTold, IsLast
    <3>2. \A m : IsLast(told, m, key) => m = k
      <4>1. DOMAIN told = 1 .. Len(told) /\ Len(told) \in Nat
        BY <1>1
      <4>2. QED
        BY <2>4, <4>1 DEF IsLast
    <3>3. QED
      BY <2>4, <3>1, <3>2
  <2>6. snd_hda_get_hint(hints, key) = told[LastTold(key)].val /\ told[LastTold(key)].val # None
    BY <1>2, <2>3, <2>4, <2>5 DEF IsLast
  <2>7. QED
    BY <1>3, <2>6 DEF snd_hda_get_bool_hint
<1>4. CASE ~Stored(key)
  <2>1. get_hint(hints, key) = {}
    BY <1>1, <1>4 DEF get_hint, HintKeys
  <2>2. snd_hda_get_hint(hints, key) = None
    BY <2>1 DEF snd_hda_get_hint
  <2>3. snd_hda_get_bool_hint(hints, key) = "ENOENT"
    <3>1. snd_hda_get_hint(hints, key) \in {None, ""}
      BY <2>2
    <3>2. QED
      BY <3>1 DEF snd_hda_get_bool_hint, None
  <2>4. QED
    BY <1>4, <2>2, <2>3, Zenon
<1>5. QED
  BY <1>3, <1>4

(* A hint has the value it was given last, wherever that came from and     *)
(* however full the table was (_parse_hints, snd_hda_get_hint).            *)
THEOREM HintsAreLast == ShellSpec => []HintsLast
BY InvHolds, InvHints, PTL

(* Work that was scheduled stays pending until it runs or another takes    *)
(* its place (__work_pending, flush_scheduled_work).                       *)
THEOREM WorkStays == ShellSpec => WorkKept
<1>1. ASSUME IInv, [ShellNext]_shell_vars, pending # None
      PROVE  pending' = pending \/ work' = pending \/ pending' # None
  <2>1. pending \in Work /\ work \in Work \cup {None}
    BY <1>1 DEF IInv, ShellTypeOK
  <2>2. CASE DriverCall
    BY <2>2, AgainAssumption DEF DriverCall, WorkCall, schedule_delayed_work, cancel_delayed_work_sync,
       schedule_work, flush_scheduled_work
  <2>3. CASE WorkSchedules
    BY <2>1, <2>3, AgainAssumption DEF WorkSchedules
  <2>4. CASE EndTurn
    BY <2>4 DEF EndTurn, flush_scheduled_work
  <2>5. QED
    BY <1>1, <2>2, <2>3, <2>4 DEF ShellNext, Program, load_init_hints, DirectHint, ReadHint, EndOfHints,
       snd_hda_codec_configure, WorkReturns, cmd_loop, Return, Prompt, Goto, set_hints, readline,
       EndOfInput, shell_vars
<1>2. QED
  BY <1>1, InvHolds, PTL DEF ShellSpec, WorkKept
=============================================================================
