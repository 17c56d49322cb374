------------------------------- MODULE Vendor -------------------------------
(***************************************************************************)
(* How the emulator executes a command of the kernel driver or the shell   *)
(* (hda_cmd): the extended commands, the verb tables and the value cache   *)
(* behind the vendor-specific verbs of hda-spec.c.  A verb is its number,  *)
(* whose low 11 bits the get and the set verb of a register share.         *)
(***************************************************************************)
EXTENDS Naturals, Sequences

CONSTANTS
  Family,   \* the extensions to check
  Ext,      \* the extended commands to check
  Node,     \* nids that codec has
  Secret,   \* a nid it does not have, which the extended commands accept
  Absent,   \* another one it does not have
  Parm,     \* parameters of a verb, bytes
  Reply     \* non-zero responses of the standard verbs

ASSUME NidAssumption == {0, Secret, Absent} \cap Node = {} /\ Secret # 0
ASSUME FamilyAssumption == Family \subseteq {"idt_92hd8xx", "amdhdmi", "nvhdmi", "vt1708s"}
ASSUME WordAssumption == Parm \subseteq 0 .. 255 /\ Reply \subseteq Nat

VARIABLES
  family,       \* codec->extended_verbs
  extended_cmd, \* codec->extended_cmd
  value_cache,  \* codec->value_cache, head first
  rc,           \* codec->rc
  cmd,          \* the last command
  err           \* what hda_cmd returned for it

vendor_vars == <<family, extended_cmd, value_cache, rc, cmd, err>>

EINVAL == "EINVAL"
ENXIO  == "ENXIO"
OK     == "OK"

----------------------------------------------------------------------------
(* The tables.  A row gives the function that runs for a verb, and whether *)
(* its name says that it gets or sets, and which byte.  One register of    *)
(* each shape stands for the many a table has.                             *)
Row(f, n, k) == [func |-> f, name |-> n, byte |-> k]

idt_92hd8xx_verbs ==
  [v \in {\hF88, \h788, \h789, \hFF4, \h7F4, \h7F5, \h7F6} |->
     CASE v \in {\hF88, \hFF4} -> Row("get_cached_verb", "get", 0)
       [] v \in {\h788, \h7F4} -> Row("set_cached_verb", "set", 0)
       [] v \in {\h789, \h7F5} -> Row("set_cached_verb2", "set", 1)
       [] v = \h7F6            -> Row("set_cached_verb3", "set", 2)]

amdhdmi_verbs ==
  [v \in {\hF70, \h770, \hF93} |->
     IF v < \h800 THEN Row("set_cached_verb", "set", 0) ELSE Row("get_cached_verb", "get", 0)]

nvhdmi_8ch_7x_verbs ==
  [v \in {\hF79} |-> Row("set_cached_verb", "set", 0)]

vt1708s_verbs ==
  [v \in {\hF73} |-> Row("get_cached_verb", "get", 0)]

extended_verbs ==
  CASE family = "idt_92hd8xx" -> idt_92hd8xx_verbs
    [] family = "amdhdmi"     -> amdhdmi_verbs
    [] family = "nvhdmi"      -> nvhdmi_8ch_7x_verbs
    [] family = "vt1708s"     -> vt1708s_verbs

(* get_parameters for the standard verbs; 0x7FE is in no table. *)
StandardVerb == \hF00
UnknownVerb  == \h7FE

VendorInit ==
  /\ family \in Family
  /\ extended_cmd \in Ext
  /\ value_cache = <<>>
  /\ rc = 0
  /\ cmd = [nid |-> 0, verb |-> UnknownVerb, parm |-> 0]
  /\ err = ENXIO

----------------------------------------------------------------------------
(* The value cache *)

Entries(cache, verb) == {i \in DOMAIN cache : cache[i].verb = verb}
First(cache, verb) == CHOOSE i \in Entries(cache, verb) : \A j \in Entries(cache, verb) : i <= j

Cached(cache, verb) ==
  IF Entries(cache, verb) = {} THEN 0 ELSE cache[First(cache, verb)].val

(* A value of three bytes, the weight of a byte, and what it holds. *)
Word == {v \in Nat : v < 256 * 65536}

Weight(shift) == CASE shift = 0 -> 1 [] shift = 1 -> 256 [] shift = 2 -> 65536

ByteOf(val, shift) == (val \div Weight(shift)) % 256

\* Mutant: writing the second or third byte clears the others.
PutByte_clears(val, b, shift) == b * Weight(shift)

(* (val & ~mask) | cmd *)
PutByte(val, b, shift) == (val - ByteOf(val, shift) * Weight(shift)) + b * Weight(shift)

(* A value that is there is changed, a new one goes to the head. *)
set_verb_val(cache, verb, b, shift) ==
  IF Entries(cache, verb) # {}
  THEN [cache EXCEPT ![First(cache, verb)].val = PutByte(@, b, shift)]
  ELSE <<[verb |-> verb, val |-> PutByte(0, b, shift)]>> \o cache

get_cached_verb(verb) ==
  /\ rc' = Cached(value_cache, verb % \h800)
  /\ UNCHANGED value_cache

\* Mutant: the second and third byte are stored under a verb of their own.
set_cached_verb_own_key(verb, parm, shift) ==
  /\ value_cache' = set_verb_val(value_cache, verb % \h800, parm, shift)
  /\ rc' = 0

(* set_cached_verb, set_cached_verb2 and set_cached_verb3 *)
set_cached_verb(verb, parm, shift) ==
  /\ value_cache' = set_verb_val(value_cache, (verb % \h800) - shift, parm, shift)
  /\ rc' = 0

----------------------------------------------------------------------------
(* The Realtek and Haswell extensions clear the last response and accept   *)
(* every command to their secret widgets.                                  *)
Swallowed(nid) == extended_cmd # "none" /\ nid = Secret

RunRow(row, verb, parm) ==
  CASE row.func = "get_cached_verb"  -> get_cached_verb(verb)
    [] row.func = "set_cached_verb"  -> set_cached_verb(verb, parm, 0)
    [] row.func = "set_cached_verb2" -> set_cached_verb(verb, parm, 1)
    [] row.func = "set_cached_verb3" -> set_cached_verb(verb, parm, 2)

(* The handler is looked up before the widget; nid 0 is the root, which    *)
(* has no widget.  A command that fails leaves the last response unless an *)
(* extension has cleared it.                                               *)
hda_cmd(nid, verb, parm) ==
  /\ cmd' = [nid |-> nid, verb |-> verb, parm |-> parm]
  /\ \/ /\ Swallowed(nid)
        /\ rc' = 0 /\ err' = OK
        /\ UNCHANGED value_cache
     \/ /\ ~Swallowed(nid)
        /\ \/ verb \notin {StandardVerb} \cup DOMAIN extended_verbs
           \/ nid \notin Node \cup {0}
        /\ rc' = IF extended_cmd = "none" THEN rc ELSE 0
        /\ err' = IF verb \notin {StandardVerb} \cup DOMAIN extended_verbs
                  THEN ENXIO ELSE EINVAL
        /\ UNCHANGED value_cache
     \/ /\ nid \in Node \cup {0}
        /\ IF verb = StandardVerb
           THEN rc' \in Reply /\ UNCHANGED value_cache
           ELSE /\ verb \in DOMAIN extended_verbs
                /\ RunRow(extended_verbs[verb], verb, parm)
        /\ err' = OK
  /\ UNCHANGED <<family, extended_cmd>>

VendorNext ==
  \E nid \in Node \cup {0, Secret, Absent},
     verb \in DOMAIN extended_verbs \cup {StandardVerb, UnknownVerb}, parm \in Parm :
    hda_cmd(nid, verb, parm)

VendorSpec == VendorInit /\ [][VendorNext]_vendor_vars

----------------------------------------------------------------------------
(* The register a verb is about, by the numbers of the tables alone. *)
RegOf(verb) == (verb % \h800) - extended_verbs[verb].byte
Reg == {RegOf(verb) : verb \in DOMAIN extended_verbs}

(* The search for a register finds the one entry the list has of it. *)
VendorTypeOK ==
  /\ family \in Family
  /\ value_cache \in Seq([verb : Reg, val : Word])
  /\ \A i, j \in DOMAIN value_cache : value_cache[i].verb = value_cache[j].verb => i = j
  /\ rc \in Nat
  /\ err \in {OK, EINVAL, ENXIO}

(* However many registers and bytes have been written in whatever order,   *)
(* through whichever widgets, and however many commands failed in between, *)
(* a successful get responds with what the codec's driver wrote last.      *)
Request ==
  IF err # OK \/ Swallowed(cmd.nid) \/ cmd.verb = StandardVerb THEN [op |-> "none"]
  ELSE IF extended_verbs[cmd.verb].name = "get"
       THEN [op |-> "get", reg |-> RegOf(cmd.verb)]
       ELSE [op |-> "set", reg |-> RegOf(cmd.verb),
             place |-> extended_verbs[cmd.verb].byte, byte |-> cmd.parm]

AllReg == {\h788, \h7F4, \h770, \h793, \h779, \h773}

Registers == INSTANCE VendorRegs WITH
  Reg <- AllReg, Byte <- Parm, req <- Request, out <- rc,
  regs <- [r \in AllReg |-> [k \in 0 .. 2 |-> ByteOf(Cached(value_cache, r), k)]]

VerbsAreRegisters == Registers!Spec
=============================================================================
