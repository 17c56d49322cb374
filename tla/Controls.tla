------------------------------ MODULE Controls ------------------------------
(***************************************************************************)
(* The registry of control elements: snd-control.c, the jack controls of   *)
(* ctljack.c, the channel-map controls of snd-wrapper.c and the element    *)
(* lookup of the shell.  A control takes as many numbers as it has         *)
(* elements, from a counter that never goes back.                          *)
(***************************************************************************)
EXTENDS Naturals, Sequences, FiniteSets

CONSTANTS
  Ctl,     \* the kcontrols ever created
  Jack,    \* those snd_kctl_jack_new creates
  Chmap,   \* those snd_pcm_add_chmap_ctls creates, all for one PCM stream
  NameOf,  \* NameOf[c]: the name c is created with
  Count,   \* Count[c]: its elements
  Index,   \* the indices drivers give controls other than jacks
  Name,    \* the names a control is renamed to
  MaxRenamed, \* bound on the controls that are renamed
  NULL

ASSUME KindAssumption == Jack \subseteq Ctl /\ Chmap \subseteq Ctl /\ Jack \cap Chmap = {}
ASSUME CountAssumption == Count \in [Ctl -> Nat \ {0}]
ASSUME IndexAssumption == Index \subseteq Nat
ASSUME NullAssumption == NULL \notin Ctl
ASSUME ChmapAssumption == \A c, d \in Chmap : NameOf[c] = NameOf[d]

VARIABLES
  list,       \* snd_ctl_list_head
  elems,      \* snd_ctl_list_elems
  id,         \* id[c]: kctl->id but for the number
  numid,      \* numid[c]: kctl->id.numid, 0 before it is added
  life,       \* "none", "listed", "freed", or "refused" by snd_ctl_add
  status,     \* status[c]: the private_value of jack c
  told,       \* told[c]: the status read at the last notification of c
  chmap_kctl, \* the stream's chmap_kctl
  renamed,    \* controls snd_ctl_rename_id has renamed
  renumbered  \* those of them that lost their number

identVars == <<id, numid, renamed, renumbered>>
jackVars  == <<status, told>>
vars == <<list, elems, identVars, life, jackVars, chmap_kctl>>

Listed == {list[i] : i \in DOMAIN list}
NoId == [name |-> NULL, index |-> 0]

Init ==
  /\ list = <<>> /\ elems = 0
  /\ id = [c \in Ctl |-> NoId] /\ numid = [c \in Ctl |-> 0]
  /\ life = [c \in Ctl |-> "none"]
  /\ status = [c \in Jack |-> FALSE] /\ told = [c \in Jack |-> FALSE]
  /\ chmap_kctl = NULL
  /\ renamed = {} /\ renumbered = {}

----------------------------------------------------------------------------
(* Lookups: the first control of the list that matches, or NULL *)

First(C) ==
  IF C \cap Listed = {} THEN NULL
  ELSE list[CHOOSE i \in DOMAIN list : list[i] \in C /\ \A j \in 1 .. i - 1 : list[j] \notin C]

snd_ctl_find_id(i) == First({c \in Ctl : id[c] = i})

(* Any of the elements' numbers will do. *)
snd_ctl_find_numid(n) == First({c \in Ctl : numid[c] <= n /\ n < numid[c] + Count[c]})

(* The shell's get and set take a number, or a name they turn into one.    *)
get_ctl_numid(i) == IF snd_ctl_find_id(i) = NULL THEN 0 ELSE numid[snd_ctl_find_id(i)]

----------------------------------------------------------------------------
\* Mutant: an id in the list is added again.
snd_ctl_add_duplicate(c, i) ==
  /\ life[c] = "none"
  /\ id' = [id EXCEPT ![c] = i]
  /\ numid' = [numid EXCEPT ![c] = elems + 1]
  /\ elems' = elems + Count[c]
  /\ list' = Append(list, c)
  /\ life' = [life EXCEPT ![c] = "listed"]
  /\ UNCHANGED <<renamed, renumbered>>

\* Mutant: a control counts as one element.
snd_ctl_add_one_element(c, i) ==
  /\ life[c] = "none"
  /\ id' = [id EXCEPT ![c] = i]
  /\ IF snd_ctl_find_id(i) # NULL
     THEN /\ life' = [life EXCEPT ![c] = "refused"]
          /\ UNCHANGED <<list, elems, numid>>
     ELSE /\ numid' = [numid EXCEPT ![c] = elems + 1]
          /\ elems' = elems + 1
          /\ list' = Append(list, c)
          /\ life' = [life EXCEPT ![c] = "listed"]
  /\ UNCHANGED <<renamed, renumbered>>

(* snd_ctl_new1 and snd_ctl_add, which the driver calls together.  A taken *)
(* id is refused; the control is not freed.                                *)
snd_ctl_add(c, i) ==
  /\ life[c] = "none"
  /\ id' = [id EXCEPT ![c] = i]
  /\ IF snd_ctl_find_id(i) # NULL
     THEN /\ life' = [life EXCEPT ![c] = "refused"]
          /\ UNCHANGED <<list, elems, numid>>
     ELSE /\ numid' = [numid EXCEPT ![c] = elems + 1]
          /\ elems' = elems + Count[c]
          /\ list' = Append(list, c)
          /\ life' = [life EXCEPT ![c] = "listed"]
  /\ UNCHANGED <<renamed, renumbered>>

AddPlain(c, index) ==
  /\ c \notin Jack \cup Chmap
  /\ snd_ctl_add(c, [name |-> NameOf[c], index |-> index])
  /\ UNCHANGED <<jackVars, chmap_kctl>>

get_available_index(name) ==
  CHOOSE n \in 0 .. Len(list) :
    /\ snd_ctl_find_id([name |-> name, index |-> n]) = NULL
    /\ \A m \in 0 .. n - 1 : snd_ctl_find_id([name |-> name, index |-> m]) # NULL

(* snd_jack_new: the control gets the first index free for its name. *)
snd_jack_new(c) ==
  /\ c \in Jack
  /\ snd_ctl_add(c, [name |-> NameOf[c], index |-> get_available_index(NameOf[c])])
  /\ UNCHANGED <<jackVars, chmap_kctl>>

(* The stream remembers its control only if it could be added. *)
snd_pcm_add_chmap_ctls(c) ==
  /\ c \in Chmap
  /\ snd_ctl_add(c, [name |-> NameOf[c], index |-> 0])
  /\ chmap_kctl' = IF life'[c] = "listed" THEN c ELSE chmap_kctl
  /\ UNCHANGED jackVars

\* Mutant: a freed channel-map control stays in its stream.
private_free_keeps(c) == UNCHANGED chmap_kctl

(* The private_free callback of a channel map clears its stream's entry.   *)
private_free(c) == chmap_kctl' = IF c \in Chmap THEN NULL ELSE chmap_kctl

\* Mutant: the control is freed without leaving the list.
snd_ctl_remove_linked(c) ==
  /\ c \in Listed
  /\ life' = [life EXCEPT ![c] = "freed"]
  /\ private_free(c)
  /\ UNCHANGED <<list, elems, identVars, jackVars>>

list_del(c) ==
  LET i == CHOOSE i \in DOMAIN list : list[i] = c
  IN  [j \in 1 .. Len(list) - 1 |-> IF j < i THEN list[j] ELSE list[j + 1]]

snd_ctl_remove(c) ==
  /\ c \in Listed
  /\ list' = list_del(c)
  /\ life' = [life EXCEPT ![c] = "freed"]
  /\ private_free(c)
  /\ UNCHANGED <<elems, identVars, jackVars>>

(* By id: it may be another control than the caller meant, renamed since.  *)
snd_ctl_remove_id(i) == snd_ctl_find_id(i) # NULL /\ snd_ctl_remove(snd_ctl_find_id(i))

(* The whole id is overwritten, the number included: the caller either     *)
(* copied the old id or filled a new one, whose number is 0.  Whether the  *)
(* new id is taken is not looked at.  Bound: MaxRenamed controls, once.    *)
snd_ctl_rename_id(src, name, copied) ==
  LET c == snd_ctl_find_id(src)
  IN /\ c # NULL /\ c \notin renamed /\ Cardinality(renamed) < MaxRenamed
     /\ id' = [id EXCEPT ![c].name = name]
     /\ numid' = IF copied THEN numid ELSE [numid EXCEPT ![c] = 0]
     /\ renamed' = renamed \cup {c}
     /\ renumbered' = IF copied THEN renumbered ELSE renumbered \cup {c}
     /\ UNCHANGED <<list, elems, life, jackVars, chmap_kctl>>

----------------------------------------------------------------------------
(* Jack reports *)

(* Whoever listens reads the control it is notified of. *)
snd_ctl_notify(i, values) ==
  told' = IF snd_ctl_find_id(i) \in Jack
          THEN [told EXCEPT ![snd_ctl_find_id(i)] = values[snd_ctl_find_id(i)]]
          ELSE told

\* Mutant: the notification precedes the new value.
snd_kctl_jack_report_early(c, val) ==
  IF status[c] = val THEN UNCHANGED jackVars
  ELSE /\ status' = [status EXCEPT ![c] = val]
       /\ snd_ctl_notify(id[c], status)

(* Only a change is notified. *)
snd_kctl_jack_report(c, val) ==
  IF status[c] = val THEN UNCHANGED jackVars
  ELSE /\ status' = [status EXCEPT ![c] = val]
       /\ snd_ctl_notify(id[c], status')

snd_jack_report(c, val) ==
  /\ c \in Jack \cap Listed
  /\ snd_kctl_jack_report(c, val)
  /\ UNCHANGED <<list, elems, identVars, life, chmap_kctl>>

----------------------------------------------------------------------------
Ids == {id[c] : c \in Ctl}

Next ==
  \/ \E c \in Ctl :
       \/ \E index \in Index : AddPlain(c, index)
       \/ snd_jack_new(c)
       \/ snd_pcm_add_chmap_ctls(c)
       \/ snd_ctl_remove(c)
       \/ \E val \in BOOLEAN : snd_jack_report(c, val)
  \/ \E i \in Ids :
       \/ snd_ctl_remove_id(i)
       \/ \E name \in Name, copied \in BOOLEAN : snd_ctl_rename_id(i, name, copied)

Spec == Init /\ [][Next]_vars
----------------------------------------------------------------------------
TypeOK ==
  /\ Len(list) <= elems
  /\ Listed \subseteq Ctl /\ \A c \in Ctl : c \in Listed <=> life[c] = "listed"
  /\ elems \in Nat /\ numid \in [Ctl -> Nat]
  /\ \A c \in Ctl : id[c] = NoId \/ id[c].index \in Nat
  /\ renumbered \subseteq renamed /\ renamed \subseteq Ctl
  /\ status \in [Jack -> BOOLEAN] /\ told \in [Jack -> BOOLEAN]
  /\ chmap_kctl \in Chmap \cup {NULL}

(* Two controls have the same id only if one of them was renamed, however  *)
(* controls are added, refused and removed; so a jack always gets in.      *)
IdsUnique ==
  /\ \A c, d \in Listed : id[c] = id[d] /\ c # d => {c, d} \cap renamed # {}
  /\ \A c \in Jack : life[c] # "refused"

(* The number the shell has once listed for an element finds that element  *)
(* as long as its control lives, and nothing after that, until a rename    *)
(* makes a control lose its number; a name finds a control that has it.    *)
NumbersKeepMeaning ==
  renumbered = {} =>
    /\ \A c \in Ctl : numid[c] # 0 =>
         \A k \in 0 .. Count[c] - 1 :
           snd_ctl_find_numid(numid[c] + k) = IF c \in Listed THEN c ELSE NULL
    /\ \A c \in Listed : id[snd_ctl_find_numid(get_ctl_numid(id[c]))] = id[c]

(* The stream's channel map control is one in the list, and the one in the *)
(* list is the stream's: neither a refused second one nor a removal breaks *)
(* the link, unless the first was renamed out of the second one's way.     *)
ChmapLinked ==
  renamed \cap Chmap = {} => \A c \in Chmap : c \in Listed <=> chmap_kctl = c

(* Whoever follows the notifications knows every jack, until a rename can  *)
(* have given a jack's id to another control too.                          *)
JackTold == renamed = {} => \A c \in Jack \cap Listed : told[c] = status[c]
=============================================================================
