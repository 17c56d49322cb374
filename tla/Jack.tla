-------------------------------- MODULE Jack --------------------------------
(***************************************************************************)
(* Jack plugging and unsolicited events: the shell's jack, unsol and verb  *)
(* commands, the codec's side of the event, and the kernel driver that     *)
(* keeps what it knows of the jacks.  schedule_work runs the work at once, *)
(* so the driver handles an event before the command that caused it ends.  *)
(***************************************************************************)
EXTENDS Naturals, FiniteSets

CONSTANTS
  Pin,     \* pins of the codec
  TagOf,   \* TagOf[w]: the tag the driver gives pin w, 0 being no pin's
  MaxTag,  \* the largest tag of node->unsol, 63 in the program
  TagBits  \* the tags a response has room for: 64, or 16 of an ALC880

ASSUME TagAssumption ==
  /\ MaxTag \in Nat /\ TagBits \in 1 .. MaxTag + 1
  /\ TagOf \in [Pin -> 1 .. TagBits - 1]
  /\ \A v, w \in Pin : TagOf[v] = TagOf[w] => v = w

VARIABLES
  jack_state,    \* node->jack_state
  unsol,         \* node->unsol: the enable bit and the tag
  power_current, \* proc.afg.power_current, 0 or 3
  enabled,       \* pins whose detection the driver has enabled
  known,         \* the driver's idea of the jacks
  asleep,        \* the driver has suspended the codec
  missed         \* pins whose last change could not reach the driver

jack_vars == <<jack_state, unsol, power_current, enabled, known, asleep, missed>>

(* A jack may be plugged from the start (the -j option). *)
JackInit ==
  /\ jack_state \in [Pin -> BOOLEAN]
  /\ unsol = [w \in Pin |-> [on |-> FALSE, tag |-> 0]]
  /\ power_current = 0
  /\ enabled = {} /\ known = [w \in Pin |-> FALSE]
  /\ asleep = FALSE /\ missed = {}

----------------------------------------------------------------------------
(* Events *)

\* Mutant: events are delivered whatever the power state is.
Delivers_always(w) == unsol[w].on

(* An event comes out of the codec if the pin's bit is set and the codec   *)
(* is not in D3.                                                           *)
Delivers(w) == unsol[w].on /\ power_current # 3

(* Its tag is cut to what the response has room for; the driver senses the *)
(* pins it has under that tag.                                             *)
Told(w) ==
  IF Delivers(w) THEN {v \in enabled : TagOf[v] = unsol[w].tag % TagBits} ELSE {}

\* Mutant: the driver senses the pins as they were before the change.
issue_unsol_first(w, jacks) ==
  known' = [v \in Pin |-> IF v \in Told(w) THEN jack_state[v] ELSE known[v]]

issue_unsol(w, jacks) ==
  known' = [v \in Pin |-> IF v \in Told(w) THEN jacks[v] ELSE known[v]]

(* unsol nid *)
hda_log_issue_unsol(w) ==
  /\ issue_unsol(w, jack_state)
  /\ missed' = missed \ Told(w)
  /\ UNCHANGED <<jack_state, unsol, power_current, enabled, asleep>>

(* The pin is still set up as the driver did it, in a codec that is up. *)
Reachable(w) == power_current = 0 /\ unsol[w] = [on |-> TRUE, tag |-> TagOf[w]]

(* jack nid val: an event only for a change. *)
hda_log_set_jack(w, val) ==
  /\ jack_state' = [jack_state EXCEPT ![w] = val]
  /\ IF val = jack_state[w] THEN UNCHANGED <<known, missed>>
     ELSE /\ issue_unsol(w, jack_state')
          /\ missed' = (IF Reachable(w) THEN missed ELSE missed \cup {w}) \ Told(w)
  /\ UNCHANGED <<unsol, power_current, enabled, asleep>>

----------------------------------------------------------------------------
(* Verbs: the driver's and, at any time, the shell's *)

\* Mutant: the tag keeps the bits above its width.
set_unsol_enable_wide(w, on, tag) ==
  unsol' = [unsol EXCEPT ![w] = [on |-> on, tag |-> tag + MaxTag + 1]]

set_unsol_enable(w, on, tag) == unsol' = [unsol EXCEPT ![w] = [on |-> on, tag |-> tag]]

ShellUnsol(w, on, tag) ==
  /\ set_unsol_enable(w, on, tag)
  /\ UNCHANGED <<jack_state, power_current, enabled, known, asleep, missed>>

(* set_power_state of the function group *)
ShellPower(state) ==
  /\ power_current' = state
  /\ UNCHANGED <<jack_state, unsol, enabled, known, asleep, missed>>

----------------------------------------------------------------------------
(* The driver *)

(* Detection is enabled while the codec is up, and the jack sensed. *)
DetectEnable(w) ==
  /\ ~asleep /\ w \notin enabled
  /\ enabled' = enabled \cup {w}
  /\ set_unsol_enable(w, TRUE, TagOf[w])
  /\ known' = [known EXCEPT ![w] = jack_state[w]]
  /\ missed' = missed \ {w}
  /\ UNCHANGED <<jack_state, power_current, asleep>>

Suspend ==
  /\ ~asleep /\ asleep' = TRUE
  /\ power_current' = 3
  /\ UNCHANGED <<jack_state, unsol, enabled, known, missed>>

(* Resume sets every pin up again and senses all of them. *)
Resume ==
  /\ asleep /\ asleep' = FALSE
  /\ power_current' = 0
  /\ unsol' = [w \in Pin |-> IF w \in enabled THEN [on |-> TRUE, tag |-> TagOf[w]]
                             ELSE unsol[w]]
  /\ known' = [w \in Pin |-> IF w \in enabled THEN jack_state[w] ELSE known[w]]
  /\ missed' = missed \ enabled
  /\ UNCHANGED <<jack_state, enabled>>

JackNext ==
  \/ \E w \in Pin : hda_log_issue_unsol(w) \/ DetectEnable(w)
  \/ \E w \in Pin, val \in BOOLEAN : hda_log_set_jack(w, val)
  \/ \E w \in Pin, on \in BOOLEAN, tag \in 0 .. MaxTag : ShellUnsol(w, on, tag)
  \/ \E state \in {0, 3} : ShellPower(state)
  \/ Suspend \/ Resume

JackSpec == JackInit /\ [][JackNext]_jack_vars

----------------------------------------------------------------------------
JackTypeOK ==
  /\ jack_state \in [Pin -> BOOLEAN]
  /\ unsol \in [Pin -> [on : BOOLEAN, tag : 0 .. MaxTag]]
  /\ power_current \in {0, 3}
  /\ enabled \subseteq Pin /\ missed \subseteq Pin
  /\ known \in [Pin -> BOOLEAN]
  /\ asleep \in BOOLEAN

(* The driver knows every jack it watches, but for those last changed in   *)
(* D3 or with their event turned off or retagged behind its back; it knows *)
(* these too once an event for them or a resume has come.                  *)
JackKnown == \A w \in enabled \ missed : known[w] = jack_state[w]

(* "no unsol handling during D3": neither a jack nor an unsol command gets *)
(* through to the driver while the codec is in D3, even if the driver      *)
(* believes it to be up.                                                   *)
QuietInD3 ==
  [][power_current = 3 /\ power_current' = 3 =>
       \A w \in enabled : known'[w] = known[w]]_jack_vars
=============================================================================
