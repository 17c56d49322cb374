---------------------------- MODULE NodeProofs ----------------------------
(***************************************************************************)
(* The nodes of a codec.  For any widgets, channels, indices and gains     *)
(* within the fields of the verbs: amplifiers stay within their            *)
(* capabilities, and nothing beyond the connections of a widget is         *)
(* selected or touched.  For any set of pins and any tags the driver may   *)
(* give them: what the driver knows of the jacks it watches is true but    *)
(* for changes that could not reach it, and nothing reaches it in D3.      *)
(***************************************************************************)
EXTENDS Widget, Jack, TLAPS

(* What one amplifier's values must be. *)
DirOK(dir, vals) ==
  /\ vals \in [Slot -> [Ch -> AmpVal]]
  /\ \A i \in Slot, c \in Ch :
       /\ node.amp[dir].nsteps > 0 => vals[i][c].gain <= node.amp[dir].nsteps
       /\ vals[i][c].mute => node.amp[dir].mute
       /\ i # 0 /\ i >= node.conns => vals[i][c] = Silent

AmpsOK(vals) == DOMAIN vals = Dir /\ vals = [dir \in Dir |-> vals[dir]] /\ \A dir \in Dir : DirOK(dir, vals[dir])

(* The values kept for the pm command's -i are written back long after     *)
(* they were saved, so they have to be good all the while.                 *)
IInv ==
  /\ node \in Node
  /\ AmpsOK(amp)
  /\ curr_conn \in Nat /\ (node.conns > 0 => curr_conn < node.conns)
  /\ pinctl \in PinCtl
  /\ AmpsOK(orig.amp) /\ orig.pinctl \in PinCtl
  /\ rc[1] \in {"set", "amp", "conn", "pinctl"}

(* The clamp yields a value of the amplifier, and of the field.            *)
LEMMA ClampOK ==
  ASSUME NEW cap \in [nsteps : 0 .. 127, mute : BOOLEAN], NEW val \in AmpVal
  PROVE  /\ set_amp(cap, val) \in AmpVal
         /\ cap.nsteps > 0 => set_amp(cap, val).gain <= cap.nsteps
         /\ set_amp(cap, val).mute => cap.mute
<1>1. cap.nsteps \in 0 .. 127 /\ cap.mute \in BOOLEAN /\ val.gain \in 0 .. 127 /\ val.mute \in BOOLEAN
  BY DEF AmpVal
<1>2. CASE val.gain <= cap.nsteps
  BY <1>1, <1>2 DEF set_amp, AmpVal
<1>3. CASE ~(val.gain <= cap.nsteps)
  <2>1. (cap.nsteps - 1) % 128 \in 0 .. 127 /\ (cap.nsteps > 0 => (cap.nsteps - 1) % 128 = cap.nsteps - 1)
    BY <1>1
  <2>2. set_amp(cap, val) = [gain |-> (cap.nsteps - 1) % 128,
                             mute |-> (val.mute \/ cap.nsteps = 0) /\ cap.mute]
    BY <1>3 DEF set_amp
  <2>3. ((val.mute \/ cap.nsteps = 0) /\ cap.mute) \in BOOLEAN
    BY <1>1
  <2>4. QED
    BY <1>1, <2>1, <2>2, <2>3 DEF AmpVal
<1>4. QED
  BY <1>2, <1>3

(* An index names the first entry or one of a connection. *)
LEMMA IndexOK ==
  ASSUME NEW dir \in Dir, NEW idx \in Slot
  PROVE  amp_index(dir, idx) \in Slot /\ (amp_index(dir, idx) = 0 \/ amp_index(dir, idx) < node.conns)
BY FieldAssumption DEF amp_index

(* So does the index that the output branch has left to the input branch.  *)
LEMMA SetIndexOK ==
  ASSUME NEW dirs \in SUBSET Dir, NEW dir \in dirs, NEW idx \in SetIdx
  PROVE  LET k == set_index(dirs, idx)[dir]
         IN  k \in Slot /\ (k = 0 \/ k < node.conns)
<1> DEFINE out == IF "out" \in dirs THEN amp_index("out", idx) ELSE idx
<1>1. "in" \in Dir /\ "out" \in Dir /\ dir \in Dir /\ idx \in Slot
  BY DEF Dir, Slot
<1>2. out \in Slot
  BY <1>1, IndexOK
<1>3. CASE dir = "out"
  <2>1. set_index(dirs, idx)[dir] = amp_index("out", idx)
    BY <1>1, <1>3 DEF set_index
  <2>2. QED
    BY <1>1, <2>1, IndexOK
<1>4. CASE dir # "out"
  <2>1. set_index(dirs, idx)[dir] = amp_index("in", out)
    BY <1>1, <1>4 DEF set_index
  <2>2. QED
    BY <1>1, <1>2, <2>1, IndexOK
<1>5. QED
  BY <1>3, <1>4

(* An amplifier with the channels chs of entry k set to val. *)
Stored(dir, k, chs, val) ==
  [amp[dir] EXCEPT ![k] = [c \in Ch |-> IF c \in chs THEN set_amp(node.amp[dir], val) ELSE @[c]]]

(* Setting an amplifier, whatever index the verb names. *)
LEMMA SetKeeps ==
  ASSUME IInv, NEW dir \in Dir, NEW chs \in SUBSET Ch, NEW val \in AmpVal,
         NEW k \in Slot, k = 0 \/ k < node.conns
  PROVE  DirOK(dir, Stored(dir, k, chs, val))
<1> DEFINE new == [c \in Ch |-> IF c \in chs THEN set_amp(node.amp[dir], val) ELSE amp[dir][k][c]]
<1>2. DirOK(dir, amp[dir])
  BY DEF IInv, AmpsOK
<1>3. node.amp[dir] \in [nsteps : 0 .. 127, mute : BOOLEAN] /\ node.conns \in Nat
  BY NodeAssumption DEF IInv
<1>4. /\ set_amp(node.amp[dir], val) \in AmpVal
      /\ node.amp[dir].nsteps > 0 => set_amp(node.amp[dir], val).gain <= node.amp[dir].nsteps
      /\ set_amp(node.amp[dir], val).mute => node.amp[dir].mute
  BY <1>3, ClampOK
<1>5. new \in [Ch -> AmpVal]
  BY <1>2, <1>4 DEF DirOK
<1>6. \A c \in Ch : /\ node.amp[dir].nsteps > 0 => new[c].gain <= node.amp[dir].nsteps
                    /\ new[c].mute => node.amp[dir].mute
  BY <1>2, <1>4 DEF DirOK
<1> HIDE DEF new
<1>7. DirOK(dir, [amp[dir] EXCEPT ![k] = new])
  <2>1. [amp[dir] EXCEPT ![k] = new] \in [Slot -> [Ch -> AmpVal]]
    BY <1>2, <1>5 DEF DirOK
  <2>2. \A i \in Slot : [amp[dir] EXCEPT ![k] = new][i] = IF i = k THEN new ELSE amp[dir][i]
    BY <1>2 DEF DirOK
  <2>3. k # 0 => ~(k >= node.conns)
    BY <1>3, FieldAssumption DEF Slot
  <2>4. QED
    BY <1>2, <1>6, <2>1, <2>2, <2>3 DEF DirOK
<1>8. QED
  BY <1>7 DEF new, Stored

(* A random value is one of the amplifier. *)
LEMMA RandomOK ==
  ASSUME NEW cap, cap.nsteps \in 0 .. 127, cap.mute \in BOOLEAN, NEW a \in RandomAmp(cap)
  PROVE  a \in AmpVal /\ a.gain <= cap.nsteps /\ (a.mute => cap.mute)
<1> DEFINE gains == IF cap.nsteps = 0 THEN {0} ELSE 0 .. cap.nsteps - 1
           mutes == IF cap.mute THEN BOOLEAN ELSE {FALSE}
<1>1. a \in [gain : gains, mute : mutes]
  BY DEF RandomAmp
<1>2. \A g \in gains : g \in 0 .. 127 /\ g <= cap.nsteps
  OBVIOUS
<1>3. \A m \in mutes : m \in BOOLEAN /\ (m => cap.mute)
  OBVIOUS
<1> HIDE DEF gains, mutes
<1>4. a.gain \in gains /\ a.mute \in mutes /\ a = [gain |-> a.gain, mute |-> a.mute]
  BY <1>1
<1>5. a \in AmpVal
  <2>1. a.gain \in 0 .. 127 /\ a.mute \in BOOLEAN
    BY <1>2, <1>3, <1>4
  <2>2. QED
    BY <1>4, <2>1 DEF AmpVal
<1>6. QED
  BY <1>2, <1>3, <1>4, <1>5

(* Filling an amplifier with random values touches the entries of the      *)
(* connections only, one of the output.                                    *)
LEMMA RandomKeeps ==
  ASSUME IInv, NEW dir \in Dir, NEW nums \in Nat, nums <= node.conns \/ nums = 1,
         NEW vals \in randomize_amp(dir, nums)
  PROVE  DirOK(dir, vals)
<1>1. DirOK(dir, amp[dir]) /\ Slot \subseteq Nat
  BY FieldAssumption DEF IInv, AmpsOK, Slot
<1>2. node.amp[dir].nsteps \in 0 .. 127 /\ node.amp[dir].mute \in BOOLEAN /\ node.conns \in Nat
  BY NodeAssumption DEF IInv
<1>3. CASE dir \notin node.caps
  BY <1>1, <1>3 DEF randomize_amp
<1>4. CASE dir \in node.caps
  <2>1. PICK rnd \in [{i \in Slot : i < nums} -> [Ch -> RandomAmp(node.amp[dir])]] :
          vals = [i \in Slot |-> IF i < nums THEN rnd[i] ELSE amp[dir][i]]
    BY <1>4 DEF randomize_amp
  <2>2. \A a \in RandomAmp(node.amp[dir]) :
          a \in AmpVal /\ a.gain <= node.amp[dir].nsteps /\ (a.mute => node.amp[dir].mute)
    BY <1>2, RandomOK
  <2>3. vals \in [Slot -> [Ch -> AmpVal]]
    BY <1>1, <2>1, <2>2 DEF DirOK
  <2>4. ASSUME NEW i \in Slot, NEW c \in Ch
        PROVE  /\ node.amp[dir].nsteps > 0 => vals[i][c].gain <= node.amp[dir].nsteps
               /\ vals[i][c].mute => node.amp[dir].mute
               /\ i # 0 /\ i >= node.conns => vals[i][c] = Silent
    <3>1. CASE i < nums
      <4>1. vals[i][c] \in RandomAmp(node.amp[dir])
        BY <2>1, <3>1
      <4>2. ~(i # 0 /\ i >= node.conns)
        BY <1>1, <1>2, <3>1
      <4>3. QED
        BY <2>2, <4>1, <4>2
    <3>2. CASE ~(i < nums)
      BY <1>1, <2>1, <3>2 DEF DirOK
    <3>3. QED
      BY <3>1, <3>2
  <2>5. QED
    BY <2>3, <2>4 DEF DirOK
<1>5. QED
  BY <1>3, <1>4

(* A widget starts with the values of the file, which are its originals.   *)
LEMMA InitIInv == Init => IInv
<1> SUFFICES ASSUME Init PROVE IInv
  OBVIOUS
<1>1. node \in Node /\ node.conns \in Nat /\ node.amp \in [Dir -> [nsteps : 0 .. 127, mute : BOOLEAN]]
  BY NodeAssumption DEF Init
<1>2. PICK val \in {Silent, [gain |-> node.amp["out"].nsteps, mute |-> FALSE]} :
        amp = [dir \in Dir |-> [i \in Slot |-> [c \in Ch |-> IF dir = "out" /\ i = 0 THEN val ELSE Silent]]]
  BY DEF Init
<1>3. /\ val \in AmpVal /\ Silent \in AmpVal /\ ~val.mute /\ ~Silent.mute /\ Silent.gain = 0
      /\ val.gain <= node.amp["out"].nsteps
  <2>1. node.amp["out"] \in [nsteps : 0 .. 127, mute : BOOLEAN]
    BY <1>1 DEF Dir
  <2>2. node.amp["out"].nsteps \in 0 .. 127
    BY <2>1
  <2>3. Silent \in AmpVal /\ ~Silent.mute /\ Silent.gain = 0
    BY DEF AmpVal, Silent
  <2>4. CASE val = [gain |-> node.amp["out"].nsteps, mute |-> FALSE]
    <3>1. val.gain = node.amp["out"].nsteps /\ ~val.mute
      BY <2>4
    <3>2. val \in AmpVal
      BY <2>2, <2>4 DEF AmpVal
    <3>3. QED
      BY <2>2, <2>3, <3>1, <3>2
  <2>5. CASE val = Silent
    BY <2>2, <2>3, <2>5
  <2>6. QED
    BY <2>4, <2>5
<1>4. ASSUME NEW dir \in Dir PROVE DirOK(dir, amp[dir])
  <2>1. amp[dir] = [i \in Slot |-> [c \in Ch |-> IF dir = "out" /\ i = 0 THEN val ELSE Silent]]
    BY <1>2
  <2>2. node.amp[dir].nsteps \in 0 .. 127
    BY <1>1
  <2>3. QED
    BY <1>3, <2>1, <2>2 DEF DirOK
<1>5. AmpsOK(amp) /\ orig.amp = amp /\ orig.pinctl = pinctl
  BY <1>2, <1>4 DEF AmpsOK, Init
<1>6. QED
  BY <1>1, <1>5 DEF Init, IInv

(* Every verb and option keeps the invariant.                              *)
LEMMA StepIInv == IInv /\ [Next]_vars => IInv'
<1> SUFFICES ASSUME IInv, [Next]_vars PROVE IInv'
  OBVIOUS
<1>0. node \in Node /\ node.conns \in Nat
  BY NodeAssumption DEF IInv
<1>a. ASSUME node' = node, NEW vals, AmpsOK(vals), amp' = vals PROVE AmpsOK(amp)'
  BY <1>a DEF AmpsOK, DirOK
<1>1. ASSUME NEW dirs \in SUBSET Dir, NEW chs \in SUBSET Ch, NEW idx \in SetIdx,
             NEW val \in [gain : Gain, mute : BOOLEAN], set_amp_gain_mute(dirs, chs, idx, val)
      PROVE  IInv'
  <2>1. val \in AmpVal
    BY FieldAssumption DEF AmpVal
  <2>2. ASSUME NEW dir \in Dir PROVE DirOK(dir, amp'[dir])
    <3>1. CASE dir \notin dirs
      BY <1>1, <3>1 DEF set_amp_gain_mute, IInv, AmpsOK
    <3>2. CASE dir \in dirs
      <4> DEFINE k == set_index(dirs, idx)[dir]
      <4>1. amp'[dir] = Stored(dir, k, chs, val)
        BY <1>1, <3>2 DEF set_amp_gain_mute, Stored
      <4>2. k \in Slot /\ (k = 0 \/ k < node.conns)
        BY <3>2, SetIndexOK
      <4> HIDE DEF k
      <4>3. DirOK(dir, Stored(dir, k, chs, val))
        BY <2>1, <4>2, SetKeeps
      <4>4. QED
        BY <4>1, <4>3
    <3>3. QED
      BY <3>1, <3>2
  <2>3. amp' = [dir \in Dir |-> amp'[dir]] /\ DOMAIN amp' = Dir
    BY <1>1 DEF set_amp_gain_mute
  <2>4. AmpsOK(amp')
    BY <2>2, <2>3 DEF AmpsOK
  <2>5. UNCHANGED <<node, curr_conn, pinctl, orig>> /\ rc' = <<"set", 0>>
    BY <1>1 DEF set_amp_gain_mute
  <2>6. AmpsOK(amp)' /\ AmpsOK(orig.amp)'
    BY <2>4, <2>5 DEF IInv, AmpsOK, DirOK
  <2>7. QED
    BY <2>5, <2>6 DEF IInv
<1>2. ASSUME NEW dir \in Dir, NEW ch \in Ch, NEW idx \in GetIdx, get_amp_gain_mute(dir, ch, idx) PROVE IInv'
  BY <1>2 DEF get_amp_gain_mute, IInv, AmpsOK, DirOK
<1>3. ASSUME NEW sel \in Sel, set_connect_sel(sel) PROVE IInv'
  BY <1>0, <1>3, FieldAssumption DEF set_connect_sel, IInv, AmpsOK, DirOK
<1>4. CASE get_connect_sel
  BY <1>4 DEF get_connect_sel, IInv, AmpsOK, DirOK
<1>5. ASSUME NEW val \in PinCtl, set_pin_ctl(val) PROVE IInv'
  BY <1>5 DEF set_pin_ctl, IInv, AmpsOK, DirOK
<1>6. CASE get_pin_ctl
  BY <1>6 DEF get_pin_ctl, IInv, AmpsOK, DirOK
<1>7. CASE hda_test_pm_randomize
  <2>1. PICK ins \in randomize_amp("in", node.conns), outs \in randomize_amp("out", 1) :
          amp' = [dir \in Dir |-> IF dir = "in" THEN ins ELSE outs]
    BY <1>7 DEF hda_test_pm_randomize
  <2>2. DirOK("in", ins) /\ DirOK("out", outs)
    BY <1>0, RandomKeeps DEF Dir
  <2>3. AmpsOK(amp')
    BY <2>1, <2>2 DEF AmpsOK, Dir
  <2>4. UNCHANGED <<node, curr_conn, orig, rc>> /\ pinctl' \in PinCtl
    BY <1>7 DEF hda_test_pm_randomize, IInv
  <2>5. AmpsOK(amp)' /\ AmpsOK(orig.amp)'
    BY <2>3, <2>4 DEF IInv, AmpsOK, DirOK
  <2>6. QED
    BY <2>4, <2>5 DEF IInv
<1>8. CASE hda_test_pm_reinit
  BY <1>8 DEF hda_test_pm_reinit, IInv, AmpsOK, DirOK
<1>9. CASE UNCHANGED vars
  BY <1>9 DEF vars, IInv, AmpsOK, DirOK
<1>10. QED
  BY <1>1, <1>2, <1>3, <1>4, <1>5, <1>6, <1>7, <1>8, <1>9 DEF Next

(* The inductive invariant holds of every behaviour of a widget. *)
THEOREM WidgetInvariant == Spec => []IInv
BY InitIInv, StepIInv, PTL DEF Spec

(* Amplifier values fit their fields, whatever a clamp wraps to            *)
(* (set_amp_gain_mute, hda_test_pm_randomize, hda_test_pm_reinit).         *)
THEOREM TypeCorrect == Spec => []TypeOK
<1>1. IInv => TypeOK
  BY DEF IInv, AmpsOK, DirOK, TypeOK
<1>2. QED
  BY <1>1, WidgetInvariant, PTL

(* No sequence of verbs, randomizations and re-initializations leaves an   *)
(* amplifier beyond its capabilities (set_amp).                            *)
THEOREM AmpsStayInRange == Spec => []AmpInRange
<1>1. IInv => AmpInRange
  BY DEF IInv, AmpsOK, DirOK, AmpInRange
<1>2. QED
  BY <1>1, WidgetInvariant, PTL

(* No verb selects a connection the widget does not have, or touches       *)
(* amplifier values of one (amp_index, set_connect_sel, randomize_amp).    *)
THEOREM ConnectionsBound == Spec => []NothingBeyondConnections
<1>1. IInv => NothingBeyondConnections
  BY DEF IInv, AmpsOK, DirOK, NothingBeyondConnections
<1>2. QED
  BY <1>1, WidgetInvariant, PTL
----------------------------------------------------------------------------
(* The jacks. *)

(* What the driver knows with what it may know of. *)
JackInv == JackTypeOK /\ JackKnown

(* The tags of the driver survive the truncation in a response.            *)
LEMMA TagRange ==
  ASSUME NEW w \in Pin
  PROVE  TagOf[w] \in 0 .. MaxTag /\ TagOf[w] % TagBits = TagOf[w]
<1>1. MaxTag \in Nat /\ TagBits \in 1 .. MaxTag + 1 /\ TagOf[w] \in 1 .. TagBits - 1
  BY TagAssumption
<1>2. TagOf[w] % TagBits = TagOf[w]
  BY <1>1
<1>3. QED
  BY <1>1, <1>2

(* The event of a pin that is still set up as the driver did it reaches    *)
(* the pin's own jack, if the driver watches it.                           *)
LEMMA ReachableIsTold ==
  ASSUME NEW w \in enabled, enabled \subseteq Pin, Reachable(w)
  PROVE  w \in Told(w)
BY TagRange DEF Told, Reachable, Delivers

(* Nothing is watched at the start.                                        *)
LEMMA JackInitInv == JackInit => JackInv
<1>1. 0 \in 0 .. MaxTag
  BY TagAssumption
<1>2. JackInit => unsol \in [Pin -> [on : BOOLEAN, tag : 0 .. MaxTag]]
  BY <1>1 DEF JackInit
<1>3. JackInit => known \in [Pin -> BOOLEAN]
  BY DEF JackInit
<1>4. QED
  BY <1>2, <1>3 DEF JackInit, JackInv, JackTypeOK, JackKnown

(* Every command, verb and callback keeps the invariant: a change that     *)
(* reaches the driver corrects what it knows, one that does not makes the  *)
(* jack a missed one.                                                      *)
LEMMA JackStepInv == JackInv /\ [JackNext]_jack_vars => JackInv'
<1> SUFFICES ASSUME JackInv, [JackNext]_jack_vars PROVE JackInv'
  OBVIOUS
<1> USE DEF JackInv, JackTypeOK, JackKnown
<1>1. ASSUME NEW w \in Pin, hda_log_issue_unsol(w) PROVE JackInv'
  BY <1>1 DEF hda_log_issue_unsol, issue_unsol, Told
<1>2. ASSUME NEW w \in Pin, DetectEnable(w) PROVE JackInv'
  BY <1>2, TagRange DEF DetectEnable, set_unsol_enable
<1>3. ASSUME NEW w \in Pin, NEW val \in BOOLEAN, hda_log_set_jack(w, val) PROVE JackInv'
  <2>1. CASE val = jack_state[w]
    BY <1>3, <2>1 DEF hda_log_set_jack
  <2>2. CASE val # jack_state[w]
    <3>1. JackTypeOK'
      BY <1>3, <2>2 DEF hda_log_set_jack, issue_unsol
    <3>2. ASSUME NEW v \in enabled', v \notin missed' PROVE known'[v] = jack_state'[v]
      <4>1. v \in enabled /\ known' = [u \in Pin |-> IF u \in Told(w) THEN jack_state'[u] ELSE known[u]]
        BY <1>3, <2>2, <3>2 DEF hda_log_set_jack, issue_unsol
      <4>2. CASE v \in Told(w)
        BY <4>1, <4>2
      <4>3. CASE v \notin Told(w)
        <5>1. v \notin missed /\ v # w
          BY <1>3, <2>2, <3>2, <4>1, <4>3, ReachableIsTold DEF hda_log_set_jack
        <5>2. jack_state'[v] = jack_state[v]
          BY <1>3, <4>1, <5>1 DEF hda_log_set_jack
        <5>3. QED
          BY <4>1, <4>3, <5>1, <5>2
      <4>4. QED
        BY <4>2, <4>3
    <3>3. QED
      BY <3>1, <3>2
  <2>3. QED
    BY <2>1, <2>2
<1>4. ASSUME NEW w \in Pin, NEW on \in BOOLEAN, NEW tag \in 0 .. MaxTag, ShellUnsol(w, on, tag)
      PROVE  JackInv'
  BY <1>4 DEF ShellUnsol, set_unsol_enable
<1>5. ASSUME NEW power \in {0, 3}, ShellPower(power) PROVE JackInv'
  BY <1>5 DEF ShellPower
<1>6. CASE Suspend
  BY <1>6 DEF Suspend
<1>7. CASE Resume
  BY <1>7, TagRange DEF Resume
<1>8. CASE UNCHANGED jack_vars
  BY <1>8 DEF jack_vars
<1>9. QED
  BY <1>1, <1>2, <1>3, <1>4, <1>5, <1>6, <1>7, <1>8 DEF JackNext

(* The inductive invariant holds of every order of commands.               *)
THEOREM JackInvariant == JackSpec => []JackInv
BY JackInitInv, JackStepInv, PTL DEF JackSpec

(* Tags, pins and jacks stay in their ranges; a tag never needs more bits  *)
(* than node->unsol has (set_unsol_enable).                                *)
THEOREM JackTypeCorrect == JackSpec => []JackTypeOK
BY JackInvariant, PTL DEF JackInv

(* The driver's idea of a jack it watches is the jack's state, unless the  *)
(* last change could not reach it (hda_set_jack_state, issue_unsol).       *)
THEOREM DriverKnowsJacks == JackSpec => []JackKnown
BY JackInvariant, PTL DEF JackInv

(* No event gets through in D3 (issue_unsol): the only steps that tell the *)
(* driver of a jack are events, a resume and the first sensing, and of     *)
(* these only the last happens without leaving D3, to a pin not yet        *)
(* watched.                                                                *)
THEOREM NoEventsInD3 == JackSpec => QuietInD3
<1>1. JackTypeOK /\ [JackNext]_jack_vars =>
        (power_current = 3 /\ power_current' = 3 => \A w \in enabled : known'[w] = known[w])
  <2> SUFFICES ASSUME JackTypeOK, [JackNext]_jack_vars, power_current = 3, power_current' = 3, NEW w \in enabled
               PROVE  known'[w] = known[w]
    OBVIOUS
  <2> USE DEF JackTypeOK
  <2>1. \A u \in Pin : Told(u) = {}
    BY DEF Told, Delivers
  <2>2. ASSUME NEW u \in Pin, NEW jacks, issue_unsol(u, jacks) PROVE known'[w] = known[w]
    BY <2>1, <2>2 DEF issue_unsol
  <2>3. ASSUME NEW u \in Pin, hda_log_issue_unsol(u) PROVE known'[w] = known[w]
    BY <2>2, <2>3 DEF hda_log_issue_unsol
  <2>4. ASSUME NEW u \in Pin, NEW val \in BOOLEAN, hda_log_set_jack(u, val) PROVE known'[w] = known[w]
    BY <2>2, <2>4 DEF hda_log_set_jack
  <2>5. ASSUME NEW u \in Pin, DetectEnable(u) PROVE known'[w] = known[w]
    BY <2>5 DEF DetectEnable
  <2>6. QED
    BY <2>3, <2>4, <2>5 DEF JackNext, ShellUnsol, ShellPower, Suspend, Resume, jack_vars
<1>2. QED
  BY <1>1, JackTypeCorrect, PTL DEF JackSpec, QuietInD3
=============================================================================
