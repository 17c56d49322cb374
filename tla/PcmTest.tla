------------------------------ MODULE PcmTest ------------------------------
(***************************************************************************)
(* The shell's PCM tests (hda_test_pcm), the table of registered PCM       *)
(* streams, and the two sysfs files that tear the codec down under them    *)
(* (clear and reconfig), with the usage count each open stream holds on    *)
(* the codec device of RuntimePM.  The shell is one thread; pc is how far  *)
(* the command it runs has come, because the codec driver's callbacks see  *)
(* the states in between.                                                  *)
(***************************************************************************)
EXTENDS Naturals, FiniteSets, Sequences

CONSTANTS
  Pcm,              \* the hda_pcm objects the codec driver may ever create
  Substreams,       \* Substreams[p][dir] == cpcm->stream[dir].substreams
  MAX_PCM_STREAMS,
  NULL,             \* an empty entry of pcm_streams
  Drv, NoDriver     \* the codec driver; dev->driver == NULL

ASSUME StreamAssumption == MAX_PCM_STREAMS \in Nat
ASSUME DrvAssumption == NoDriver # Drv
ASSUME PcmAssumption == IsFiniteSet(Pcm) /\ Pcm \cap {"boot", "shell"} = {}

VARIABLES
  bus, registered, added, driver, pmcnt, pmsuspended, pmallow, power_save,
  chip, sleeping, holders, awake, unidled,  \* the device: see RuntimePM
  num_pcm_streams,
  pcm_streams,
  created,    \* PCMs the driver has created so far
  live,       \* those it has not freed
  ref_count,  \* the substreams whose ref_count is 1
  substream_opened, \* the <<pcm, dir>> whose substream_opened is 1
  opened,     \* substreams the driver's open callback accepted and its close
              \* callback has not seen
  cleared,    \* history: PCMs that a clear took out of the table
  pc,         \* what the shell does next
  cur         \* the command's operation and substream

Sub == {s \in Pcm \X {0, 1} \X (0 .. 7) : s[3] < Substreams[s[1]][s[2]]}
PcmOf(s) == s[1]
StrOf(s) == <<s[1], s[2]>>

(* References other than an open stream's: main's for the initialisation,  *)
(* and the one hda_codec_reconfig takes.                                   *)
Boot  == <<"boot", 0, 0>>
Shell == <<"shell", 0, 0>>

PM == INSTANCE RuntimePM WITH Ref <- Sub \cup {Boot, Shell}, Driver <- {Drv}

tableVars  == <<num_pcm_streams, pcm_streams, created, live, cleared>>
streamVars == <<ref_count, substream_opened, opened>>
deviceVars == <<bus, registered, added, driver, pmcnt, pmsuspended, pmallow, power_save,
                chip, sleeping, holders, awake, unidled>>
vars       == <<deviceVars, tableVars, streamVars, pc, cur>>

NoCommand == [op |-> "none", sub |-> Boot]

(* main() up to snd_hda_codec_configure: the codec exists, its driver is   *)
(* bound, and main holds the reference it drops before the first prompt.   *)
Init ==
  /\ bus = TRUE /\ registered = <<Drv>> /\ added = TRUE /\ driver = Drv
  /\ pmcnt = 1 /\ pmsuspended = FALSE /\ pmallow = FALSE /\ power_save = FALSE
  /\ chip = "up" /\ sleeping = FALSE /\ unidled = FALSE
  /\ holders = {Boot} /\ awake = {Boot}
  /\ num_pcm_streams = 0
  /\ pcm_streams = [i \in 0 .. MAX_PCM_STREAMS - 1 |-> NULL]
  /\ created = {} /\ live = {} /\ cleared = {}
  /\ ref_count = {} /\ substream_opened = {} /\ opened = {}
  /\ pc = "configure" /\ cur = [op |-> "none", sub |-> Boot]

----------------------------------------------------------------------------
(* The table of PCM streams *)

Empty(p) == Substreams[p][0] = 0 /\ Substreams[p][1] = 0

(* Nothing but the callers keeps an index within the table. *)
StoreAt(i, p) == [j \in DOMAIN pcm_streams \cup {i} |-> IF j = i THEN p ELSE pcm_streams[j]]

\* Mutant: the table is full one entry too late.
attach_pcm_late_full(p) ==
  /\ num_pcm_streams' = IF ~Empty(p) /\ num_pcm_streams > MAX_PCM_STREAMS
                        THEN num_pcm_streams ELSE num_pcm_streams + 1
  /\ pcm_streams' = IF Empty(p) \/ num_pcm_streams > MAX_PCM_STREAMS
                    THEN pcm_streams
                    ELSE StoreAt(num_pcm_streams, p)

(* A PCM without substreams takes a number but no entry; one that finds    *)
(* the table full takes neither.                                           *)
attach_pcm(p) ==
  /\ num_pcm_streams' = IF ~Empty(p) /\ num_pcm_streams >= MAX_PCM_STREAMS
                        THEN num_pcm_streams ELSE num_pcm_streams + 1
  /\ pcm_streams' = IF Empty(p) \/ num_pcm_streams >= MAX_PCM_STREAMS
                    THEN pcm_streams
                    ELSE StoreAt(num_pcm_streams, p)

(* The PCMs the table has. *)
Listed == {pcm_streams[i] : i \in {j \in DOMAIN pcm_streams : j < num_pcm_streams}} \ {NULL}

reset_pcm ==
  /\ pcm_streams' = [i \in 0 .. MAX_PCM_STREAMS - 1 |-> NULL]
  /\ num_pcm_streams' = 0

(* The driver, being configured, registers the PCMs it creates. *)
CreatePcm(p) ==
  /\ pc = "configure" /\ driver = Drv
  /\ p \notin created
  /\ created' = created \cup {p} /\ live' = live \cup {p}
  /\ attach_pcm(p)
  /\ UNCHANGED <<deviceVars, streamVars, cleared, pc, cur>>

(* The end of configuration: main, or hda_codec_reconfig, powers down.     *)
Configured ==
  /\ pc = "configure"
  /\ PM!pm_runtime_put_autosuspend(cur.sub)
  /\ pc' = "prompt" /\ cur' = NoCommand
  /\ UNCHANGED <<tableVars, streamVars>>

(* The kernel's snd_hda_codec_reset refuses a codec in use, or frees its   *)
(* PCMs and unbinds its driver.  Both callers ignore which it was.         *)
snd_hda_codec_reset ==
  \/ UNCHANGED <<deviceVars, live, opened>>
  \/ /\ live' = {} /\ opened' = {}
     /\ PM!device_release_driver

(* fs set clear: the table is emptied also when the reset was refused. *)
hda_codec_reset ==
  /\ pc = "prompt"
  /\ snd_hda_codec_reset
  /\ reset_pcm
  /\ cleared' = cleared \cup Listed
  /\ UNCHANGED <<created, ref_count, substream_opened, pc, cur>>

(* fs set reconfig: power up, reset, bind and configure again.  The table  *)
(* is left as it is.                                                       *)
hda_codec_reconfig ==
  /\ pc = "prompt"
  /\ PM!pm_runtime_get_sync(Shell)
  /\ pc' = "reset" /\ cur' = [op |-> "reconfig", sub |-> Shell]
  /\ UNCHANGED <<tableVars, streamVars>>

\* Mutant: the table is emptied here as well, whatever the reset did.
ReconfigReset_empties ==
  /\ pc = "reset"
  /\ snd_hda_codec_reset
  /\ reset_pcm
  /\ pc' = "bind"
  /\ UNCHANGED <<created, cleared, ref_count, substream_opened, cur>>

ReconfigReset ==
  /\ pc = "reset"
  /\ snd_hda_codec_reset
  /\ pc' = "bind"
  /\ UNCHANGED <<num_pcm_streams, pcm_streams, created, cleared, ref_count, substream_opened, cur>>

ReconfigBind ==
  /\ pc = "bind"
  /\ IF driver = Drv THEN UNCHANGED deviceVars
     ELSE \E willing \in SUBSET {Drv} : PM!device_reattach(willing)
  /\ pc' = "configure"
  /\ UNCHANGED <<tableVars, streamVars, cur>>

----------------------------------------------------------------------------
(* The PCM test.  Every step but the first and last is a callback of the   *)
(* codec driver or leads to one.                                           *)

Goto(label) == pc' = label /\ UNCHANGED <<deviceVars, tableVars, cur>>

(* Substream s is one the command can be given: its PCM is at an index     *)
(* below num_pcm_streams and its number below the substream count.  The    *)
(* direction is p or c; one given as a number is always refused, for no    *)
(* number is both 0 and 1.                                                 *)
Named(s) == PcmOf(s) \in Listed

(* The list visits every number below num_pcm_streams, and a test accepts  *)
(* any of them.  PCMs without substreams leave NULL entries and push the   *)
(* numbers past the end of the table, and a reconfig leaves freed PCMs     *)
(* behind.  Reading such an entry is undefined: it may end the program, or *)
(* do nothing, or, of a freed PCM, go on as if the PCM were there.         *)
ReadsNoPcm ==
  /\ pc = "prompt"
  /\ {i \in 0 .. num_pcm_streams - 1 : i \in DOMAIN pcm_streams => pcm_streams[i] \notin live} # {}
  /\ pc' \in {"prompt", "crashed"}
  /\ UNCHANGED <<deviceVars, tableVars, streamVars, cur>>

Crashed == pc = "crashed" /\ UNCHANGED vars

hda_test_pcm(op, s) ==
  /\ pc = "prompt"
  /\ Named(s)
  /\ cur' = [op |-> op, sub |-> s]
  /\ IF op = "end"
     THEN /\ s \in ref_count
          /\ pc' = "cleanup"
          /\ UNCHANGED <<ref_count, substream_opened>>
     ELSE /\ s \notin ref_count
          /\ pc' = "power_up"
          /\ ref_count' = ref_count \cup {s}
          /\ substream_opened' = substream_opened \cup {StrOf(s)}
  /\ UNCHANGED <<deviceVars, tableVars, opened>>

\* Mutant: the count is taken without waking the codec.
PowerUp_noresume ==
  /\ pc = "power_up"
  /\ PM!pm_runtime_get_noresume(cur.sub)
  /\ pc' = "open"
  /\ UNCHANGED <<tableVars, streamVars, cur>>

PowerUp ==
  /\ pc = "power_up"
  /\ PM!pm_runtime_get_sync(cur.sub)
  /\ pc' = "open"
  /\ UNCHANGED <<tableVars, streamVars, cur>>

\* Mutant: a refused open is undone without powering down.
Open_returns ==
  /\ pc = "open"
  /\ \/ opened' = opened \cup {cur.sub} /\ Goto("prepare")
        /\ UNCHANGED <<ref_count, substream_opened>>
     \/ UNCHANGED opened /\ Goto("prompt")
        /\ ref_count' = ref_count \ {cur.sub}
        /\ substream_opened' = substream_opened \ {StrOf(cur.sub)}

(* The driver accepts the stream, or fails and is not asked to close it.   *)
Open ==
  /\ pc = "open"
  /\ \/ opened' = opened \cup {cur.sub} /\ Goto("prepare")
     \/ UNCHANGED opened /\ Goto("power_down")
  /\ UNCHANGED <<ref_count, substream_opened>>

(* Bad channels or format skip prepare and cleanup; the result of prepare  *)
(* is ignored.                                                             *)
Prepare ==
  /\ pc = "prepare"
  /\ Goto("cleanup") \/ Goto("close")
  /\ UNCHANGED streamVars

Cleanup ==
  /\ pc = "cleanup"
  /\ Goto("close")
  /\ UNCHANGED streamVars

(* A START leaves the stream open and goes back to the prompt.             *)
Close ==
  /\ pc = "close"
  /\ IF cur.op = "start" THEN UNCHANGED <<ref_count, opened>>
     ELSE ref_count' = ref_count \ {cur.sub} /\ opened' = opened \ {cur.sub}
  /\ Goto("power_down")
  /\ UNCHANGED substream_opened

PowerDown ==
  /\ pc = "power_down"
  /\ pc' = "prompt" /\ cur' = NoCommand
  /\ IF cur.op = "start" THEN UNCHANGED <<deviceVars, ref_count, substream_opened>>
     ELSE /\ PM!pm_runtime_put_autosuspend(cur.sub)
          /\ ref_count' = ref_count \ {cur.sub}
          /\ substream_opened' = substream_opened \ {StrOf(cur.sub)}
  /\ UNCHANGED <<tableVars, opened>>

----------------------------------------------------------------------------
(* Other commands that move the device: the power_save option, and the     *)
(* suspend and resume of the pm command.                                   *)
OptionPowerSave(val) ==
  /\ pc = "prompt"
  /\ PM!hda_set_power_save(val)
  /\ UNCHANGED <<tableVars, streamVars, pc, cur>>

hda_test_suspend ==
  /\ pc = "prompt"
  /\ IF driver = Drv THEN PM!pm_runtime_force_suspend ELSE UNCHANGED deviceVars
  /\ pc' = "asleep"
  /\ UNCHANGED <<tableVars, streamVars, cur>>

hda_test_resume ==
  /\ pc = "asleep"
  /\ IF driver = Drv THEN PM!pm_runtime_force_resume ELSE UNCHANGED deviceVars
  /\ pc' = "prompt"
  /\ UNCHANGED <<tableVars, streamVars, cur>>

Next ==
  \/ \E p \in Pcm : CreatePcm(p)
  \/ Configured
  \/ hda_codec_reset
  \/ hda_codec_reconfig \/ ReconfigReset \/ ReconfigBind
  \/ \E op \in {"all", "start", "end"}, s \in Sub : hda_test_pcm(op, s)
  \/ ReadsNoPcm \/ Crashed
  \/ PowerUp \/ Open \/ Prepare \/ Cleanup \/ Close \/ PowerDown
  \/ \E val \in BOOLEAN : OptionPowerSave(val)
  \/ hda_test_suspend \/ hda_test_resume

Spec == Init /\ [][Next]_vars

----------------------------------------------------------------------------
TypeOK ==
  /\ num_pcm_streams \in Nat
  /\ pcm_streams \in [0 .. MAX_PCM_STREAMS - 1 -> Pcm \cup {NULL}]
  /\ live \subseteq created /\ created \subseteq Pcm /\ cleared \subseteq Pcm
  /\ ref_count \subseteq Sub /\ opened \subseteq Sub
  /\ substream_opened \subseteq Pcm \X {0, 1}
  /\ pc \in {"configure", "reset", "bind", "prompt", "power_up", "open", "prepare",
             "cleanup", "close", "power_down", "asleep", "crashed"}
  /\ cur.op \in {"none", "reconfig", "all", "start", "end"}
  /\ cur.sub \in Sub \cup {Boot, Shell}

(* Between commands the codec is powered for exactly the open streams:     *)
(* whichever way a test ended (refused open, bad channels, START, END), no *)
(* power reference is lost and none is returned twice.                     *)
PowerHeldForOpen == pc \in {"prompt", "asleep"} => holders = ref_count

(* The driver's PCM callbacks run on a bound driver and a powered chip,    *)
(* also for a stream left open across suspends, resumes, power_save        *)
(* changes and refused resets.                                             *)
CallbacksFindChipUp ==
  (pc \in {"open", "prepare", "cleanup", "close"} /\ PcmOf(cur.sub) \in live)
     => driver = Drv /\ chip = "up"

(* A stream the driver has open is one an END still closes: its substream  *)
(* is counted and its PCM has a number, over refused opens, bad channels   *)
(* and reconfigurations that were refused or not.  Only a clear takes that *)
(* away, for it empties the table under the open streams of a codec that   *)
(* refuses the reset.  And no error path leaves the flag the kernel        *)
(* consults before a reset set for a direction without open substreams.    *)
OpenCanBeEnded ==
  pc = "prompt" =>
    /\ \A s \in opened : s \in ref_count /\ (Named(s) \/ PcmOf(s) \in cleared)
    /\ \A str \in substream_opened : \E s \in ref_count : StrOf(s) = str

(* "list registered PCM streams": every entry hda_list_pcms visits, those  *)
(* below num_pcm_streams, is a PCM the codec still has.                    *)
ListedStreamsExist ==
  pc = "prompt" =>
    \A i \in 0 .. num_pcm_streams - 1 : i < MAX_PCM_STREAMS /\ pcm_streams[i] \in live
=============================================================================
