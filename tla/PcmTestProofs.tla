--------------------------- MODULE PcmTestProofs ---------------------------
(***************************************************************************)
(* For any finite set of PCMs and any substreams: between commands the     *)
(* codec is powered for exactly the open streams, the driver's callbacks   *)
(* find their chip up, and only a clear keeps an END from an open stream.  *)
(* The device keeps the invariant that RuntimePMProofs proves of it.       *)
(***************************************************************************)
EXTENDS PcmTest, FiniteSetTheorems, TLAPS

Dev == INSTANCE RuntimePMProofs WITH Ref <- Sub \cup {Boot, Shell}, Driver <- {Drv}

(* Every count is taken by a call that wakes the device, so every holder   *)
(* is one that was granted an active device.  Only the pm command leaves   *)
(* the driver asleep, and only a bound driver has PCMs.                    *)
DeviceOK ==
  /\ Dev!IInv
  /\ awake = holders
  /\ sleeping => driver = Drv /\ pc = "asleep"
  /\ live # {} => driver = Drv

(* Who holds a count at each step of a command: the open streams, but for  *)
(* the one being opened or closed, and the reference of the configuration. *)
HoldersOK ==
  /\ pc = "configure" => cur.sub \in {Boot, Shell} /\ holders = ref_count \cup {cur.sub}
  /\ pc \in {"reset", "bind"} => cur.sub = Shell /\ holders = ref_count \cup {Shell}
  /\ pc \in {"prompt", "asleep"} => holders = ref_count
  /\ pc = "power_up" => cur.sub \in ref_count \ opened /\ holders = ref_count \ {cur.sub}
  /\ pc = "open" => cur.sub \in ref_count \ opened /\ holders = ref_count
  /\ pc \in {"prepare", "cleanup", "close"} => cur.sub \in ref_count /\ holders = ref_count
  /\ pc = "power_down" /\ cur.op = "start" => cur.sub \in ref_count /\ holders = ref_count
  /\ pc = "power_down" /\ cur.op # "start" =>
       cur.sub \in Sub \ opened /\ holders = ref_count \cup {cur.sub}

(* A flag may outlive its last substream until the end of the command that *)
(* closed it.                                                              *)
BooksOK ==
  /\ opened \subseteq ref_count
  /\ \A str \in substream_opened :
       \/ \E s \in ref_count : StrOf(s) = str
       \/ pc = "power_down" /\ cur.op # "start" /\ str = StrOf(cur.sub)

(* A substream being opened has a PCM the table knows, or knew until a     *)
(* clear, and so has every open one.                                       *)
TableOK ==
  /\ \A s \in opened : PcmOf(s) \in Listed \cup cleared
  /\ pc \in {"power_up", "open"} => PcmOf(cur.sub) \in Listed \cup cleared

Core == TypeOK /\ DeviceOK /\ HoldersOK /\ BooksOK

IInv == Core /\ TableOK

(* Substreams are finitely many, and none is a reference of main's or of   *)
(* the shell's.                                                            *)
LEMMA RefFacts ==
  /\ IsFiniteSet(Sub \cup {Boot, Shell})
  /\ NoDriver \notin {Drv}
  /\ Boot \notin Sub /\ Shell \notin Sub
<1> DEFINE Pairs == {0, 1} \X (0 .. 7)
           Nested == Pcm \X Pairs
           flat == [n \in Nested |-> <<n[1], n[2][1], n[2][2]>>]
<1>1. IsFiniteSet(0 .. 7) /\ IsFiniteSet({0, 1})
  <2>1. 0 \in Int /\ 7 \in Int /\ 1 \in Int /\ {0, 1} = 0 .. 1
    OBVIOUS
  <2>2. IsFiniteSet(0 .. 7) /\ IsFiniteSet(0 .. 1)
    BY <2>1, FS_Interval
  <2>3. QED
    BY <2>1, <2>2
<1>2. IsFiniteSet(Nested)
  <2>1. IsFiniteSet(Pairs)
    BY <1>1, FS_Product
  <2> HIDE DEF Pairs
  <2>2. QED
    BY <2>1, PcmAssumption, FS_Product
<1>3. IsFiniteSet(Sub)
  <2>1. IsFiniteSet({flat[n] : n \in Nested})
    <3>1. flat \in Surjection(Nested, {flat[n] : n \in Nested})
      BY DEF Surjection
    <3>2. QED
      BY <1>2, <3>1, FS_Surjection
  <2>2. \A s \in Sub : <<s[1], <<s[2], s[3]>>>> \in Nested /\ flat[<<s[1], <<s[2], s[3]>>>>] = s
    BY DEF Sub
  <2>3. Sub \subseteq {flat[n] : n \in Nested}
    BY <2>2
  <2>4. QED
    BY <2>1, <2>3, FS_Subset
<1>4. IsFiniteSet(Sub \cup {Boot, Shell})
  <2>1. IsFiniteSet(Sub \cup {Boot})
    BY <1>3, FS_AddElement
  <2>2. IsFiniteSet((Sub \cup {Boot}) \cup {Shell})
    BY <2>1, FS_AddElement
  <2>3. (Sub \cup {Boot}) \cup {Shell} = Sub \cup {Boot, Shell}
    OBVIOUS
  <2>4. QED
    BY <2>2, <2>3
<1>5. Boot \notin Sub /\ Shell \notin Sub
  BY PcmAssumption DEF Sub, Boot, Shell
<1>6. QED
  BY <1>4, <1>5, DrvAssumption

(* The device meets the assumptions under which its invariant was proved,  *)
(* so every call of it keeps that invariant.                               *)
LEMMA DeviceStep == Dev!IInv /\ (Dev!Binding \/ Dev!Power) => Dev!IInv'
<1>1. Dev!RefAssumption /\ Dev!DriverAssumption
  BY RefFacts DEF IsFiniteSet, Dev!IsFiniteSet
<1>2. QED
  BY <1>1, Dev!BindingIInv, Dev!PowerIInv

----------------------------------------------------------------------------
(* What the calls of the device do to its invariant and to the holders.    *)

(* Two instances of the device are in use, one in PcmTest and Dev with the *)
(* proofs; their calls are the same.                                       *)
LEMMA SameCalls ==
  /\ \A r : PM!pm_runtime_get_sync(r) => Dev!pm_runtime_get_sync(r)
  /\ \A r : PM!pm_runtime_put_autosuspend(r) => Dev!pm_runtime_put_autosuspend(r)
  /\ \A willing : PM!device_reattach(willing) => Dev!device_reattach(willing)
  /\ PM!device_release_driver => Dev!device_release_driver
  /\ \A val : PM!hda_set_power_save(val) => Dev!hda_set_power_save(val)
  /\ PM!pm_runtime_force_suspend => Dev!pm_runtime_force_suspend
  /\ PM!pm_runtime_force_resume => Dev!pm_runtime_force_resume
<1>1. \A r : PM!pm_runtime_get_sync(r) => Dev!pm_runtime_get_sync(r)
  BY DEF PM!pm_runtime_get_sync, PM!check_resume, PM!GrantAwake, PM!bindVars, PM!Bound,
         Dev!pm_runtime_get_sync, Dev!check_resume, Dev!GrantAwake, Dev!bindVars, Dev!Bound
<1>2. \A r : PM!pm_runtime_put_autosuspend(r) => Dev!pm_runtime_put_autosuspend(r)
  BY DEF PM!pm_runtime_put_autosuspend, PM!check_suspend, PM!Return, PM!bindVars, PM!Bound,
         Dev!pm_runtime_put_autosuspend, Dev!check_suspend, Dev!Return, Dev!bindVars, Dev!Bound
<1>3. \A willing : PM!device_reattach(willing) => Dev!device_reattach(willing)
  BY DEF PM!device_reattach, PM!device_attach, PM!Bound, Dev!device_reattach, Dev!device_attach, Dev!Bound
<1>4. PM!device_release_driver => Dev!device_release_driver
  BY DEF PM!device_release_driver, PM!pmVars, Dev!device_release_driver, Dev!pmVars
<1>5. \A val : PM!hda_set_power_save(val) => Dev!hda_set_power_save(val)
  BY DEF PM!hda_set_power_save, PM!pm_runtime_allow, PM!pm_runtime_forbid, PM!check_resume, PM!check_suspend,
         PM!bindVars, PM!pmVars, PM!Bound,
         Dev!hda_set_power_save, Dev!pm_runtime_allow, Dev!pm_runtime_forbid, Dev!check_resume,
         Dev!check_suspend, Dev!bindVars, Dev!pmVars, Dev!Bound
<1>6. PM!pm_runtime_force_suspend => Dev!pm_runtime_force_suspend
  BY DEF PM!pm_runtime_force_suspend, PM!bindVars, PM!Bound,
         Dev!pm_runtime_force_suspend, Dev!bindVars, Dev!Bound
<1>7. PM!pm_runtime_force_resume => Dev!pm_runtime_force_resume
  BY DEF PM!pm_runtime_force_resume, PM!bindVars, PM!Bound,
         Dev!pm_runtime_force_resume, Dev!bindVars, Dev!Bound
<1>8. QED
  BY <1>1, <1>2, <1>3, <1>4, <1>5, <1>6, <1>7

(* A count taken by pm_runtime_get_sync leaves the device awake.           *)
LEMMA GetKeeps ==
  ASSUME Dev!IInv, awake = holders, NEW r \in Sub \cup {Boot, Shell}, PM!pm_runtime_get_sync(r)
  PROVE  Dev!IInv' /\ holders' = holders \cup {r} /\ awake' = holders' /\ UNCHANGED <<driver, sleeping>>
<1>1. Dev!pm_runtime_get_sync(r)
  BY SameCalls
<1>2. Dev!IInv'
  BY <1>1, DeviceStep DEF Dev!Power
<1>3. QED
  BY <1>1, <1>2 DEF Dev!pm_runtime_get_sync, Dev!GrantAwake, Dev!bindVars

(* A count is returned with pm_runtime_put_autosuspend.                    *)
LEMMA PutKeeps ==
  ASSUME Dev!IInv, awake = holders, NEW r \in Sub \cup {Boot, Shell}, PM!pm_runtime_put_autosuspend(r)
  PROVE  Dev!IInv' /\ holders' = holders \ {r} /\ awake' = holders' /\ UNCHANGED <<driver, sleeping>>
<1>1. Dev!pm_runtime_put_autosuspend(r)
  BY SameCalls
<1>2. Dev!IInv'
  BY <1>1, DeviceStep DEF Dev!Power
<1>3. QED
  BY <1>1, <1>2 DEF Dev!pm_runtime_put_autosuspend, Dev!Return, Dev!bindVars

(* A removal takes the driver away and ends a system sleep of it.          *)
LEMMA ReleaseKeeps ==
  ASSUME Dev!IInv, PM!device_release_driver
  PROVE  Dev!IInv' /\ UNCHANGED <<holders, awake>> /\ driver' = NoDriver /\ ~sleeping'
<1>1. Dev!device_release_driver
  BY SameCalls
<1>2. Dev!IInv'
  BY <1>1, DeviceStep DEF Dev!Binding
<1>3. QED
  BY <1>1, <1>2 DEF Dev!device_release_driver

(* A reattach leaves counts and sleep alone.                               *)
LEMMA ReattachKeeps ==
  ASSUME Dev!IInv, NEW willing \in SUBSET {Drv}, PM!device_reattach(willing)
  PROVE  Dev!IInv' /\ UNCHANGED <<holders, awake, sleeping>>
<1>1. Dev!device_reattach(willing)
  BY SameCalls
<1>2. Dev!IInv'
  BY <1>1, DeviceStep DEF Dev!Binding
<1>3. QED
  BY <1>1, <1>2 DEF Dev!device_reattach, Dev!device_attach

(* The power_save option leaves counts, driver and sleep alone.            *)
LEMMA PowerSaveKeeps ==
  ASSUME Dev!IInv, NEW val \in BOOLEAN, PM!hda_set_power_save(val)
  PROVE  Dev!IInv' /\ UNCHANGED <<holders, awake, driver, sleeping>>
<1>1. Dev!hda_set_power_save(val)
  BY SameCalls
<1>2. Dev!IInv'
  BY <1>1, DeviceStep DEF Dev!Power
<1>3. QED
  BY <1>1, <1>2 DEF Dev!hda_set_power_save, Dev!bindVars

(* A forced suspend leaves counts and driver alone.                        *)
LEMMA ForceSuspendKeeps ==
  ASSUME Dev!IInv, PM!pm_runtime_force_suspend
  PROVE  Dev!IInv' /\ UNCHANGED <<holders, awake, driver>>
<1>1. Dev!pm_runtime_force_suspend
  BY SameCalls
<1>2. Dev!IInv'
  BY <1>1, DeviceStep DEF Dev!Power
<1>3. QED
  BY <1>1, <1>2 DEF Dev!pm_runtime_force_suspend, Dev!bindVars

(* A forced resume ends the sleep.                                         *)
LEMMA ForceResumeKeeps ==
  ASSUME Dev!IInv, PM!pm_runtime_force_resume
  PROVE  Dev!IInv' /\ UNCHANGED <<holders, awake, driver>> /\ ~sleeping'
<1>1. Dev!pm_runtime_force_resume
  BY SameCalls
<1>2. Dev!IInv'
  BY <1>1, DeviceStep DEF Dev!Power
<1>3. QED
  BY <1>1, <1>2 DEF Dev!pm_runtime_force_resume, Dev!bindVars

(* A command that does not touch the device.                               *)
LEMMA StillKeeps ==
  ASSUME Dev!IInv, UNCHANGED deviceVars
  PROVE  Dev!IInv' /\ UNCHANGED <<holders, awake, driver, sleeping>>
BY DEF deviceVars, Dev!IInv, Dev!TypeOK, Dev!CountIsHolders, Dev!HeldStaysAwake, Dev!ActiveChipUp,
       Dev!IdleIsSuspended, Dev!Bound

(* The kernel's reset frees every PCM of the driver that it unbinds.       *)
LEMMA ResetKeeps ==
  ASSUME Dev!IInv, sleeping => driver = Drv, live # {} => driver = Drv, snd_hda_codec_reset
  PROVE  /\ Dev!IInv' /\ UNCHANGED <<holders, awake>>
         /\ live' \subseteq live /\ opened' \subseteq opened
         /\ sleeping' => sleeping
         /\ sleeping' => driver' = Drv
         /\ live' # {} => driver' = Drv
<1>1. CASE UNCHANGED <<deviceVars, live, opened>>
  BY <1>1, StillKeeps
<1>2. CASE live' = {} /\ opened' = {} /\ PM!device_release_driver
  BY <1>2, ReleaseKeeps
<1>3. QED
  BY <1>1, <1>2 DEF snd_hda_codec_reset

----------------------------------------------------------------------------
(* The program starts with main's count taken and no stream open.          *)
LEMMA InitCore == Init => Core
<1> SUFFICES ASSUME Init PROVE Core
  OBVIOUS
<1>1. TypeOK
  BY StreamAssumption DEF Init, TypeOK, Sub
<1>2. Dev!IInv
  <2>1. Cardinality({Boot}) = 1
    BY FS_Singleton
  <2>2. registered = <<Drv>> /\ <<Drv>> \in Seq({Drv})
    BY DEF Init
  <2>3. Dev!Cardinality(holders) = Cardinality(holders)
    BY DEF Cardinality, Dev!Cardinality
  <2>4. QED
    BY <2>1, <2>2, <2>3 DEF Init, Dev!IInv, Dev!TypeOK, Dev!CountIsHolders, Dev!HeldStaysAwake,
                            Dev!ActiveChipUp, Dev!IdleIsSuspended
<1>3. DeviceOK /\ HoldersOK /\ BooksOK
  BY <1>2 DEF Init, DeviceOK, HoldersOK, BooksOK
<1>4. QED
  BY <1>1, <1>3 DEF Core

(* The steps that move no reference: the table, and the driver's callbacks *)
(* in between the power-up and the power-down of a test.                   *)
LEMMA StreamSteps ==
  ASSUME Core, \/ \E p \in Pcm : CreatePcm(p)
               \/ \E op \in {"all", "start", "end"}, s \in Sub : hda_test_pcm(op, s)
               \/ ReadsNoPcm \/ Crashed
               \/ Open \/ Prepare \/ Cleanup \/ Close
  PROVE  Core'
<1> USE DEF StrOf
<1>0. TypeOK /\ DeviceOK /\ HoldersOK /\ BooksOK
  BY DEF Core
<1>1. ASSUME NEW p \in Pcm, CreatePcm(p) PROVE Core'
  <2>1. /\ pc = "configure" /\ driver = Drv /\ attach_pcm(p)
        /\ created' = created \cup {p} /\ live' = live \cup {p}
        /\ UNCHANGED <<deviceVars, cleared, ref_count, substream_opened, opened, pc, cur>>
    BY <1>1 DEF CreatePcm, streamVars
  <2>2. /\ num_pcm_streams' \in Nat
        /\ pcm_streams' \in [0 .. MAX_PCM_STREAMS - 1 -> Pcm \cup {NULL}]
    <3>1. num_pcm_streams \in Nat /\ pcm_streams \in [0 .. MAX_PCM_STREAMS - 1 -> Pcm \cup {NULL}]
      BY <1>0 DEF TypeOK
    <3>2. num_pcm_streams < MAX_PCM_STREAMS =>
            StoreAt(num_pcm_streams, p) \in [0 .. MAX_PCM_STREAMS - 1 -> Pcm \cup {NULL}]
      <4> SUFFICES ASSUME num_pcm_streams < MAX_PCM_STREAMS
                   PROVE  StoreAt(num_pcm_streams, p) \in [0 .. MAX_PCM_STREAMS - 1 -> Pcm \cup {NULL}]
        OBVIOUS
      <4>1. DOMAIN pcm_streams \cup {num_pcm_streams} = 0 .. MAX_PCM_STREAMS - 1
        BY <3>1, StreamAssumption
      <4>2. QED
        BY <3>1, <4>1 DEF StoreAt
    <3>3. QED
      BY <2>1, <3>1, <3>2, StreamAssumption DEF attach_pcm
  <2>3. TypeOK'
    BY <1>0, <2>1, <2>2 DEF TypeOK
  <2>4. Dev!IInv' /\ UNCHANGED <<holders, awake, driver, sleeping>>
    BY <1>0, <2>1, StillKeeps DEF DeviceOK
  <2>5. DeviceOK' /\ HoldersOK' /\ BooksOK'
    BY <1>0, <2>1, <2>4 DEF DeviceOK, HoldersOK, BooksOK
  <2>6. QED
    BY <2>3, <2>5 DEF Core
<1>a. ASSUME UNCHANGED <<deviceVars, tableVars>>, pc # "asleep"
      PROVE  /\ UNCHANGED <<num_pcm_streams, pcm_streams, created, live, cleared, holders>>
             /\ DeviceOK'
  BY <1>0, <1>a, StillKeeps DEF DeviceOK, tableVars
<1>2. ASSUME NEW op \in {"all", "start", "end"}, NEW s \in Sub, hda_test_pcm(op, s) PROVE Core'
  <2>1. /\ pc = "prompt" /\ cur' = [op |-> op, sub |-> s] /\ UNCHANGED <<deviceVars, tableVars, opened>>
        /\ \/ s \in ref_count /\ pc' = "cleanup" /\ UNCHANGED <<ref_count, substream_opened>>
           \/ /\ s \notin ref_count /\ pc' = "power_up" /\ ref_count' = ref_count \cup {s}
              /\ substream_opened' = substream_opened \cup {StrOf(s)}
    BY <1>2 DEF hda_test_pcm
  <2>2. UNCHANGED <<num_pcm_streams, pcm_streams, created, live, cleared, holders>> /\ DeviceOK'
    BY <1>a, <2>1
  <2>3. StrOf(s) \in Pcm \X {0, 1}
    BY DEF Sub
  <2>4. TypeOK'
    BY <1>0, <2>1, <2>2, <2>3 DEF TypeOK
  <2>5. HoldersOK'
    BY <1>0, <2>1, <2>2 DEF HoldersOK, BooksOK
  <2>6. BooksOK'
    BY <1>0, <2>1 DEF BooksOK
  <2>7. QED
    BY <2>2, <2>4, <2>5, <2>6 DEF Core
<1>3. CASE Open
  <2>1. /\ pc = "open" /\ UNCHANGED <<deviceVars, tableVars, cur, ref_count, substream_opened>>
        /\ \/ opened' = opened \cup {cur.sub} /\ pc' = "prepare"
           \/ UNCHANGED opened /\ pc' = "power_down"
    BY <1>3 DEF Open, Goto
  <2>2. UNCHANGED <<num_pcm_streams, pcm_streams, created, live, cleared, holders>> /\ DeviceOK'
    BY <1>a, <2>1
  <2>3. cur.sub \in ref_count \ opened /\ cur.sub \in Sub /\ holders = ref_count
    BY <1>0, <2>1 DEF HoldersOK, TypeOK
  <2>4. TypeOK' /\ HoldersOK' /\ BooksOK'
    BY <1>0, <2>1, <2>2, <2>3 DEF TypeOK, HoldersOK, BooksOK
  <2>5. QED
    BY <2>2, <2>4 DEF Core
<1>4. CASE Prepare \/ Cleanup
  <2>1. /\ pc \in {"prepare", "cleanup"} /\ pc' \in {"cleanup", "close"}
        /\ UNCHANGED <<deviceVars, tableVars, cur, ref_count, substream_opened, opened>>
    BY <1>4 DEF Prepare, Cleanup, Goto, streamVars
  <2>2. UNCHANGED <<num_pcm_streams, pcm_streams, created, live, cleared, holders>> /\ DeviceOK'
    BY <1>a, <2>1
  <2>3. TypeOK' /\ HoldersOK' /\ BooksOK'
    BY <1>0, <2>1, <2>2 DEF TypeOK, HoldersOK, BooksOK
  <2>4. QED
    BY <2>2, <2>3 DEF Core
<1>5. CASE Close
  <2>1. /\ pc = "close" /\ pc' = "power_down"
        /\ UNCHANGED <<deviceVars, tableVars, cur, substream_opened>>
        /\ IF cur.op = "start" THEN UNCHANGED <<ref_count, opened>>
           ELSE ref_count' = ref_count \ {cur.sub} /\ opened' = opened \ {cur.sub}
    BY <1>5 DEF Close, Goto
  <2>2. UNCHANGED <<num_pcm_streams, pcm_streams, created, live, cleared, holders>> /\ DeviceOK'
    BY <1>a, <2>1
  <2>3. cur.sub \in ref_count /\ cur.sub \in Sub /\ holders = ref_count
    BY <1>0, <2>1 DEF HoldersOK, TypeOK
  <2>4. TypeOK' /\ HoldersOK'
    BY <1>0, <2>1, <2>2, <2>3 DEF TypeOK, HoldersOK
  <2>5. BooksOK'
    BY <1>0, <2>1, <2>3 DEF BooksOK
  <2>6. QED
    BY <2>2, <2>4, <2>5 DEF Core
<1>6. CASE ReadsNoPcm
  <2>1. /\ pc = "prompt" /\ pc' \in {"prompt", "crashed"}
        /\ UNCHANGED <<deviceVars, tableVars, cur, ref_count, substream_opened, opened>>
    BY <1>6 DEF ReadsNoPcm, streamVars
  <2>2. UNCHANGED <<num_pcm_streams, pcm_streams, created, live, cleared, holders>> /\ DeviceOK'
    BY <1>a, <2>1
  <2>3. TypeOK' /\ HoldersOK' /\ BooksOK'
    BY <1>0, <2>1, <2>2 DEF TypeOK, HoldersOK, BooksOK
  <2>4. QED
    BY <2>2, <2>3 DEF Core
<1>7. CASE Crashed
  <2>1. /\ pc = "crashed" /\ UNCHANGED <<deviceVars, tableVars>>
        /\ UNCHANGED <<ref_count, substream_opened, opened, pc, cur>>
    BY <1>7 DEF Crashed, vars, streamVars
  <2>2. UNCHANGED <<num_pcm_streams, pcm_streams, created, live, cleared, holders>> /\ DeviceOK'
    BY <1>a, <2>1
  <2>3. QED
    BY <1>0, <2>1, <2>2 DEF Core, TypeOK, HoldersOK, BooksOK
<1>8. QED
  BY <1>1, <1>2, <1>3, <1>4, <1>5, <1>6, <1>7

(* The steps that take or give back a reference. *)
LEMMA PowerSteps ==
  ASSUME Core, Configured \/ hda_codec_reconfig \/ PowerUp \/ PowerDown
  PROVE  Core'
<1>0. /\ TypeOK /\ DeviceOK /\ HoldersOK /\ BooksOK /\ Dev!IInv /\ awake = holders
      /\ ref_count \subseteq Sub /\ Boot \notin Sub /\ Shell \notin Sub /\ cur.sub \in Sub \cup {Boot, Shell}
  BY RefFacts DEF Core, DeviceOK, TypeOK
<1>1. CASE Configured
  <2>1. /\ pc = "configure" /\ PM!pm_runtime_put_autosuspend(cur.sub) /\ pc' = "prompt" /\ cur' = NoCommand
        /\ UNCHANGED <<num_pcm_streams, pcm_streams, created, live, cleared, ref_count, substream_opened, opened>>
    BY <1>1 DEF Configured, tableVars, streamVars
  <2>2. Dev!IInv' /\ holders' = holders \ {cur.sub} /\ awake' = holders' /\ UNCHANGED <<driver, sleeping>>
    BY <1>0, <2>1, PutKeeps
  <2>3. holders' = ref_count
    BY <1>0, <2>1, <2>2 DEF HoldersOK
  <2>4. TypeOK' /\ DeviceOK' /\ HoldersOK' /\ BooksOK'
    BY <1>0, <2>1, <2>2, <2>3 DEF TypeOK, DeviceOK, HoldersOK, BooksOK, NoCommand
  <2>5. QED
    BY <2>4 DEF Core
<1>2. CASE hda_codec_reconfig
  <2>1. /\ pc = "prompt" /\ PM!pm_runtime_get_sync(Shell) /\ pc' = "reset"
        /\ cur' = [op |-> "reconfig", sub |-> Shell]
        /\ UNCHANGED <<num_pcm_streams, pcm_streams, created, live, cleared, ref_count, substream_opened, opened>>
    BY <1>2 DEF hda_codec_reconfig, tableVars, streamVars
  <2>2. Dev!IInv' /\ holders' = holders \cup {Shell} /\ awake' = holders' /\ UNCHANGED <<driver, sleeping>>
    BY <1>0, <2>1, GetKeeps
  <2>3. TypeOK' /\ DeviceOK' /\ HoldersOK' /\ BooksOK'
    BY <1>0, <2>1, <2>2 DEF TypeOK, DeviceOK, HoldersOK, BooksOK
  <2>4. QED
    BY <2>3 DEF Core
<1>3. CASE PowerUp
  <2>1. /\ pc = "power_up" /\ PM!pm_runtime_get_sync(cur.sub) /\ pc' = "open"
        /\ UNCHANGED <<num_pcm_streams, pcm_streams, created, live, cleared, ref_count, substream_opened, opened, cur>>
    BY <1>3 DEF PowerUp, tableVars, streamVars
  <2>2. Dev!IInv' /\ holders' = holders \cup {cur.sub} /\ awake' = holders' /\ UNCHANGED <<driver, sleeping>>
    BY <1>0, <2>1, GetKeeps
  <2>3. holders' = ref_count
    BY <1>0, <2>1, <2>2 DEF HoldersOK
  <2>4. TypeOK' /\ DeviceOK' /\ HoldersOK' /\ BooksOK'
    BY <1>0, <2>1, <2>2, <2>3 DEF TypeOK, DeviceOK, HoldersOK, BooksOK
  <2>5. QED
    BY <2>4 DEF Core
<1>4. CASE PowerDown /\ cur.op = "start"
  <2>1. /\ pc = "power_down" /\ pc' = "prompt" /\ cur' = NoCommand
        /\ UNCHANGED <<deviceVars, num_pcm_streams, pcm_streams, created, live, cleared, ref_count, substream_opened, opened>>
    BY <1>4 DEF PowerDown, tableVars
  <2>2. Dev!IInv' /\ UNCHANGED <<holders, awake, driver, sleeping>>
    BY <1>0, <2>1, StillKeeps
  <2>3. TypeOK' /\ DeviceOK' /\ HoldersOK'
    BY <1>0, <1>4, <2>1, <2>2 DEF TypeOK, DeviceOK, HoldersOK, NoCommand
  <2>4. BooksOK'
    BY <1>0, <1>4, <2>1 DEF BooksOK
  <2>5. QED
    BY <2>3, <2>4 DEF Core
<1>5. CASE PowerDown /\ cur.op # "start"
  <2>1. /\ pc = "power_down" /\ pc' = "prompt" /\ cur' = NoCommand /\ PM!pm_runtime_put_autosuspend(cur.sub)
        /\ ref_count' = ref_count \ {cur.sub} /\ substream_opened' = substream_opened \ {StrOf(cur.sub)}
        /\ UNCHANGED <<num_pcm_streams, pcm_streams, created, live, cleared, opened>>
    BY <1>5 DEF PowerDown, tableVars
  <2>2. Dev!IInv' /\ holders' = holders \ {cur.sub} /\ awake' = holders' /\ UNCHANGED <<driver, sleeping>>
    BY <1>0, <2>1, PutKeeps
  <2>3. cur.sub \notin opened /\ holders' = ref_count'
    BY <1>0, <1>5, <2>1, <2>2 DEF HoldersOK
  <2>4. TypeOK' /\ DeviceOK' /\ HoldersOK'
    BY <1>0, <2>1, <2>2, <2>3 DEF TypeOK, DeviceOK, HoldersOK, NoCommand
  <2>5. BooksOK'
    BY <1>0, <1>5, <2>1, <2>3 DEF BooksOK
  <2>6. QED
    BY <2>4, <2>5 DEF Core
<1>6. QED
  BY <1>1, <1>2, <1>3, <1>4, <1>5

(* The steps that tear the codec down, bind it, or move the device.        *)
LEMMA DeviceSteps ==
  ASSUME Core, \/ hda_codec_reset \/ ReconfigReset \/ ReconfigBind
               \/ \E val \in BOOLEAN : OptionPowerSave(val)
               \/ hda_test_suspend \/ hda_test_resume
  PROVE  Core'
<1>0. /\ TypeOK /\ DeviceOK /\ HoldersOK /\ BooksOK /\ Dev!IInv /\ awake = holders
      /\ (sleeping => driver = Drv /\ pc = "asleep") /\ (live # {} => driver = Drv)
  BY DEF Core, DeviceOK
<1>1. CASE hda_codec_reset
  <2>1. /\ pc = "prompt" /\ snd_hda_codec_reset /\ num_pcm_streams' = 0
        /\ pcm_streams' = [i \in 0 .. MAX_PCM_STREAMS - 1 |-> NULL]
        /\ cleared' = cleared \cup Listed
        /\ UNCHANGED <<created, ref_count, substream_opened, pc, cur>>
    BY <1>1 DEF hda_codec_reset, reset_pcm
  <2>2. /\ Dev!IInv' /\ UNCHANGED <<holders, awake>> /\ live' \subseteq live /\ opened' \subseteq opened
        /\ (sleeping' => sleeping) /\ (sleeping' => driver' = Drv) /\ (live' # {} => driver' = Drv)
    BY <1>0, <2>1, ResetKeeps
  <2>3. TypeOK'
    <3>1. Listed \subseteq Pcm
      BY <1>0 DEF TypeOK, Listed
    <3>2. QED
      BY <1>0, <2>1, <2>2, <3>1 DEF TypeOK
  <2>4. DeviceOK' /\ HoldersOK' /\ BooksOK'
    BY <1>0, <2>1, <2>2 DEF DeviceOK, HoldersOK, BooksOK
  <2>5. QED
    BY <2>3, <2>4 DEF Core
<1>2. CASE ReconfigReset
  <2>1. /\ pc = "reset" /\ snd_hda_codec_reset /\ pc' = "bind"
        /\ UNCHANGED <<num_pcm_streams, pcm_streams, created, cleared, ref_count, substream_opened, cur>>
    BY <1>2 DEF ReconfigReset
  <2>2. /\ Dev!IInv' /\ UNCHANGED <<holders, awake>> /\ live' \subseteq live /\ opened' \subseteq opened
        /\ (sleeping' => sleeping) /\ (sleeping' => driver' = Drv) /\ (live' # {} => driver' = Drv)
    BY <1>0, <2>1, ResetKeeps
  <2>3. TypeOK' /\ DeviceOK' /\ HoldersOK' /\ BooksOK'
    BY <1>0, <2>1, <2>2 DEF TypeOK, DeviceOK, HoldersOK, BooksOK
  <2>4. QED
    BY <2>3 DEF Core
<1>3. CASE ReconfigBind
  <2>1. /\ pc = "bind" /\ pc' = "configure"
        /\ \/ UNCHANGED deviceVars
           \/ driver # Drv /\ \E willing \in SUBSET {Drv} : PM!device_reattach(willing)
        /\ UNCHANGED <<num_pcm_streams, pcm_streams, created, live, cleared, ref_count, substream_opened, opened, cur>>
    BY <1>3 DEF ReconfigBind, tableVars, streamVars
  <2>2. Dev!IInv' /\ UNCHANGED <<holders, awake, sleeping>> /\ (driver = Drv => driver' = Drv)
    BY <1>0, <2>1, StillKeeps, ReattachKeeps
  <2>3. TypeOK' /\ DeviceOK' /\ HoldersOK' /\ BooksOK'
    BY <1>0, <2>1, <2>2 DEF TypeOK, DeviceOK, HoldersOK, BooksOK
  <2>4. QED
    BY <2>3 DEF Core
<1>4. ASSUME NEW val \in BOOLEAN, OptionPowerSave(val) PROVE Core'
  <2>1. /\ PM!hda_set_power_save(val)
        /\ UNCHANGED <<num_pcm_streams, pcm_streams, created, live, cleared, ref_count, substream_opened, opened, pc, cur>>
    BY <1>4 DEF OptionPowerSave, tableVars, streamVars
  <2>2. Dev!IInv' /\ UNCHANGED <<holders, awake, driver, sleeping>>
    BY <1>0, <2>1, PowerSaveKeeps
  <2>3. TypeOK' /\ DeviceOK' /\ HoldersOK' /\ BooksOK'
    BY <1>0, <2>1, <2>2 DEF TypeOK, DeviceOK, HoldersOK, BooksOK
  <2>4. QED
    BY <2>3 DEF Core
<1>5. CASE hda_test_suspend
  <2>1. /\ pc = "prompt" /\ pc' = "asleep"
        /\ \/ driver = Drv /\ PM!pm_runtime_force_suspend
           \/ UNCHANGED deviceVars
        /\ UNCHANGED <<num_pcm_streams, pcm_streams, created, live, cleared, ref_count, substream_opened, opened, cur>>
    BY <1>5 DEF hda_test_suspend, tableVars, streamVars
  <2>2. Dev!IInv' /\ UNCHANGED <<holders, awake, driver>> /\ (sleeping' => driver' = Drv)
    BY <1>0, <2>1, StillKeeps, ForceSuspendKeeps
  <2>3. TypeOK' /\ DeviceOK' /\ HoldersOK' /\ BooksOK'
    BY <1>0, <2>1, <2>2 DEF TypeOK, DeviceOK, HoldersOK, BooksOK
  <2>4. QED
    BY <2>3 DEF Core
<1>6. CASE hda_test_resume
  <2>1. /\ pc = "asleep" /\ pc' = "prompt"
        /\ \/ driver = Drv /\ PM!pm_runtime_force_resume
           \/ driver # Drv /\ UNCHANGED deviceVars
        /\ UNCHANGED <<num_pcm_streams, pcm_streams, created, live, cleared, ref_count, substream_opened, opened, cur>>
    BY <1>6 DEF hda_test_resume, tableVars, streamVars
  <2>2. Dev!IInv' /\ UNCHANGED <<holders, awake, driver>> /\ ~sleeping'
    BY <1>0, <2>1, StillKeeps, ForceResumeKeeps
  <2>3. TypeOK' /\ DeviceOK' /\ HoldersOK' /\ BooksOK'
    BY <1>0, <2>1, <2>2 DEF TypeOK, DeviceOK, HoldersOK, BooksOK
  <2>4. QED
    BY <2>3 DEF Core
<1>7. QED
  BY <1>1, <1>2, <1>3, <1>4, <1>5, <1>6

(* Every step of a command keeps the invariant.                            *)
LEMMA StepCore == Core /\ [Next]_vars => Core'
<1> SUFFICES ASSUME Core, [Next]_vars PROVE Core'
  OBVIOUS
<1>1. CASE UNCHANGED vars
  <2>1. /\ UNCHANGED deviceVars
        /\ UNCHANGED <<num_pcm_streams, pcm_streams, created, live, cleared, ref_count, substream_opened, opened, pc, cur>>
    BY <1>1 DEF vars, tableVars, streamVars
  <2>2. Dev!IInv' /\ UNCHANGED <<holders, awake, driver, sleeping>>
    BY <2>1, StillKeeps DEF Core, DeviceOK
  <2>3. QED
    BY <2>1, <2>2 DEF Core, TypeOK, DeviceOK, HoldersOK, BooksOK
<1>2. QED
  BY <1>1, StreamSteps, PowerSteps, DeviceSteps DEF Next

(* A step that leaves the table alone, and opens nothing but the substream *)
(* the command has named, keeps what the table says of the open ones.      *)
LEMMA TableStill ==
  ASSUME TableOK, UNCHANGED <<num_pcm_streams, pcm_streams, cleared>>,
         \/ opened' \subseteq opened
         \/ pc = "open" /\ opened' = opened \cup {cur.sub},
         pc' \in {"power_up", "open"} => pc \in {"power_up", "open"} /\ cur' = cur
  PROVE  TableOK'
<1>1. Listed' = Listed /\ cleared' = cleared
  BY DEF Listed
<1>2. ASSUME NEW s \in opened' PROVE PcmOf(s) \in Listed \cup cleared
  BY <1>2 DEF TableOK
<1>3. QED
  BY <1>1, <1>2 DEF TableOK

(* Numbers are given out one after the other, and only a clear takes PCMs  *)
(* out of the table.                                                       *)
LEMMA TableStep == Core /\ TableOK /\ [Next]_vars => TableOK'
<1> SUFFICES ASSUME Core, TableOK, [Next]_vars PROVE TableOK'
  OBVIOUS
<1>0. TypeOK
  BY DEF Core
<1>1. ASSUME NEW p \in Pcm, CreatePcm(p) PROVE TableOK'
  <2>1. /\ pc = "configure" /\ attach_pcm(p) /\ UNCHANGED <<opened, cleared, pc, cur>>
    BY <1>1 DEF CreatePcm, streamVars
  <2>2. num_pcm_streams \in Nat /\ DOMAIN pcm_streams \subseteq Nat
    BY <1>0 DEF TypeOK
  <2>3. Listed \subseteq Listed'
    <3>1. num_pcm_streams' \in Nat /\ num_pcm_streams <= num_pcm_streams'
      BY <2>1, <2>2 DEF attach_pcm
    <3>2. ASSUME NEW i \in DOMAIN pcm_streams, i < num_pcm_streams
          PROVE  i \in DOMAIN pcm_streams' /\ pcm_streams'[i] = pcm_streams[i]
      BY <2>1, <2>2, <3>2 DEF attach_pcm, StoreAt
    <3>3. QED
      BY <2>2, <3>1, <3>2 DEF Listed
  <2>4. QED
    BY <2>1, <2>3 DEF TableOK
<1>2. CASE hda_codec_reset
  <2>1. /\ pc = "prompt" /\ pc' = pc /\ cleared' = cleared \cup Listed /\ opened' \subseteq opened
    BY <1>2 DEF hda_codec_reset, snd_hda_codec_reset
  <2>2. QED
    BY <2>1 DEF TableOK
<1>3. ASSUME NEW op \in {"all", "start", "end"}, NEW s \in Sub, hda_test_pcm(op, s) PROVE TableOK'
  <2>1. /\ cur'.sub = s /\ PcmOf(s) \in Listed
        /\ UNCHANGED <<num_pcm_streams, pcm_streams, cleared, opened>>
    BY <1>3 DEF hda_test_pcm, Named, tableVars
  <2>2. Listed' = Listed
    BY <2>1 DEF Listed
  <2>3. QED
    BY <2>1, <2>2 DEF TableOK
<1>4. CASE \/ Configured \/ hda_codec_reconfig \/ ReconfigReset \/ ReconfigBind
           \/ ReadsNoPcm \/ Crashed \/ PowerUp \/ Open \/ Prepare \/ Cleanup \/ Close \/ PowerDown
           \/ \E val \in BOOLEAN : OptionPowerSave(val)
           \/ hda_test_suspend \/ hda_test_resume \/ UNCHANGED vars
  <2>1. UNCHANGED <<num_pcm_streams, pcm_streams, cleared>>
    BY <1>4 DEF Configured, hda_codec_reconfig, ReconfigReset, ReconfigBind, ReadsNoPcm, Crashed, PowerUp,
                Open, Prepare, Cleanup, Close, PowerDown, Goto, OptionPowerSave, hda_test_suspend,
                hda_test_resume, vars, tableVars
  <2>2. \/ opened' \subseteq opened
        \/ pc = "open" /\ opened' = opened \cup {cur.sub}
    BY <1>4 DEF Configured, hda_codec_reconfig, ReconfigReset, ReconfigBind, ReadsNoPcm, Crashed, PowerUp,
                Open, Prepare, Cleanup, Close, PowerDown, Goto, OptionPowerSave, hda_test_suspend,
                hda_test_resume, snd_hda_codec_reset, vars, streamVars
  <2>3. pc' \in {"power_up", "open"} => pc \in {"power_up", "open"} /\ cur' = cur
    BY <1>4 DEF Configured, hda_codec_reconfig, ReconfigReset, ReconfigBind, ReadsNoPcm, Crashed, PowerUp,
                Open, Prepare, Cleanup, Close, PowerDown, Goto, OptionPowerSave, hda_test_suspend,
                hda_test_resume, vars
  <2>4. QED
    BY <2>1, <2>2, <2>3, TableStill
<1>5. QED
  BY <1>1, <1>2, <1>3, <1>4 DEF Next

----------------------------------------------------------------------------
(* The inductive invariant holds of every session of the shell. *)
THEOREM PcmInvariant == Spec => []IInv
<1>1. Init => IInv
  BY InitCore DEF Init, IInv, TableOK
<1>2. IInv /\ [Next]_vars => IInv'
  BY StepCore, TableStep DEF IInv
<1>3. QED
  BY <1>1, <1>2, PTL DEF Spec

(* The table of PCM streams is never written past its end, whatever is     *)
(* registered over any number of configurations (attach_pcm).              *)
THEOREM TypeCorrect == Spec => []TypeOK
<1>1. IInv => TypeOK
  BY DEF IInv, Core
<1>2. QED
  BY <1>1, PcmInvariant, PTL

(* However a test ends, no power reference is lost or returned twice       *)
(* (hda_test_pcm, hda_codec_reconfig).                                     *)
THEOREM OpenStreamsHoldPower == Spec => []PowerHeldForOpen
<1>1. IInv => PowerHeldForOpen
  BY DEF IInv, Core, HoldersOK, PowerHeldForOpen
<1>2. QED
  BY <1>1, PcmInvariant, PTL

(* The driver's PCM callbacks run on a bound driver and a powered chip,    *)
(* whatever suspends, resumes and refused resets came before.              *)
THEOREM CallbacksArePowered == Spec => []CallbacksFindChipUp
<1>1. IInv => CallbacksFindChipUp
  <2> SUFFICES ASSUME IInv, pc \in {"open", "prepare", "cleanup", "close"}, PcmOf(cur.sub) \in live
               PROVE  driver = Drv /\ chip = "up"
    BY DEF CallbacksFindChipUp
  <2>1. driver = Drv /\ ~sleeping /\ awake = holders /\ Dev!HeldStaysAwake /\ Dev!ActiveChipUp
    BY DEF IInv, Core, DeviceOK, Dev!IInv
  <2>2. cur.sub \in holders
    BY DEF IInv, Core, HoldersOK
  <2>3. ~pmsuspended
    BY <2>1, <2>2 DEF Dev!HeldStaysAwake
  <2>4. QED
    BY <2>1, <2>3, DrvAssumption DEF Dev!ActiveChipUp, Dev!Bound
<1>2. QED
  BY <1>1, PcmInvariant, PTL

(* A stream the driver has open can still be closed by an END, unless a    *)
(* clear emptied the table under it, and no flag is left set by an error   *)
(* path (hda_test_pcm, hda_codec_reset, hda_codec_reconfig).               *)
THEOREM OpenStreamsCanBeEnded == Spec => []OpenCanBeEnded
<1>1. IInv => OpenCanBeEnded
  BY DEF IInv, Core, BooksOK, TableOK, OpenCanBeEnded, Named
<1>2. QED
  BY <1>1, PcmInvariant, PTL

(* Every step of the shell is a call of the device, or leaves it alone:    *)
(* nothing in hda_test_pcm or the sysfs files touches the books directly.  *)
LEMMA StepIsCall == IInv /\ [Next]_vars => [Dev!Next]_(Dev!vars)
<1> SUFFICES ASSUME IInv, [Next]_vars PROVE Dev!Next \/ UNCHANGED Dev!vars
  OBVIOUS
<1>0. cur.sub \in Sub \cup {Boot, Shell} /\ Shell \in Sub \cup {Boot, Shell}
  BY DEF IInv, Core, TypeOK
<1>1. UNCHANGED deviceVars => UNCHANGED Dev!vars
  BY DEF deviceVars, Dev!vars, Dev!bindVars, Dev!pmVars
<1>2. CASE UNCHANGED vars
  BY <1>1, <1>2 DEF vars
<1>3. CASE \/ \E p \in Pcm : CreatePcm(p)
           \/ \E op \in {"all", "start", "end"}, s \in Sub : hda_test_pcm(op, s)
           \/ ReadsNoPcm \/ Crashed \/ Open \/ Prepare \/ Cleanup \/ Close
  BY <1>1, <1>3 DEF CreatePcm, hda_test_pcm, ReadsNoPcm, Crashed, vars, Open, Prepare, Cleanup, Close, Goto
<1>4. CASE \/ Configured \/ PowerDown \/ hda_codec_reconfig \/ PowerUp
  <2>1. \/ UNCHANGED deviceVars
        \/ PM!pm_runtime_put_autosuspend(cur.sub)
        \/ PM!pm_runtime_get_sync(Shell) \/ PM!pm_runtime_get_sync(cur.sub)
    BY <1>4 DEF Configured, PowerDown, hda_codec_reconfig, PowerUp
  <2>2. \/ UNCHANGED deviceVars
        \/ Dev!pm_runtime_put_autosuspend(cur.sub)
        \/ Dev!pm_runtime_get_sync(Shell) \/ Dev!pm_runtime_get_sync(cur.sub)
    BY <2>1, SameCalls, Zenon
  <2>3. QED
    BY <1>0, <1>1, <2>2, Zenon DEF Dev!Next, Dev!Power
<1>5. CASE hda_codec_reset \/ ReconfigReset
  <2>1. UNCHANGED deviceVars \/ Dev!device_release_driver
    BY <1>5, SameCalls DEF hda_codec_reset, ReconfigReset, snd_hda_codec_reset
  <2>2. QED
    BY <1>1, <2>1, Zenon DEF Dev!Next, Dev!Binding
<1>6. CASE ReconfigBind
  <2>1. UNCHANGED deviceVars \/ \E willing \in SUBSET {Drv} : Dev!device_reattach(willing)
    BY <1>6, SameCalls, Zenon DEF ReconfigBind
  <2>2. QED
    BY <1>1, <2>1, Zenon DEF Dev!Next, Dev!Binding
<1>7. CASE \/ \E val \in BOOLEAN : OptionPowerSave(val)
           \/ hda_test_suspend \/ hda_test_resume
  <2>1. \/ UNCHANGED deviceVars
        \/ \E val \in BOOLEAN : Dev!hda_set_power_save(val)
        \/ Dev!pm_runtime_force_suspend \/ Dev!pm_runtime_force_resume
    BY <1>7, SameCalls, Zenon DEF OptionPowerSave, hda_test_suspend, hda_test_resume
  <2>2. QED
    BY <1>1, <2>1, Zenon DEF Dev!Next, Dev!Power
<1>8. QED
  BY <1>2, <1>3, <1>4, <1>5, <1>6, <1>7, Zenon DEF Next

(* The session is a behaviour of the device as RuntimePM specifies it,     *)
(* from the booted state on.                                               *)
THEOREM SessionIsDevice == Spec => [][Dev!Next]_(Dev!vars)
BY StepIsCall, PcmInvariant, PTL DEF Spec

(* What RuntimePM promises its clients therefore holds in every session of *)
(* the shell, resets and reconfigurations included.                        *)
THEOREM DevicePromises ==
  Spec => /\ [](Dev!CountIsHolders /\ Dev!HeldStaysAwake /\ Dev!ActiveChipUp /\ Dev!IdleIsSuspended)
          /\ Dev!FlipsOnlyForUse
<1>1. IInv => Dev!CountIsHolders /\ Dev!HeldStaysAwake /\ Dev!ActiveChipUp /\ Dev!IdleIsSuspended
  BY DEF IInv, Core, DeviceOK, Dev!IInv
<1>2. Dev!RefAssumption /\ Dev!DriverAssumption
  BY RefFacts DEF IsFiniteSet, Dev!IsFiniteSet
<1>3. IInv /\ IInv' /\ [Dev!Next]_(Dev!vars) => [Dev!FlipForUse]_(Dev!vars)
  BY <1>2, Dev!FlipStep DEF IInv, Core, DeviceOK
<1>4. QED
  BY <1>1, <1>3, PcmInvariant, SessionIsDevice, PTL DEF Dev!FlipsOnlyForUse
=============================================================================
