------------------------- MODULE RuntimePMProofs --------------------------
(***************************************************************************)
(* For any finite set of references and any set of drivers, the usage      *)
(* count is the number of outstanding references, a device that was got    *)
(* with pm_runtime_get_sync is active while it is held, an active device's *)
(* chip is up, an idle one is suspended, and the flag flips only for use.  *)
(***************************************************************************)
EXTENDS RuntimePM, FiniteSetTheorems, TLAPS

(* The conjunction is inductive: the holders a step leaves decide the      *)
(* count, the count decides the suspended flag, and the flag the chip.     *)
IInv ==
  /\ TypeOK
  /\ CountIsHolders
  /\ HeldStaysAwake
  /\ ActiveChipUp
  /\ IdleIsSuspended

USE DEF Bound

(* Handing out one more reference adds one to the count, and returning one *)
(* takes one away: pm_runtime_get* and pm_runtime_put* keep pmcnt in step  *)
(* with the references outstanding.                                        *)
LEMMA HolderCount ==
  ASSUME IInv, NEW r \in Ref
  PROVE  /\ r \notin holders => /\ pmcnt + 1 = Cardinality(holders \cup {r})
                                /\ pmcnt + 1 \in Nat /\ pmcnt + 1 > 0
         /\ r \in holders => /\ pmcnt - 1 = Cardinality(holders \ {r})
                             /\ pmcnt - 1 \in Nat
<1>1. holders \subseteq Ref /\ pmcnt = Cardinality(holders) /\ pmcnt \in Nat
  BY DEF IInv, TypeOK, CountIsHolders
<1>2. IsFiniteSet(holders)
  BY <1>1, RefAssumption, FS_Subset
<1>3. ASSUME r \notin holders
      PROVE  pmcnt + 1 = Cardinality(holders \cup {r}) /\ pmcnt + 1 \in Nat /\ pmcnt + 1 > 0
  BY <1>1, <1>2, <1>3, FS_AddElement
<1>4. ASSUME r \in holders
      PROVE  pmcnt - 1 = Cardinality(holders \ {r}) /\ pmcnt - 1 \in Nat
  <2>1. Cardinality(holders \ {r}) = Cardinality(holders) - 1
    BY <1>2, <1>4, FS_RemoveElement
  <2>2. Cardinality(holders) # 0
    BY <1>2, <1>4, FS_EmptySet
  <2>3. QED
    BY <2>1, <2>2, <1>1
<1>5. QED
  BY <1>3, <1>4

(* A device is created idle, active and forbidden to suspend.              *)
LEMMA InitIInv == Init => IInv
<1>1. Cardinality({}) = 0
  BY FS_EmptySet
<1>2. Init => TypeOK
  <2>1. Init => registered \in Seq(Driver)
    BY DEF Init
  <2>2. Init => pmcnt \in Nat /\ chip \in {"up", "down"}
    BY DEF Init
  <2>3. Init => /\ holders \subseteq Ref /\ awake \subseteq holders
                /\ driver \in Driver \cup {NoDriver}
    BY DEF Init
  <2>4. Init => /\ bus \in BOOLEAN /\ added \in BOOLEAN
                /\ pmsuspended \in BOOLEAN /\ pmallow \in BOOLEAN /\ power_save \in BOOLEAN
                /\ sleeping \in BOOLEAN /\ unidled \in BOOLEAN
    BY DEF Init
  <2>5. QED
    BY <2>1, <2>2, <2>3, <2>4 DEF TypeOK
<1>3. Init => CountIsHolders
  BY <1>1 DEF Init, CountIsHolders
<1>4. Init => HeldStaysAwake /\ ActiveChipUp /\ IdleIsSuspended
  BY DEF Init, HeldStaysAwake, ActiveChipUp, IdleIsSuspended
<1>5. QED
  BY <1>2, <1>3, <1>4 DEF IInv

(* Binding and releasing drivers leave the books of the references and the *)
(* suspended flag alone, and a probe powers the chip up.                   *)
LEMMA BindingIInv == IInv /\ Binding => IInv'
<1> SUFFICES ASSUME IInv, Binding PROVE IInv'
  OBVIOUS
<1> USE DEF IInv, TypeOK, CountIsHolders, HeldStaysAwake, ActiveChipUp, IdleIsSuspended,
            pmVars
<1>1. CASE bus_register
  BY <1>1 DEF bus_register
<1>2. ASSUME NEW drv \in Driver, driver_register(drv) PROVE IInv'
  BY <1>2 DEF driver_register
<1>3. ASSUME NEW willing \in SUBSET Driver, device_attach(willing), added' \in BOOLEAN
      PROVE  IInv'
  <2>1. driver' \in Driver \cup {NoDriver}
    BY <1>3 DEF device_attach
  <2>2. chip' \in {"up", "down"}
    BY <1>3 DEF device_attach
  <2>3. driver' # NoDriver => chip' = "up"
    BY <1>3 DEF device_attach
  <2>4. QED
    BY <1>3, <2>1, <2>2, <2>3 DEF device_attach
<1>4. ASSUME NEW willing \in SUBSET Driver, device_add(willing) PROVE IInv'
  BY <1>4, <1>3 DEF device_add
<1>5. ASSUME NEW willing \in SUBSET Driver, device_reattach(willing) PROVE IInv'
  BY <1>5, <1>3 DEF device_reattach
<1>6. CASE device_release_driver
  BY <1>6 DEF device_release_driver
<1>7. CASE device_del
  BY <1>7 DEF device_del
<1>8. QED
  BY <1>1, <1>2, <1>4, <1>5, <1>6, <1>7 DEF Binding

(* Every power-management call preserves the invariant: a get can only     *)
(* resume the device and a put suspends it only when the last reference    *)
(* has gone.                                                               *)
LEMMA PowerIInv == IInv /\ Power => IInv'
<1> SUFFICES ASSUME IInv, Power PROVE IInv'
  OBVIOUS
<1>0. ASSUME NEW r \in Ref
      PROVE  /\ r \notin holders => /\ pmcnt + 1 = Cardinality(holders \cup {r})
                                    /\ pmcnt + 1 \in Nat /\ pmcnt + 1 > 0
             /\ r \in holders => /\ pmcnt - 1 = Cardinality(holders \ {r})
                                 /\ pmcnt - 1 \in Nat
  BY HolderCount
<1>e. holders = {} <=> Cardinality(holders) = 0
  BY RefAssumption, FS_Subset, FS_EmptySet DEF IInv, TypeOK
<1> USE DEF IInv, TypeOK, CountIsHolders, HeldStaysAwake, ActiveChipUp, IdleIsSuspended,
            bindVars, Grant, GrantAwake, Return
<1>1. ASSUME NEW r \in Ref, pm_runtime_get_sync(r) PROVE IInv'
  <2>1. pmcnt' = Cardinality(holders') /\ pmcnt' \in Nat /\ pmcnt' > 0
    BY <1>0, <1>1 DEF pm_runtime_get_sync
  <2>2. pmsuspended' = FALSE /\ chip' \in {"up", "down"}
    BY <1>0, <1>1 DEF pm_runtime_get_sync, check_resume
  <2>3. ActiveChipUp'
    BY <1>0, <1>1 DEF pm_runtime_get_sync, check_resume
  <2>4. /\ UNCHANGED <<bus, registered, added, driver, pmallow, unidled, power_save, sleeping>>
        /\ holders' \subseteq Ref /\ awake' \subseteq holders'
    BY <1>1 DEF pm_runtime_get_sync
  <2>5. TypeOK'
    BY <2>1, <2>2, <2>4
  <2>6. CountIsHolders'
    BY <2>1
  <2>7. HeldStaysAwake' /\ IdleIsSuspended'
    BY <2>1, <2>2
  <2>8. QED
    BY <2>3, <2>5, <2>6, <2>7
<1>2. ASSUME NEW r \in Ref, pm_runtime_get_noresume(r) PROVE IInv'
  BY <1>0, <1>2 DEF pm_runtime_get_noresume
<1>3. ASSUME NEW r \in Ref, pm_runtime_get_if_in_use(r) PROVE IInv'
  BY <1>0, <1>3 DEF pm_runtime_get_if_in_use
<1>4. ASSUME NEW r \in Ref, pm_runtime_put_autosuspend(r) PROVE IInv'
  <2>1. pmcnt' = Cardinality(holders') /\ pmcnt' \in Nat
    BY <1>0, <1>4 DEF pm_runtime_put_autosuspend
  <2>2. awake' \subseteq holders' /\ holders' \subseteq Ref
    BY <1>4 DEF pm_runtime_put_autosuspend
  <2>3. pmcnt' = 0 => awake' = {}
    <3>1. IsFiniteSet(holders')
      BY <2>2, RefAssumption, FS_Subset
    <3>2. QED
      BY <2>1, <2>2, <3>1, FS_EmptySet
  <2>4. /\ pmsuspended' \in BOOLEAN
        /\ chip' \in {"up", "down"}
        /\ HeldStaysAwake'
        /\ ActiveChipUp'
        /\ IdleIsSuspended'
    BY <1>4, <2>1, <2>2, <2>3 DEF pm_runtime_put_autosuspend, check_suspend
  <2>5. QED
    BY <1>4, <2>1, <2>2, <2>4 DEF pm_runtime_put_autosuspend
<1>5. ASSUME NEW r \in Ref, pm_runtime_put_noidle(r) PROVE IInv'
  <2>1. pmcnt' = Cardinality(holders') /\ pmcnt' \in Nat
    <3>1. r \in holders /\ pmcnt' = pmcnt - 1 /\ holders' = holders \ {r}
      BY <1>5 DEF pm_runtime_put_noidle
    <3>2. QED
      BY <1>0, <3>1
  <2>2. /\ awake' \subseteq holders' /\ holders' \subseteq Ref
        /\ awake' # {} => awake # {}
    <3>1. holders' = holders \ {r} /\ awake' = awake \ {r}
      BY <1>5 DEF pm_runtime_put_noidle
    <3>2. QED
      BY <3>1
  <2>3. /\ unidled' = TRUE
        /\ UNCHANGED <<bus, registered, added, driver, pmsuspended, chip, pmallow,
                       power_save, sleeping>>
    BY <1>5 DEF pm_runtime_put_noidle
  <2>4. TypeOK'
    BY <2>1, <2>2, <2>3
  <2>5. CountIsHolders'
    BY <2>1
  <2>6. HeldStaysAwake'
    BY <2>2, <2>3
  <2>7. ActiveChipUp' /\ IdleIsSuspended'
    BY <2>3
  <2>8. QED
    BY <2>4, <2>5, <2>6, <2>7
<1>6. ASSUME NEW val \in BOOLEAN, hda_set_power_save(val) PROVE IInv'
  <2>1. CASE pm_runtime_allow
    BY <1>6, <1>e, <2>1 DEF hda_set_power_save, pm_runtime_allow, check_suspend
  <2>2. CASE pm_runtime_forbid
    BY <1>6, <2>2 DEF hda_set_power_save, pm_runtime_forbid, check_resume
  <2>3. CASE UNCHANGED pmVars
    BY <1>6, <2>3 DEF hda_set_power_save, pmVars
  <2>4. QED
    BY <1>6, <2>1, <2>2, <2>3 DEF hda_set_power_save
<1>7. CASE pm_runtime_force_suspend
  BY <1>7 DEF pm_runtime_force_suspend
<1>8. CASE pm_runtime_force_resume
  BY <1>8 DEF pm_runtime_force_resume
<1>9. QED
  BY <1>1, <1>2, <1>3, <1>4, <1>5, <1>6, <1>7, <1>8 DEF Power

(* Each of the parts the proof of which is wanted follows from the         *)
(* inductive invariant.                                                    *)
THEOREM PMInvariant == Spec => []IInv
<1>1. IInv /\ UNCHANGED vars => IInv'
  BY DEF IInv, TypeOK, CountIsHolders, HeldStaysAwake, ActiveChipUp, IdleIsSuspended,
         vars, bindVars, pmVars
<1>2. IInv /\ [Next]_vars => IInv'
  BY <1>1, BindingIInv, PowerIInv DEF Next
<1>3. QED
  BY InitIInv, <1>2, PTL DEF Spec

(* The state variables keep their types (int, bool and pointer fields of   *)
(* struct device), for any number of references and drivers.               *)
THEOREM TypeCorrect == Spec => []TypeOK
<1>1. IInv => TypeOK
  BY DEF IInv
<1>2. QED
  BY <1>1, PMInvariant, PTL

(* The usage count never drifts from the references outstanding.           *)
THEOREM UsageCountExact == Spec => []CountIsHolders
<1>1. IInv => CountIsHolders
  BY DEF IInv
<1>2. QED
  BY <1>1, PMInvariant, PTL

(* pm_runtime_get_sync leaves the device active, and neither it nor one    *)
(* that was active at any other get is suspended under the holder          *)
(* (check_resume sees the new count, check_suspend waits for the last).    *)
THEOREM NoSuspendUnderHolder == Spec => []HeldStaysAwake
<1>1. IInv => HeldStaysAwake
  BY DEF IInv
<1>2. QED
  BY <1>1, PMInvariant, PTL

(* An active device's chip is up outside system sleep (the driver          *)
(* callbacks keep step with the pmsuspended flag).                         *)
THEOREM ActiveMeansUp == Spec => []ActiveChipUp
<1>1. IInv => ActiveChipUp
  BY DEF IInv
<1>2. QED
  BY <1>1, PMInvariant, PTL

(* An idle device that may suspend has been suspended, unless its last     *)
(* user left through pm_runtime_put_noidle.                                *)
THEOREM AutosuspendComplete == Spec => []IdleIsSuspended
<1>1. IInv => IdleIsSuspended
  BY DEF IInv
<1>2. QED
  BY <1>1, PMInvariant, PTL

(* The count and the holders before and after a step show for whom the     *)
(* flag was flipped: check_suspend and check_resume are its only writers.  *)
LEMMA FlipStep == IInv /\ IInv' /\ Next => FlipForUse
<1> SUFFICES ASSUME IInv, IInv', Next PROVE FlipForUse
  OBVIOUS
<1>1. holders' = {} <=> pmcnt' = 0
  <2>1. holders' \subseteq Ref /\ pmcnt' = Cardinality(holders')
    BY DEF IInv, TypeOK, CountIsHolders
  <2>2. IsFiniteSet(holders')
    BY <2>1, RefAssumption, FS_Subset
  <2>3. QED
    BY <2>1, <2>2, FS_EmptySet
<1>2. pmcnt' \in Nat
  BY DEF IInv, TypeOK
<1>3. CASE UNCHANGED pmsuspended
  BY <1>3 DEF FlipForUse
<1>4. CASE \E cnt : check_resume(cnt) /\ pmcnt' = cnt
  BY <1>1, <1>2, <1>4 DEF check_resume, FlipForUse
<1>5. CASE \E cnt, allow : check_suspend(cnt, allow) /\ pmcnt' = cnt /\ pmallow' = allow
  BY <1>1, <1>2, <1>5 DEF check_suspend, FlipForUse
<1>6. CASE Binding
  <2>1. UNCHANGED pmsuspended
    BY <1>6 DEF Binding, bus_register, driver_register, device_add, device_reattach,
                device_attach, device_release_driver, device_del, pmVars
  <2>2. QED
    BY <2>1, <1>3
<1>7. CASE Power
  <2>1. ASSUME NEW r \in Ref, pm_runtime_get_sync(r) PROVE FlipForUse
    BY <2>1, <1>4 DEF pm_runtime_get_sync
  <2>2. ASSUME NEW r \in Ref, pm_runtime_put_autosuspend(r) PROVE FlipForUse
    BY <2>2, <1>5 DEF pm_runtime_put_autosuspend
  <2>3. ASSUME NEW r \in Ref,
               \/ pm_runtime_get_noresume(r)
               \/ pm_runtime_get_if_in_use(r)
               \/ pm_runtime_put_noidle(r)
        PROVE  FlipForUse
    BY <2>3, <1>3 DEF pm_runtime_get_noresume, pm_runtime_get_if_in_use,
                      pm_runtime_put_noidle
  <2>4. ASSUME NEW val \in BOOLEAN, hda_set_power_save(val) PROVE FlipForUse
    <3>1. CASE pm_runtime_allow
      BY <3>1, <1>5 DEF pm_runtime_allow
    <3>2. CASE pm_runtime_forbid
      BY <3>2, <1>4 DEF pm_runtime_forbid
    <3>3. CASE UNCHANGED pmVars
      BY <3>3, <1>3 DEF pmVars
    <3>4. QED
      BY <2>4, <3>1, <3>2, <3>3 DEF hda_set_power_save
  <2>5. CASE pm_runtime_force_suspend \/ pm_runtime_force_resume
    BY <2>5, <1>3 DEF pm_runtime_force_suspend, pm_runtime_force_resume
  <2>6. QED
    BY <1>7, <2>1, <2>2, <2>3, <2>4, <2>5 DEF Power
<1>8. QED
  BY <1>6, <1>7 DEF Next

(* The suspended flag is flipped only by the last put (or by allowing an   *)
(* idle device) and by a user's get: check_suspend and check_resume are    *)
(* the only writers, and the invariant turns their counts into holders.    *)
THEOREM FlipsForUseOnly == Spec => FlipsOnlyForUse
<1>1. IInv /\ IInv' /\ [Next]_vars => [FlipForUse]_vars
  BY FlipStep
<1>2. QED
  BY <1>1, PMInvariant, PTL DEF Spec, FlipsOnlyForUse
=============================================================================
