----------------------------- MODULE RuntimePM -----------------------------
(***************************************************************************)
(* The emulated codec device: driver binding and runtime power management  *)
(* as snd-wrapper.c and include/linux/pm_runtime.h stub them for the       *)
(* kernel code.  A usage count taken by one of the pm_runtime_get*         *)
(* functions is a token of Ref, given back by one of the pm_runtime_put*   *)
(* functions; the kernel code and the shell commands are the clients.      *)
(***************************************************************************)
EXTENDS Naturals, FiniteSets, Sequences

CONSTANTS
  Ref,        \* the usage counts that may be outstanding at a time
  Driver,     \* the codec drivers the kernel modules register
  NoDriver    \* dev->driver == NULL

ASSUME RefAssumption == IsFiniteSet(Ref)
ASSUME DriverAssumption == NoDriver \notin Driver

VARIABLES
  bus,          \* _bus != NULL
  registered,   \* the list registered_drivers
  added,        \* dev->registered
  driver,       \* dev->driver
  pmcnt,        \* dev->pmcnt
  pmsuspended,  \* dev->pmsuspended
  pmallow,      \* dev->pmallow
  power_save,   \* the module option is not zero
  chip,         \* what the driver's last callback left: "up" or "down"
  sleeping,     \* the driver was force-suspended and not yet force-resumed
  holders,      \* the outstanding usage counts
  awake,        \* those of them that were promised an active device
  unidled       \* the last count to go went through pm_runtime_put_noidle

bindVars == <<bus, registered, added, driver>>
pmVars   == <<pmcnt, pmsuspended, pmallow, chip, unidled>>
vars     == <<bindVars, pmVars, power_save, sleeping, holders, awake>>

Bound == driver # NoDriver

----------------------------------------------------------------------------
(* The device starts unregistered, unbound and forbidden to suspend        *)
(* (struct device is zeroed; device_initialize clears the count).          *)
Init ==
  /\ bus = FALSE /\ registered = <<>> /\ added = FALSE /\ driver = NoDriver
  /\ pmcnt = 0 /\ pmsuspended = FALSE /\ pmallow = FALSE
  /\ power_save = FALSE /\ chip = "up" /\ sleeping = FALSE
  /\ holders = {} /\ awake = {} /\ unidled = FALSE

----------------------------------------------------------------------------
(* Driver binding *)

bus_register ==
  /\ bus' = TRUE
  /\ UNCHANGED <<registered, added, driver, pmVars, power_save, sleeping, holders, awake>>

(* A module registers its driver once. *)
driver_register(drv) ==
  /\ \A i \in DOMAIN registered : registered[i] # drv
  /\ registered' = Append(registered, drv)
  /\ UNCHANGED <<bus, added, driver, pmVars, power_save, sleeping, holders, awake>>

(* The list is tried in order.  A driver in `willing` matches the device   *)
(* and its probe succeeds, powering the chip up; any other does not match  *)
(* or fails its probe, and the next one is tried.                          *)
device_attach(willing) ==
  /\ ~Bound
  /\ IF ~bus THEN UNCHANGED <<driver, chip>>
     ELSE \/ \E i \in DOMAIN registered :
               /\ registered[i] \in willing
               /\ \A j \in DOMAIN registered : j < i => registered[j] \notin willing
               /\ driver' = registered[i]
               /\ chip' = "up"
          \/ /\ \A i \in DOMAIN registered : registered[i] \notin willing
             /\ UNCHANGED <<driver, chip>>
  /\ UNCHANGED <<bus, registered, pmcnt, pmsuspended, pmallow, unidled,
                 power_save, sleeping, holders, awake>>

device_add(willing) ==
  /\ ~added /\ added' = TRUE
  /\ device_attach(willing)

(* The kernel tries an already added device again when it is reconfigured. *)
device_reattach(willing) ==
  /\ added /\ UNCHANGED added
  /\ device_attach(willing)

(* remove() is called whatever the usage count is. *)
device_release_driver ==
  /\ driver' = NoDriver
  /\ sleeping' = FALSE
  /\ UNCHANGED <<bus, registered, added, pmVars, power_save, holders, awake>>

device_del ==
  /\ added /\ added' = FALSE
  /\ driver' = NoDriver
  /\ sleeping' = FALSE
  /\ UNCHANGED <<bus, registered, pmVars, power_save, holders, awake>>

----------------------------------------------------------------------------
(* Runtime power management.  check_resume and check_suspend run on the    *)
(* count and the permission the caller has just stored.                    *)

\* Mutant: the flag is cleared but the driver is not resumed.
check_resume_without_callback(cnt) ==
  /\ pmsuspended' = (pmsuspended /\ cnt = 0)
  /\ UNCHANGED chip

check_resume(cnt) ==
  IF cnt > 0 /\ pmsuspended
  THEN /\ pmsuspended' = FALSE
       /\ chip' = IF Bound THEN "up" ELSE chip
  ELSE UNCHANGED <<pmsuspended, chip>>

\* Mutant: the usage count is not looked at.
check_suspend_in_use(cnt, allow) ==
  IF ~pmsuspended /\ allow
  THEN chip' = (IF Bound THEN "down" ELSE chip) /\ pmsuspended' = TRUE
  ELSE UNCHANGED <<pmsuspended, chip>>

\* Mutant: the permission is not looked at.
check_suspend_forbidden(cnt, allow) ==
  IF cnt = 0 /\ ~pmsuspended
  THEN chip' = (IF Bound THEN "down" ELSE chip) /\ pmsuspended' = TRUE
  ELSE UNCHANGED <<pmsuspended, chip>>

check_suspend(cnt, allow) ==
  IF cnt = 0 /\ ~pmsuspended /\ allow
  THEN /\ chip' = IF Bound THEN "down" ELSE chip
       /\ pmsuspended' = TRUE
  ELSE UNCHANGED <<pmsuspended, chip>>

(* The books of the usage counts: who holds one, and who may count on the  *)
(* device to be active.  pm_runtime_get_sync promises that whatever the    *)
(* device was before; the other gets leave it as it is, so that only those *)
(* who got theirs on an active device may count on it.                     *)
GrantAwake(r) ==
  /\ holders' = holders \cup {r}
  /\ awake' = awake \cup {r}

Grant(r) ==
  /\ holders' = holders \cup {r}
  /\ awake' = IF pmsuspended' THEN awake ELSE awake \cup {r}

Return(r) ==
  /\ holders' = holders \ {r}
  /\ awake' = awake \ {r}

\* Mutant: the device is resumed for the count before this one is added.
pm_runtime_get_sync_checks_first(r) ==
  /\ r \notin holders
  /\ pmcnt' = pmcnt + 1
  /\ check_resume(pmcnt)
  /\ GrantAwake(r)
  /\ UNCHANGED <<bindVars, pmallow, unidled, power_save, sleeping>>

pm_runtime_get_sync(r) ==
  /\ r \notin holders
  /\ pmcnt' = pmcnt + 1
  /\ check_resume(pmcnt + 1)
  /\ GrantAwake(r)
  /\ UNCHANGED <<bindVars, pmallow, unidled, power_save, sleeping>>

\* Mutant: the count is not taken.
pm_runtime_get_uncounted(r) ==
  /\ r \notin holders
  /\ UNCHANGED <<pmcnt, pmsuspended>>
  /\ Grant(r)
  /\ UNCHANGED <<bindVars, chip, pmallow, unidled, power_save, sleeping>>

pm_runtime_get_noresume(r) ==
  /\ r \notin holders
  /\ pmcnt' = pmcnt + 1
  /\ UNCHANGED pmsuspended
  /\ Grant(r)
  /\ UNCHANGED <<bindVars, chip, pmallow, unidled, power_save, sleeping>>

(* Takes nothing when power saving is off (-EINVAL) or nobody uses the     *)
(* device (0).                                                             *)
pm_runtime_get_if_in_use(r) ==
  /\ r \notin holders
  /\ power_save /\ pmcnt > 0
  /\ pmcnt' = pmcnt + 1
  /\ UNCHANGED pmsuspended
  /\ Grant(r)
  /\ UNCHANGED <<bindVars, chip, pmallow, unidled, power_save, sleeping>>

\* Mutant: the last put does not look whether the device can suspend.
pm_runtime_put_no_suspend(r) ==
  /\ r \in holders
  /\ pmcnt' = pmcnt - 1
  /\ Return(r)
  /\ unidled' = FALSE
  /\ UNCHANGED <<bindVars, pmsuspended, chip, pmallow, power_save, sleeping>>

pm_runtime_put_autosuspend(r) ==
  /\ r \in holders
  /\ pmcnt' = pmcnt - 1
  /\ check_suspend(pmcnt - 1, pmallow)
  /\ Return(r)
  /\ unidled' = FALSE
  /\ UNCHANGED <<bindVars, pmallow, power_save, sleeping>>

pm_runtime_put_noidle(r) ==
  /\ r \in holders
  /\ pmcnt' = pmcnt - 1
  /\ Return(r)
  /\ unidled' = TRUE
  /\ UNCHANGED <<bindVars, pmsuspended, chip, pmallow, power_save, sleeping>>

(* Allowing an idle device suspends it, which makes good a missed idle.    *)
pm_runtime_allow ==
  /\ pmallow' = TRUE
  /\ check_suspend(pmcnt, TRUE)
  /\ unidled' = (unidled /\ pmcnt > 0)
  /\ UNCHANGED pmcnt

(* Forbidding does not wake a device nobody uses. *)
pm_runtime_forbid ==
  /\ pmallow' = FALSE
  /\ check_resume(pmcnt)
  /\ UNCHANGED <<pmcnt, unidled>>

(* The kernel's snd_hda_set_power_save, called with the new value, allows  *)
(* or forbids each codec it manages.                                       *)
hda_set_power_save(val) ==
  /\ power_save' = val
  /\ \/ pm_runtime_allow
     \/ pm_runtime_forbid
     \/ UNCHANGED pmVars
  /\ UNCHANGED <<bindVars, sleeping, holders, awake>>

(* System sleep: both call the driver directly, past the usage count and   *)
(* the suspended flag; without a driver they fail with -ENODEV.            *)
pm_runtime_force_suspend ==
  /\ Bound
  /\ chip' = "down"
  /\ sleeping' = TRUE
  /\ UNCHANGED <<bindVars, pmcnt, pmsuspended, pmallow, unidled, power_save, holders, awake>>

pm_runtime_force_resume ==
  /\ Bound
  /\ chip' = "up"
  /\ sleeping' = FALSE
  /\ UNCHANGED <<bindVars, pmcnt, pmsuspended, pmallow, unidled, power_save, holders, awake>>

----------------------------------------------------------------------------
Binding ==
  \/ bus_register
  \/ \E drv \in Driver : driver_register(drv)
  \/ \E willing \in SUBSET Driver : device_add(willing) \/ device_reattach(willing)
  \/ device_release_driver
  \/ device_del

Power ==
  \/ \E r \in Ref :
       \/ pm_runtime_get_sync(r)
       \/ pm_runtime_get_noresume(r)
       \/ pm_runtime_get_if_in_use(r)
       \/ pm_runtime_put_autosuspend(r)
       \/ pm_runtime_put_noidle(r)
  \/ \E val \in BOOLEAN : hda_set_power_save(val)
  \/ pm_runtime_force_suspend
  \/ pm_runtime_force_resume

Next == Binding \/ Power

Spec == Init /\ [][Next]_vars

----------------------------------------------------------------------------
TypeOK ==
  /\ bus \in BOOLEAN /\ added \in BOOLEAN
  /\ registered \in Seq(Driver)
  /\ driver \in Driver \cup {NoDriver}
  /\ pmcnt \in Nat
  /\ pmsuspended \in BOOLEAN /\ pmallow \in BOOLEAN /\ power_save \in BOOLEAN
  /\ chip \in {"up", "down"} /\ sleeping \in BOOLEAN /\ unidled \in BOOLEAN
  /\ holders \subseteq Ref
  /\ awake \subseteq holders

(* dev->pmcnt counts exactly the references handed out and not returned,   *)
(* through whichever pair of get and put functions they went.              *)
CountIsHolders == pmcnt = Cardinality(holders)

(* A reference of pm_runtime_get_sync finds the device active, suspended,  *)
(* forbidden or held by others as it may have been, and it stays active    *)
(* until the reference is returned, whatever the other clients, the        *)
(* power_save option and the driver bindings do meanwhile.  So does a      *)
(* device that was active when one of the other gets granted a reference.  *)
HeldStaysAwake == awake # {} => ~pmsuspended

(* Outside system sleep the chip really is up for those holders: a driver  *)
(* bound to a device that counts as active never finds its chip down,      *)
(* however binding, runtime and system power management interleave.        *)
ActiveChipUp == (Bound /\ ~sleeping /\ ~pmsuspended) => chip = "up"

(* Autosuspend misses nothing: an idle device that may suspend has been    *)
(* suspended, unless its last user left through pm_runtime_put_noidle.     *)
IdleIsSuspended == (pmcnt = 0 /\ pmallow /\ ~unidled) => pmsuspended

(* A runtime suspend happens only on an idle device that may suspend, and  *)
(* a runtime resume only for a user: a driver rebinding, a forced sleep or *)
(* an option change never flips the suspended state of a device by itself. *)
FlipForUse ==
  /\ (~pmsuspended /\ pmsuspended') => (holders' = {} /\ pmallow')
  /\ (pmsuspended /\ ~pmsuspended') => holders' # {}

FlipsOnlyForUse == [][FlipForUse]_vars
=============================================================================
