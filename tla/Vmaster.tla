------------------------------ MODULE Vmaster ------------------------------
(***************************************************************************)
(* The virtual master control of snd-vmaster.c: one mono volume or switch  *)
(* that attenuates a list of follower controls whose callbacks it takes    *)
(* over.  The hda driver builds it; the shell's get and set, a driver's    *)
(* resume and the module's own sync functions use it.                      *)
(***************************************************************************)
EXTENDS Integers, Sequences, FiniteSets

CONSTANTS
  Follower,     \* the controls that may be added to the master
  Count,        \* Count[f]: the channels of f, 1 or 2
  MaxVal,       \* the top of a volume's range, whose bottom is 0
  Uncached,     \* followers added with SND_CTL_FOLLOWER_NEED_UPDATE
  Faulty,       \* controls whose own put callback returns an error
  MasterValue,  \* the values written to the master
  NotCalled     \* the hook has not been called

(* Nothing bounds what is written to the master: master_put stores what it *)
(* is given.                                                               *)
ASSUME FollowerAssumption == IsFiniteSet(Follower)
ASSUME RangeAssumption == MaxVal \in Nat /\ MasterValue \subseteq Int

VARIABLES
  type,      \* "BOOLEAN" or "INTEGER", the same for all the controls
  hw,        \* hw[f]: what the original get callback of f reads
  list,      \* master->followers
  freed,     \* controls removed from the card
  finit,     \* followers whose info is filled in
  vals,      \* vals[f]: follower->vals
  mfreed,    \* the master has been removed
  minit,     \* master->info.count # 0
  mmax,      \* master->info.max_val
  mval,      \* master->val
  hooked,    \* a hook is installed
  hookval,   \* the value the hook was last called with
  missed,    \* history: the last change of the value went past the hook
  late       \* followers added below an already attenuating master that no
             \* write has reached yet

hookVars   == <<hooked, hookval, missed>>
masterVars == <<mfreed, minit, mmax, mval>>
vars == <<type, hw, list, freed, finit, vals, masterVars, hookVars, late>>

Chan(f)  == 0 .. Count[f] - 1
Top      == IF type = "BOOLEAN" THEN 1 ELSE MaxVal
Value(f) == [Chan(f) -> 0 .. Top]
Linked   == {list[i] : i \in DOMAIN list}

list_del(f) ==
  LET i == CHOOSE i \in DOMAIN list : list[i] = f
  IN  [j \in 1 .. Len(list) - 1 |-> IF j < i THEN list[j] ELSE list[j + 1]]

Init ==
  /\ type \in {"BOOLEAN", "INTEGER"}
  /\ hw = [f \in Follower |-> [c \in Chan(f) |-> 0]]
  /\ list = <<>> /\ freed = {} /\ finit = {} /\ late = {}
  /\ vals = [f \in Follower |-> [c \in Chan(f) |-> 0]]
  /\ mfreed = FALSE /\ minit = FALSE /\ mmax = 0 /\ mval = 0
  /\ hooked = FALSE /\ hookval = NotCalled /\ missed = FALSE

----------------------------------------------------------------------------
(* The helpers *)

\* Mutant: the value is read back from the hardware on every use.
follower_init_rereads(f) == hw[f]

(* follower->vals once follower_init has run: read on the first use, and   *)
(* on every use of an uncached follower.                                   *)
follower_init(f) == IF f \in finit /\ f \notin Uncached THEN vals[f] ELSE hw[f]

(* The first follower gives the master its range and its default, the top, *)
(* and the hook is told.  Nothing happens on an initialised master.        *)
master_init ==
  IF minit THEN UNCHANGED <<minit, mmax, hookval>>
  ELSE /\ list # <<>>
       /\ minit' = TRUE
       /\ mmax' = Top
       /\ hookval' = IF hooked THEN Top ELSE hookval

(* The master's value, top and the followers read once master_init is done *)
InitVal    == IF minit THEN mval ELSE Top
InitMax    == IF minit THEN mmax ELSE Top
InitRead   == IF minit THEN finit ELSE finit \cup {list[1]}

\* Mutant: the value is not kept above the follower's minimum.
Clamp_above(v) == IF v > Top THEN Top ELSE v

Clamp(v) == IF v < 0 THEN 0 ELSE IF v > Top THEN Top ELSE v

(* The value follower_put_val hands down for v below a master at m. *)
follower_put_val(f, v, m, top) ==
  [c \in Chan(f) |-> IF type = "BOOLEAN" THEN IF m = 0 THEN 0 ELSE v[c]
                     ELSE Clamp(v[c] + m - top)]

\* Mutant: the loop stops at the first follower that fails.
sync_followers_stops(new, top) ==
  LET reached == {list[i] : i \in {k \in DOMAIN list : \A j \in 1 .. k : list[j] \notin Faulty}}
  IN /\ vals' = [f \in Follower |-> IF f \in reached THEN follower_init(f) ELSE vals[f]]
     /\ hw' = [f \in Follower |-> IF f \in reached
                                  THEN follower_put_val(f, follower_init(f), new, top)
                                  ELSE hw[f]]
     /\ finit' = finit \cup reached
     /\ late' = late \cap Faulty
     /\ mval' = IF list = <<>> THEN InitVal ELSE new

(* Every follower is read below the old master value and written below the *)
(* new one; errors are ignored.  The master takes the new value inside the *)
(* loop: without followers it keeps the old one.                           *)
sync_followers(new, top) ==
  /\ vals' = [f \in Follower |-> IF f \in Linked THEN follower_init(f) ELSE vals[f]]
  /\ hw' = [f \in Follower |-> IF f \in Linked \ Faulty
                               THEN follower_put_val(f, follower_init(f), new, top)
                               ELSE hw[f]]
  /\ finit' = finit \cup Linked
  /\ late' = late \cap Faulty
  /\ mval' = IF list = <<>> THEN InitVal ELSE new

----------------------------------------------------------------------------
(* The follower controls *)

(* Adding takes the control's callbacks over; the driver does it once. *)
snd_ctl_add_follower(f) ==
  /\ ~mfreed /\ f \notin Linked \cup freed
  /\ list' = Append(list, f)
  /\ late' = IF minit /\ mval # mmax THEN late \cup {f} ELSE late
  /\ UNCHANGED <<type, hw, freed, finit, vals, masterVars, hookVars>>

(* A control that is no follower is written directly; one that reads the   *)
(* hardware also changes by itself.                                        *)
PlainPut(f) ==
  /\ f \notin freed
  /\ f \notin Linked \/ f \in Uncached
  /\ \E v \in Value(f) : hw' = [hw EXCEPT ![f] = v]
  /\ UNCHANGED <<type, list, freed, finit, vals, masterVars, hookVars, late>>

follower_get(f) ==
  /\ f \in Linked
  /\ vals' = [vals EXCEPT ![f] = follower_init(f)]
  /\ finit' = finit \cup {f}
  /\ UNCHANGED <<type, hw, list, freed, masterVars, hookVars, late>>

(* A write of the value the follower has already goes no further.  Another *)
(* is kept, even if the control then refuses it; a master initialised on   *)
(* the way reads its first follower after that.                            *)
follower_put(f, v) ==
  /\ f \in Linked
  /\ IF v = follower_init(f)
     THEN /\ vals' = [vals EXCEPT ![f] = v]
          /\ finit' = finit \cup {f}
          /\ UNCHANGED <<hw, late, masterVars, hookval>>
     ELSE /\ master_init
          /\ finit' = InitRead \cup {f}
          /\ mval' = InitVal
          /\ vals' = [g \in Follower |->
                        IF ~minit /\ g = list[1] /\ (g # f \/ g \in Uncached)
                        THEN follower_init(g)
                        ELSE IF g = f THEN v ELSE vals[g]]
          /\ IF f \in Faulty THEN UNCHANGED <<hw, late>>
             ELSE /\ hw' = [hw EXCEPT ![f] = follower_put_val(f, v, InitVal, InitMax)]
                  /\ late' = late \ {f}
          /\ UNCHANGED mfreed
  /\ UNCHANGED <<type, list, freed, hooked, missed>>

(* Removing the control takes it off the master's list. *)
follower_free(f) ==
  /\ f \in Linked
  /\ list' = list_del(f)
  /\ freed' = freed \cup {f}
  /\ late' = late \ {f}
  /\ UNCHANGED <<type, hw, finit, vals, masterVars, hookVars>>

----------------------------------------------------------------------------
(* The master control *)

(* Reading the master or its info, and snd_ctl_apply_vmaster_followers,    *)
(* initialise it.                                                          *)
master_get ==
  /\ ~mfreed
  /\ master_init
  /\ mval' = InitVal
  /\ finit' = InitRead
  /\ vals' = IF minit THEN vals ELSE [vals EXCEPT ![list[1]] = follower_init(list[1])]
  /\ UNCHANGED <<type, hw, list, freed, mfreed, hooked, missed, late>>

\* Mutant: the hook is called with the value before the followers' sync.
master_put_old_value(new) ==
  /\ ~mfreed
  /\ minit \/ list # <<>>
  /\ IF new = InitVal
     THEN master_get
     ELSE /\ sync_followers(new, InitMax)
          /\ minit' = TRUE
          /\ mmax' = InitMax
          /\ hookval' = IF ~hooked THEN hookval ELSE InitVal
          /\ missed' = (hooked /\ ~minit)
          /\ UNCHANGED <<type, list, freed, mfreed, hooked>>

(* The hook is told of a new value unless this very call initialised the   *)
(* master: then it was told of the default, and the value goes past it.    *)
master_put(new) ==
  /\ ~mfreed
  /\ minit \/ list # <<>>
  /\ IF new = InitVal
     THEN master_get
     ELSE /\ sync_followers(new, InitMax)
          /\ minit' = TRUE
          /\ mmax' = InitMax
          /\ hookval' = IF ~hooked THEN hookval
                        ELSE IF minit THEN mval' ELSE InitVal
          /\ missed' = (hooked /\ ~minit)
          /\ UNCHANGED <<type, list, freed, mfreed, hooked>>

snd_ctl_add_vmaster_hook ==
  /\ ~mfreed
  /\ hooked' = TRUE
  /\ UNCHANGED <<type, hw, list, freed, finit, vals, masterVars, hookval, missed, late>>

snd_ctl_sync_vmaster ==
  /\ ~mfreed
  /\ minit \/ list # <<>>
  /\ sync_followers(InitVal, InitMax)
  /\ minit' = TRUE
  /\ mmax' = InitMax
  /\ hookval' = IF hooked THEN InitVal ELSE hookval
  /\ missed' = FALSE
  /\ UNCHANGED <<type, list, freed, mfreed, hooked>>

(* hook_only looks neither at the followers nor whether the master has a   *)
(* value yet.                                                              *)
snd_ctl_sync_vmaster_hook ==
  /\ ~mfreed /\ hooked
  /\ hookval' = mval /\ missed' = FALSE
  /\ UNCHANGED <<type, hw, list, freed, finit, vals, masterVars, hooked, late>>

(* Removing the master gives the followers their callbacks back. *)
master_free ==
  /\ ~mfreed /\ mfreed' = TRUE
  /\ list' = <<>> /\ late' = {}
  /\ UNCHANGED <<type, hw, freed, finit, vals, minit, mmax, mval, hookVars>>

----------------------------------------------------------------------------
Next ==
  \/ \E f \in Follower :
       \/ snd_ctl_add_follower(f)
       \/ PlainPut(f)
       \/ follower_get(f)
       \/ \E v \in Value(f) : follower_put(f, v)
       \/ follower_free(f)
  \/ master_get
  \/ \E new \in MasterValue : master_put(new)
  \/ snd_ctl_add_vmaster_hook \/ snd_ctl_sync_vmaster \/ snd_ctl_sync_vmaster_hook
  \/ master_free

Spec == Init /\ [][Next]_vars
----------------------------------------------------------------------------
TypeOK ==
  /\ type \in {"BOOLEAN", "INTEGER"}
  /\ \A f \in Follower : hw[f] \in Value(f) /\ vals[f] \in Value(f)
  /\ DOMAIN list \subseteq 1 .. Cardinality(Follower) /\ Linked \subseteq Follower \ freed
  /\ finit \subseteq Follower /\ late \subseteq Linked
  /\ mfreed \in BOOLEAN /\ minit \in BOOLEAN /\ hooked \in BOOLEAN /\ missed \in BOOLEAN
  /\ mmax \in 0 .. Top /\ mval \in Int
  /\ hookval = NotCalled \/ hookval \in Int

(* What the hardware plays is always the user's value of the follower less *)
(* the master's attenuation (a gain, if the master is above its range, but *)
(* never beyond the follower's own), whatever order the controls are       *)
(* added, initialised, written, synchronised and removed in and whichever  *)
(* other follower fails.  Only one added below an attenuating master stays *)
(* at its own value, until a write reaches it.                             *)
Attenuated ==
  \A f \in (Linked \cap finit) \ (Uncached \cup Faulty) :
    hw[f] = IF minit /\ f \notin late THEN follower_put_val(f, vals[f], mval, mmax)
            ELSE vals[f]

(* Moving the master never loses what the user set on a follower: the      *)
(* value of a cached follower changes only by a write of that follower,    *)
(* to what was written, also when the follower refused it.                 *)
(* An uncached follower is attenuated from where the last attenuation left *)
(* it: moving the master within its range, up as well as down, never       *)
(* raises it again.                                                        *)
UserValueKept ==
  /\ [][\A f \in (Linked \cap finit) \ Uncached :
          vals'[f] # vals[f] => follower_put(f, vals'[f])]_vars
  /\ [][minit /\ mval' # mval /\ mval' <= mmax =>
          \A f \in Linked \cap Uncached, c \in 0 .. 1 :
            c \in Chan(f) => hw'[f][c] <= hw[f][c]]_vars

(* The hook (a mute LED, say) believes what the master's value is, in      *)
(* whatever order the hook is installed, the master first used, written,   *)
(* synchronised and left without followers.  The one value it misses is    *)
(* that of a write which is also the master's first use: it then believes  *)
(* in the default, the top, until the next change or sync.  "called at     *)
(* each time when the value is changed" does not hold of that write.       *)
HookKnows == hookval # NotCalled => hookval = IF missed THEN mmax ELSE mval
=============================================================================
