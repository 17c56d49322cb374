------------------------------- MODULE Regmap -------------------------------
(***************************************************************************)
(* The register map that lib/hdac_regmap.c puts in place of the kernel's:  *)
(* a list of cached values between a driver and the registers of a codec.  *)
(* The kernel's hdac_regmap.c, which is not in the repository, says which  *)
(* registers are writeable, readable and volatile, and reads and writes    *)
(* them, which may fail.                                                   *)
(***************************************************************************)
EXTENDS Naturals, Sequences

CONSTANTS
  Reg,        \* registers
  Bit,        \* the bits of a register; a value is a set of them
  Writeable, Readable, Volatile, \* what config answers of the registers
  Region      \* the regions to synchronise

ASSUME RegAssumption ==
  Reg # {} /\ Writeable \subseteq Reg /\ Readable \subseteq Reg /\ Volatile \subseteq Reg

VARIABLES
  hw,           \* the registers of the codec
  val,          \* map->val, the cached values in the order of the list
  cache_dirty, cache_only, cache_bypass,
  failed,       \* the last call returned an error
  told,         \* the value each register was given last, but for those
                \* whose write went nowhere or was undone by a sync
  past          \* those of them that were written past their cached value

Given == <<told, past>>

vars == <<hw, val, cache_dirty, cache_only, cache_bypass, failed, Given>>

Value == SUBSET Bit

Init ==
  /\ hw \in [Reg -> Value]
  /\ val = <<>>
  /\ cache_dirty = FALSE /\ cache_only = FALSE /\ cache_bypass = FALSE
  /\ failed = FALSE
  /\ told = hw /\ past = {}
----------------------------------------------------------------------------
(* The cache *)

cache_find_reg(r) == {i \in DOMAIN val : val[i].reg = r}

Cached(r) == cache_find_reg(r) # {}

cache_read_reg(r) == val[CHOOSE i \in cache_find_reg(r) : TRUE].val

\* Mutant: a value is added to the list without a look for an old one.
cache_write_reg_appends(r, v) == val' = Append(val, [reg |-> r, val |-> v])

cache_write_reg(r, v) ==
  val' = IF Cached(r) THEN [i \in DOMAIN val |-> IF val[i].reg = r THEN [val[i] EXCEPT !.val = v] ELSE val[i]]
         ELSE Append(val, [reg |-> r, val |-> v])

Stores(r) == ~cache_bypass /\ r \notin Volatile

StoreOrKeep(r, v) == IF Stores(r) THEN cache_write_reg(r, v) ELSE UNCHANGED val

Modes == <<cache_dirty, cache_only, cache_bypass>>

(* A call that returns err and leaves everything as it was. *)
Returns(err) ==
  /\ failed' = (err # "OK")
  /\ UNCHANGED <<hw, val, Modes, Given>>

(* A register is given a value that readers see, or one that goes past     *)
(* what is cached of it, or nowhere.                                       *)
Give(r, v, way) ==
  /\ told' = IF way = "nowhere" THEN [q \in DOMAIN told \ {r} |-> told[q]]
             ELSE [q \in DOMAIN told \cup {r} |-> IF q = r THEN v ELSE told[q]]
  /\ past' = IF way = "past" THEN past \cup {r} ELSE past \ {r}

PastOrSeen(r) == IF Cached(r) THEN "past" ELSE "seen"

WayOfWrite(r) == IF Stores(r) THEN "seen" ELSE IF cache_only THEN "nowhere" ELSE PastOrSeen(r)

(* Cached values are written over what went past them. *)
TakeBack(regs) ==
  /\ told' = [q \in DOMAIN told \ (past \cap regs) |-> told[q]]
  /\ past' = past \ regs

(* What reads without bypass respond with. *)
Seen(r) == IF Cached(r) THEN cache_read_reg(r) ELSE hw[r]
----------------------------------------------------------------------------
(* Reading and writing *)

\* Mutant: the value is cached before the register is written.
regmap_write_caches_first(r, v) ==
  \/ /\ r \notin Writeable /\ Returns("EINVAL")
  \/ /\ r \in Writeable
     /\ StoreOrKeep(r, v)
     /\ \/ ~cache_only /\ failed' = TRUE /\ UNCHANGED <<hw, Given>>
        \/ /\ failed' = FALSE
           /\ hw' = IF cache_only THEN hw ELSE [hw EXCEPT ![r] = v]
           /\ Give(r, v, WayOfWrite(r))
     /\ UNCHANGED Modes

(* A register that is written in cache-only mode while it is not cached    *)
(* returns success, too.                                                   *)
regmap_write(r, v) ==
  \/ /\ r \notin Writeable /\ Returns("EINVAL")
  \/ /\ r \in Writeable /\ ~cache_only /\ Returns("EIO")
  \/ /\ r \in Writeable
     /\ failed' = FALSE
     /\ hw' = IF cache_only THEN hw ELSE [hw EXCEPT ![r] = v]
     /\ StoreOrKeep(r, v)
     /\ Give(r, v, WayOfWrite(r))
     /\ UNCHANGED Modes

(* A value that was read is cached like one that was written. *)
regmap_read(r) ==
  \/ /\ r \notin Readable /\ Returns("EINVAL")
  \/ /\ r \in Readable /\ ~cache_bypass /\ Cached(r) /\ Returns("OK")
  \/ /\ r \in Readable /\ (cache_bypass \/ ~Cached(r))
     /\ \/ cache_only /\ Returns("EBUSY")
        \/ ~cache_only /\ Returns("EIO")
        \/ /\ ~cache_only
           /\ failed' = FALSE
           /\ StoreOrKeep(r, hw[r])
           /\ UNCHANGED <<hw, Modes, Given>>

(* Neither the cache nor its modes matter; the register is written only if *)
(* a bit changes.                                                          *)
regmap_update_bits_check(r, mask, bits) ==
  LET tmp == (hw[r] \ mask) \cup (bits \cap mask)
  IN  \/ Returns("EIO")
      \/ /\ failed' = FALSE
         /\ hw' = [hw EXCEPT ![r] = tmp]
         /\ Give(r, tmp, PastOrSeen(r))
         /\ UNCHANGED <<val, Modes>>

regmap_update_bits(r, mask, bits) == regmap_update_bits_check(r, mask, bits)
----------------------------------------------------------------------------
(* Synchronisation and modes *)

(* Of the first k values of the list those of the registers regs are       *)
(* written, in any mode.                                                   *)
WriteFirst(regs, k) ==
  LET at(r) == {i \in 1 .. k : val[i].reg = r}
  IN  hw' = [r \in Reg |-> IF r \in regs /\ at(r) # {} THEN val[CHOOSE i \in at(r) : TRUE].val
                           ELSE hw[r]]

Reached(regs, k) == {val[i].reg : i \in 1 .. k} \cap regs

(* The loop runs to the end of the list or to a write that fails. *)
Stops(regs, k) == k < Len(val) => val[k + 1].reg \in regs

\* Mutant: the flag is cleared also when a write has failed.
SyncList_clears(regs, done) ==
  /\ cache_dirty
  /\ \E k \in 0 .. Len(val) :
       /\ Stops(regs, k)
       /\ WriteFirst(regs, k)
       /\ TakeBack(Reached(regs, k))
       /\ failed' = (k < Len(val))
       /\ cache_dirty' = ~done
  /\ UNCHANGED <<val, cache_only, cache_bypass>>

(* A failure leaves the map dirty. *)
SyncList(regs, done) ==
  /\ cache_dirty
  /\ \E k \in 0 .. Len(val) :
       /\ Stops(regs, k)
       /\ WriteFirst(regs, k)
       /\ TakeBack(Reached(regs, k))
       /\ failed' = (k < Len(val))
       /\ cache_dirty' = IF k < Len(val) THEN cache_dirty ELSE ~done
  /\ UNCHANGED <<val, cache_only, cache_bypass>>

(* Values of registers that cannot be written are left out. *)
regcache_sync ==
  \/ ~cache_dirty /\ Returns("OK")
  \/ SyncList(Writeable, TRUE)

(* The registers of a region; the map stays dirty. *)
regcache_sync_region(region) ==
  \/ ~cache_dirty /\ Returns("OK")
  \/ SyncList(Writeable \cap region, FALSE)

regcache_cache_only(enable) ==
  /\ cache_only' = enable
  /\ failed' = FALSE
  /\ UNCHANGED <<hw, val, cache_dirty, cache_bypass, Given>>

regcache_cache_bypass(enable) ==
  /\ cache_bypass' = enable
  /\ failed' = FALSE
  /\ UNCHANGED <<hw, val, cache_dirty, cache_only, Given>>

regcache_mark_dirty ==
  /\ cache_dirty' = TRUE
  /\ failed' = FALSE
  /\ UNCHANGED <<hw, val, cache_only, cache_bypass, Given>>

Next ==
  \/ \E r \in Reg, v \in Value : regmap_write(r, v)
  \/ \E r \in Reg : regmap_read(r)
  \/ \E r \in Reg, mask \in Value : \E bits \in SUBSET mask : regmap_update_bits(r, mask, bits)
  \/ regcache_sync
  \/ \E region \in Region : regcache_sync_region(region)
  \/ \E enable \in BOOLEAN : regcache_cache_only(enable)
  \/ \E enable \in BOOLEAN : regcache_cache_bypass(enable)
  \/ regcache_mark_dirty

Spec == Init /\ [][Next]_vars
----------------------------------------------------------------------------
(* The list holds a register once, so that no older value hides a newer,   *)
(* and never one that changes by itself or that cannot be used.            *)
TypeOK ==
  /\ hw \in [Reg -> Value] /\ DOMAIN told \subseteq Reg /\ past \subseteq DOMAIN told
  /\ val \in Seq([reg : (Writeable \cup Readable) \ Volatile, val : Value])
  /\ \A i, j \in DOMAIN val : val[i].reg = val[j].reg => i = j
  /\ {cache_dirty, cache_only, cache_bypass, failed} \subseteq BOOLEAN

(* A driver reads what it wrote last, in whatever modes it wrote and the   *)
(* codec was synchronised, and whatever writes failed in between.  What it *)
(* wrote past a cached value (regmap_update_bits, bypass) readers do not   *)
(* see, but the codec has it until a sync writes the cached one over it.   *)
(* Only a write in cache-only mode that is not cached is lost at once.     *)
ReadersSeeWrites == \A r \in DOMAIN told : told[r] = IF r \in past THEN hw[r] ELSE Seen(r)

(* The map is marked clean only by a sync that returns no error, and then  *)
(* every register that can be written holds its cached value.  A sync that *)
(* stops at a failure leaves the map dirty, so that the next one repairs   *)
(* the rest.                                                               *)
SyncRepairs ==
  [][cache_dirty =>
       /\ failed' => cache_dirty'
       /\ ~cache_dirty' => \A r \in Writeable : Cached(r) => hw'[r] = cache_read_reg(r)]_vars
=============================================================================
