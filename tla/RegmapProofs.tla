---------------------------- MODULE RegmapProofs ----------------------------
(***************************************************************************)
(* For any registers, values and answers of the driver's config: the cache *)
(* holds a register once, readers see what was written last, and a sync    *)
(* either makes the codec agree with the cache or leaves the map dirty.    *)
(***************************************************************************)
EXTENDS Regmap, SequenceTheorems, TLAPS

Entry == [reg : (Writeable \cup Readable) \ Volatile, val : Value]

OneEntryEach == \A i, j \in DOMAIN val : val[i].reg = val[j].reg => i = j

IInv == TypeOK /\ ReadersSeeWrites

(* The search for a register finds its one entry. *)
LEMMA FindsEntry ==
  ASSUME OneEntryEach, NEW i \in DOMAIN val
  PROVE  Cached(val[i].reg) /\ cache_read_reg(val[i].reg) = val[i].val
<1>1. cache_find_reg(val[i].reg) = {i}
  BY DEF cache_find_reg, OneEntryEach
<1>2. QED
  BY <1>1 DEF Cached, cache_read_reg

(* What is cached has an entry, which a read of the cache returns.         *)
LEMMA CachedEntry ==
  ASSUME OneEntryEach, NEW r, Cached(r)
  PROVE  \E i \in DOMAIN val : val[i].reg = r /\ cache_read_reg(r) = val[i].val
<1>1. PICK i \in DOMAIN val : val[i].reg = r
  BY DEF Cached, cache_find_reg
<1>2. QED
  BY <1>1, FindsEntry

(* cache_write_reg gives the register the value and leaves the others      *)
(* alone, whether it finds an entry or adds one.                           *)
LEMMA WriteCaches ==
  ASSUME val \in Seq(Entry), OneEntryEach,
         NEW r \in (Writeable \cup Readable) \ Volatile, NEW v \in Value,
         cache_write_reg(r, v)
  PROVE  /\ val' \in Seq(Entry) /\ OneEntryEach'
         /\ \A q : Cached(q)' <=> Cached(q) \/ q = r
         /\ \A q : Cached(q)' => cache_read_reg(q)' = IF q = r THEN v ELSE cache_read_reg(q)
<1>0. DOMAIN val = 1 .. Len(val) /\ Len(val) \in Nat /\ \A i \in DOMAIN val : val[i] \in Entry
  BY LenProperties, ElementOfSeq
<1>1. CASE Cached(r)
  <2>1. val' = [i \in DOMAIN val |-> IF val[i].reg = r THEN [val[i] EXCEPT !.val = v] ELSE val[i]]
    BY <1>1 DEF cache_write_reg
  <2>2. \A i \in DOMAIN val : val'[i] \in Entry /\ val'[i].reg = val[i].reg
                              /\ val'[i].val = IF val[i].reg = r THEN v ELSE val[i].val
    BY <1>0, <2>1 DEF Entry
  <2>3. val' \in Seq(Entry) /\ DOMAIN val' = DOMAIN val
    BY <1>0, <2>1, <2>2
  <2>4. OneEntryEach'
    BY <2>2, <2>3 DEF OneEntryEach
  <2>5. ASSUME NEW q PROVE cache_find_reg(q)' = cache_find_reg(q)
    BY <2>2, <2>3 DEF cache_find_reg
  <2>6. ASSUME NEW q PROVE Cached(q)' <=> Cached(q) \/ q = r
    BY <1>1, <2>5 DEF Cached
  <2>7. ASSUME NEW q, Cached(q)'
        PROVE  cache_read_reg(q)' = IF q = r THEN v ELSE cache_read_reg(q)
    <3>1. PICK i \in DOMAIN val : val[i].reg = q /\ cache_read_reg(q) = val[i].val
      BY <1>1, <2>6, <2>7, CachedEntry
    <3>2. cache_find_reg(q) = {i}
      BY <3>1 DEF cache_find_reg, OneEntryEach
    <3>3. cache_read_reg(q)' = val'[i].val
      BY <3>2, <2>5 DEF cache_read_reg
    <3>4. QED
      BY <2>2, <3>1, <3>3
  <2>8. QED
    BY <2>3, <2>4, <2>6, <2>7
<1>2. CASE ~Cached(r)
  <2> DEFINE new == [reg |-> r, val |-> v]
  <2>1. val' = Append(val, new) /\ new \in Entry
    BY <1>2 DEF cache_write_reg, Entry
  <2>2. /\ val' \in Seq(Entry) /\ Len(val') = Len(val) + 1
        /\ \A i \in 1 .. Len(val) : val'[i] = val[i]
        /\ val'[Len(val) + 1] = new
    BY <2>1, AppendProperties
  <2>3. DOMAIN val' = 1 .. Len(val) + 1
    BY <2>2, LenProperties
  <2>4. \A i \in DOMAIN val : val[i].reg # r
    BY <1>2 DEF Cached, cache_find_reg
  <2>5. OneEntryEach'
    <3> SUFFICES ASSUME NEW i \in DOMAIN val', NEW j \in DOMAIN val', val'[i].reg = val'[j].reg
                 PROVE  i = j
      BY DEF OneEntryEach
    <3>1. CASE i \in DOMAIN val /\ j \in DOMAIN val
      BY <1>0, <2>2, <3>1 DEF OneEntryEach
    <3>2. CASE i \notin DOMAIN val \/ j \notin DOMAIN val
      BY <1>0, <2>2, <2>3, <2>4, <3>2
    <3>3. QED
      BY <3>1, <3>2
  <2>6. ASSUME NEW q, q # r PROVE cache_find_reg(q)' = cache_find_reg(q)
    BY <1>0, <2>2, <2>3, <2>6 DEF cache_find_reg
  <2>7. ASSUME NEW q, q # r
        PROVE  (Cached(q)' <=> Cached(q)) /\ (Cached(q)' => cache_read_reg(q)' = cache_read_reg(q))
    <3>1. \A i \in cache_find_reg(q) : i \in 1 .. Len(val) /\ val'[i] = val[i]
      BY <1>0, <2>2 DEF cache_find_reg
    <3>2. Cached(q)' <=> Cached(q)
      BY <2>6, <2>7 DEF Cached
    <3>3. ASSUME Cached(q) PROVE cache_read_reg(q)' = cache_read_reg(q)
      BY <2>6, <2>7, <3>1, <3>3 DEF Cached, cache_read_reg
    <3>4. QED
      BY <3>2, <3>3
  <2>8. cache_find_reg(r)' = {Len(val) + 1}
    BY <1>0, <2>2, <2>3, <2>4 DEF cache_find_reg
  <2>9. Cached(r)' /\ cache_read_reg(r)' = v
    BY <2>2, <2>8 DEF Cached, cache_read_reg
  <2>10. QED
    BY <2>2, <2>5, <2>7, <2>9
<1>3. QED
  BY <1>1, <1>2

(* The search depends on the list alone.                                   *)
LEMMA SameCache ==
  ASSUME UNCHANGED val
  PROVE  \A q : (Cached(q)' <=> Cached(q)) /\ cache_read_reg(q)' = cache_read_reg(q)
BY DEF Cached, cache_find_reg, cache_read_reg

(* A call that stores a value or not: what StoreOrKeep does to the cache.  *)
LEMMA StoreCaches ==
  ASSUME TypeOK, NEW r \in Writeable \cup Readable, NEW v \in Value, StoreOrKeep(r, v)
  PROVE  /\ val' \in Seq(Entry) /\ OneEntryEach'
         /\ \A q : q # r \/ ~Stores(r) =>
              /\ Cached(q)' <=> Cached(q)
              /\ Cached(q)' => cache_read_reg(q)' = cache_read_reg(q)
         /\ Stores(r) => Cached(r)' /\ cache_read_reg(r)' = v
<1>0. val \in Seq(Entry) /\ OneEntryEach
  BY DEF TypeOK, Entry, OneEntryEach
<1>1. CASE Stores(r)
  <2>1. cache_write_reg(r, v) /\ r \in (Writeable \cup Readable) \ Volatile
    BY <1>1 DEF StoreOrKeep, Stores
  <2>2. QED
    BY <1>0, <1>1, <2>1, WriteCaches
<1>2. CASE ~Stores(r)
  <2>1. UNCHANGED val
    BY <1>2 DEF StoreOrKeep
  <2>2. QED
    BY <1>0, <1>2, <2>1, SameCache DEF OneEntryEach
<1>3. QED
  BY <1>1, <1>2

(* A register that is given a value is the only one whose told value, or   *)
(* whose place among those written past the cache, can change.             *)
LEMMA GivesOne ==
  ASSUME TypeOK, NEW r \in Reg, NEW v, NEW way \in {"seen", "past", "nowhere"}, Give(r, v, way)
  PROVE  /\ DOMAIN told' \subseteq Reg /\ past' \subseteq DOMAIN told'
         /\ \A q \in DOMAIN told' \ {r} :
              q \in DOMAIN told /\ told'[q] = told[q] /\ (q \in past' <=> q \in past)
         /\ r \in DOMAIN told' => told'[r] = v /\ way # "nowhere" /\ (r \in past' <=> way = "past")
BY DEF Give, TypeOK

(* The told value of q is where its readers, or a bypass of the cache,     *)
(* find it.                                                                *)
Kept(q) == told[q] = IF q \in past THEN hw[q] ELSE IF Cached(q) THEN cache_read_reg(q) ELSE hw[q]

(* IInv with Seen, the search and the entries of the list spelled out.     *)
Whole ==
  /\ hw \in [Reg -> Value] /\ DOMAIN told \subseteq Reg /\ past \subseteq DOMAIN told
  /\ val \in Seq(Entry) /\ OneEntryEach
  /\ {cache_dirty, cache_only, cache_bypass, failed} \subseteq BOOLEAN
  /\ \A q \in DOMAIN told : Kept(q)

(* The invariant is the conjunction of its parts spelled out.              *)
LEMMA Parts == (IInv <=> Whole) /\ (IInv' <=> Whole')
BY DEF IInv, TypeOK, ReadersSeeWrites, Seen, Entry, OneEntryEach, Whole, Kept

(* A register whose value and cached value stay keeps what it was told.    *)
LEMMA StaysKept ==
  ASSUME NEW q, Kept(q), told'[q] = told[q], q \in past' <=> q \in past, hw'[q] = hw[q],
         Cached(q)' <=> Cached(q), Cached(q)' => cache_read_reg(q)' = cache_read_reg(q)
  PROVE  Kept(q)'
BY DEF Kept

(* A call that is refused changes no more than the error.                  *)
LEMMA ReturnsIInv ==
  ASSUME IInv, NEW err, Returns(err)
  PROVE  IInv'
<1>1. UNCHANGED <<hw, val, Modes, Given>> /\ failed' \in BOOLEAN
  BY DEF Returns
<1>2. \A q \in DOMAIN told : Kept(q)'
  BY <1>1, SameCache, StaysKept, Parts DEF Whole, Given
<1>3. QED
  BY <1>1, <1>2, Parts DEF Whole, Modes, Given, OneEntryEach

(* A new map has an empty cache, whatever the codec holds.                 *)
LEMMA InitIInv == Init => IInv
<1> SUFFICES ASSUME Init PROVE IInv
  OBVIOUS
<1>1. val \in Seq(Entry) /\ DOMAIN val = {}
  BY EmptySeq DEF Init
<1>2. \A q : ~Cached(q)
  BY <1>1 DEF Cached, cache_find_reg
<1>3. QED
  BY <1>1, <1>2, Parts DEF Whole, Kept, Init, OneEntryEach

(* Writing reaches the codec and the cache, the cache alone, the codec     *)
(* alone or neither; the register's told value goes with it.               *)
LEMMA WriteIInv ==
  ASSUME IInv, NEW r \in Reg, NEW v \in Value, regmap_write(r, v)
  PROVE  IInv'
<1>1. CASE \E err \in {"EINVAL", "EIO"} : Returns(err)
  BY <1>1, ReturnsIInv
<1>2. CASE ~\E err \in {"EINVAL", "EIO"} : Returns(err)
  <2>1. /\ StoreOrKeep(r, v) /\ Give(r, v, WayOfWrite(r)) /\ r \in Writeable
        /\ hw' = IF cache_only THEN hw ELSE [hw EXCEPT ![r] = v]
        /\ failed' = FALSE /\ UNCHANGED Modes
    BY <1>2 DEF regmap_write
  <2>2. TypeOK /\ hw \in [Reg -> Value]
    BY DEF IInv, TypeOK
  <2>3. /\ val' \in Seq(Entry) /\ OneEntryEach'
        /\ \A q : q # r \/ ~Stores(r) =>
             /\ Cached(q)' <=> Cached(q)
             /\ Cached(q)' => cache_read_reg(q)' = cache_read_reg(q)
        /\ Stores(r) => Cached(r)' /\ cache_read_reg(r)' = v
    BY <2>1, <2>2, StoreCaches
  <2>4. WayOfWrite(r) \in {"seen", "past", "nowhere"}
    BY DEF WayOfWrite, PastOrSeen
  <2>5. /\ DOMAIN told' \subseteq Reg /\ past' \subseteq DOMAIN told'
        /\ \A q \in DOMAIN told' \ {r} :
              q \in DOMAIN told /\ told'[q] = told[q] /\ (q \in past' <=> q \in past)
        /\ r \in DOMAIN told' => told'[r] = v /\ WayOfWrite(r) # "nowhere" /\ (r \in past' <=> WayOfWrite(r) = "past")
    BY <2>1, <2>2, <2>4, GivesOne
  <2>6. hw' \in [Reg -> Value] /\ (\A q \in Reg : q # r => hw'[q] = hw[q])
        /\ (~cache_only => hw'[r] = v)
    BY <2>1, <2>2
  <2>7. ASSUME r \in DOMAIN told' PROVE Kept(r)'
    <3>1. CASE Stores(r)
      BY <2>3, <2>5, <2>7, <3>1 DEF Kept, WayOfWrite
    <3>2. CASE ~Stores(r)
      <4>1. ~cache_only /\ WayOfWrite(r) = IF Cached(r) THEN "past" ELSE "seen"
        BY <2>5, <2>7, <3>2 DEF WayOfWrite, PastOrSeen
      <4>2. Cached(r)' <=> Cached(r)
        BY <2>3, <3>2
      <4>3. hw'[r] = v /\ told'[r] = v /\ (r \in past' <=> Cached(r))
        BY <2>5, <2>6, <2>7, <4>1
      <4>4. QED
        BY <4>2, <4>3 DEF Kept
    <3>3. QED
      BY <3>1, <3>2
  <2>8. ASSUME NEW q \in DOMAIN told' \ {r} PROVE Kept(q)'
    <3>1. Kept(q) /\ told'[q] = told[q] /\ (q \in past' <=> q \in past) /\ hw'[q] = hw[q]
      BY <2>5, <2>6, Parts DEF Whole
    <3>2. QED
      BY <2>3, <3>1, StaysKept
  <2>9. QED
    BY <2>1, <2>3, <2>5, <2>6, <2>7, <2>8, Parts DEF Whole, Modes
<1>3. QED
  BY <1>1, <1>2

(* A read caches what it found, which is what readers see anyway; only a   *)
(* register that is not cached is read and stored.                         *)
LEMMA ReadIInv ==
  ASSUME IInv, NEW r \in Reg, regmap_read(r)
  PROVE  IInv'
<1>1. CASE \E err \in {"OK", "EINVAL", "EBUSY", "EIO"} : Returns(err)
  BY <1>1, ReturnsIInv
<1>2. CASE ~\E err \in {"OK", "EINVAL", "EBUSY", "EIO"} : Returns(err)
  <2>1. /\ r \in Readable /\ (cache_bypass \/ ~Cached(r))
        /\ StoreOrKeep(r, hw[r]) /\ failed' = FALSE /\ UNCHANGED <<hw, Modes, Given>>
    BY <1>2 DEF regmap_read
  <2>2. TypeOK /\ hw[r] \in Value
    BY DEF IInv, TypeOK
  <2>3. /\ val' \in Seq(Entry) /\ OneEntryEach'
        /\ \A q : q # r \/ ~Stores(r) =>
             /\ Cached(q)' <=> Cached(q)
             /\ Cached(q)' => cache_read_reg(q)' = cache_read_reg(q)
        /\ Stores(r) => Cached(r)' /\ cache_read_reg(r)' = hw[r]
    BY <2>1, <2>2, StoreCaches
  <2>4. told' = told /\ past' = past /\ hw' = hw
    BY <2>1 DEF Given
  <2>5. ASSUME NEW q \in DOMAIN told PROVE Kept(q)'
    <3>1. Kept(q)
      BY Parts DEF Whole
    <3>2. CASE q = r /\ Stores(r)
      BY <2>1, <2>3, <2>4, <3>1, <3>2 DEF Stores, Kept
    <3>3. CASE q # r \/ ~Stores(r)
      BY <2>3, <2>4, <3>1, <3>3, StaysKept
    <3>4. QED
      BY <3>2, <3>3
  <2>6. QED
    BY <2>1, <2>3, <2>4, <2>5, Parts DEF Whole, Modes
<1>3. QED
  BY <1>1, <1>2

(* An update of bits goes past a cached value and is seen without one.     *)
LEMMA UpdateIInv ==
  ASSUME IInv, NEW r \in Reg, NEW mask \in Value, NEW bits \in Value, regmap_update_bits(r, mask, bits)
  PROVE  IInv'
<1> DEFINE tmp == (hw[r] \ mask) \cup (bits \cap mask)
<1>1. CASE Returns("EIO")
  BY <1>1, ReturnsIInv
<1>2. CASE ~Returns("EIO")
  <2>1. /\ hw' = [hw EXCEPT ![r] = tmp] /\ Give(r, tmp, PastOrSeen(r))
        /\ failed' = FALSE /\ UNCHANGED <<val, Modes>>
    BY <1>2 DEF regmap_update_bits, regmap_update_bits_check
  <2>2. TypeOK /\ hw \in [Reg -> Value] /\ tmp \in Value
    BY DEF IInv, TypeOK, Value
  <2> HIDE DEF tmp
  <2>3. /\ DOMAIN told' \subseteq Reg /\ past' \subseteq DOMAIN told'
        /\ \A q \in DOMAIN told' \ {r} :
              q \in DOMAIN told /\ told'[q] = told[q] /\ (q \in past' <=> q \in past)
        /\ r \in DOMAIN told' => told'[r] = tmp /\ (r \in past' <=> PastOrSeen(r) = "past")
    BY <2>1, <2>2, GivesOne DEF PastOrSeen
  <2>4. \A q : (Cached(q)' <=> Cached(q)) /\ cache_read_reg(q)' = cache_read_reg(q)
    BY <2>1, SameCache
  <2>5. hw' \in [Reg -> Value] /\ hw'[r] = tmp /\ (\A q \in Reg : q # r => hw'[q] = hw[q])
    BY <2>1, <2>2
  <2>6. r \in DOMAIN told' => Kept(r)'
    BY <2>3, <2>4, <2>5 DEF Kept, PastOrSeen
  <2>7. ASSUME NEW q \in DOMAIN told' \ {r} PROVE Kept(q)'
    <3>1. Kept(q) /\ told'[q] = told[q] /\ (q \in past' <=> q \in past) /\ hw'[q] = hw[q]
      BY <2>3, <2>5, Parts DEF Whole
    <3>2. QED
      BY <2>4, <3>1, StaysKept
  <2>8. QED
    BY <2>1, <2>3, <2>5, <2>6, <2>7, Parts DEF Whole, Modes, OneEntryEach
<1>3. QED
  BY <1>1, <1>2

(* A synchronisation changes registers of the codec to their cached value, *)
(* all those the list reached and no others.                               *)
LEMMA SyncWrites ==
  ASSUME TypeOK, NEW regs \in SUBSET Reg, NEW k \in 0 .. Len(val), WriteFirst(regs, k)
  PROVE  /\ hw' \in [Reg -> Value]
         /\ \A r \in Reg : hw'[r] # hw[r] => Cached(r) /\ r \in Reached(regs, k)
         /\ \A i \in 1 .. k : val[i].reg \in regs => hw'[val[i].reg] = cache_read_reg(val[i].reg)
<1> DEFINE at(r) == {i \in 1 .. k : val[i].reg = r}
<1>0. /\ DOMAIN val = 1 .. Len(val) /\ Len(val) \in Nat /\ OneEntryEach
      /\ \A i \in DOMAIN val : val[i] \in Entry
  <2>1. val \in Seq(Entry) /\ OneEntryEach
    BY DEF TypeOK, Entry, OneEntryEach
  <2>2. QED
    BY <2>1, LenProperties, ElementOfSeq
<1>1. hw' = [r \in Reg |-> IF r \in regs /\ at(r) # {} THEN val[CHOOSE i \in at(r) : TRUE].val ELSE hw[r]]
  BY DEF WriteFirst
<1>2. ASSUME NEW r, at(r) # {}
      PROVE  Cached(r) /\ val[CHOOSE i \in at(r) : TRUE].val = cache_read_reg(r)
             /\ val[CHOOSE i \in at(r) : TRUE].val \in Value
  <2>1. PICK i \in at(r) : i = CHOOSE j \in at(r) : TRUE
    BY <1>2
  <2>2. i \in DOMAIN val /\ val[i].reg = r /\ val[i].val \in Value
    BY <1>0, <2>1 DEF Entry
  <2>3. QED
    BY <1>0, <2>1, <2>2, FindsEntry
<1>3. hw \in [Reg -> Value]
  BY DEF TypeOK
<1>4. hw' \in [Reg -> Value]
  BY <1>1, <1>2, <1>3
<1>5. ASSUME NEW r \in Reg, hw'[r] # hw[r] PROVE Cached(r) /\ r \in Reached(regs, k)
  <2>1. r \in regs /\ at(r) # {}
    BY <1>1, <1>5
  <2>2. QED
    BY <1>2, <2>1 DEF Reached
<1>6. ASSUME NEW i \in 1 .. k, val[i].reg \in regs
      PROVE  hw'[val[i].reg] = cache_read_reg(val[i].reg)
  <2>1. at(val[i].reg) # {}
    OBVIOUS
  <2>2. QED
    BY <1>1, <1>2, <1>6, <2>1
<1>7. QED
  BY <1>4, <1>5, <1>6

(* A sync takes back what went past the cached values it wrote; whatever   *)
(* else was told readers see in the cache, or the codec still has.         *)
LEMMA SyncListIInv ==
  ASSUME IInv, NEW regs \in SUBSET Reg, NEW done \in BOOLEAN, SyncList(regs, done)
  PROVE  IInv'
<1>1. PICK k \in 0 .. Len(val) :
        /\ WriteFirst(regs, k) /\ TakeBack(Reached(regs, k))
        /\ failed' = (k < Len(val))
        /\ cache_dirty' = IF k < Len(val) THEN cache_dirty ELSE ~done
  BY DEF SyncList
<1>2. UNCHANGED <<val, cache_only, cache_bypass>>
  BY DEF SyncList
<1>3. TypeOK /\ DOMAIN told \subseteq Reg /\ past \subseteq DOMAIN told
  BY DEF IInv, TypeOK
<1>4. /\ hw' \in [Reg -> Value]
      /\ \A r \in Reg : hw'[r] # hw[r] => Cached(r) /\ r \in Reached(regs, k)
  BY <1>1, <1>3, SyncWrites
<1>5. /\ DOMAIN told' = DOMAIN told \ (past \cap Reached(regs, k))
      /\ past' = past \ Reached(regs, k)
      /\ \A q \in DOMAIN told' : told'[q] = told[q]
  BY <1>1 DEF TakeBack
<1>6. ASSUME NEW q \in DOMAIN told' PROVE Kept(q)'
  <2>1. q \in DOMAIN told /\ q \in Reg /\ told'[q] = told[q] /\ (q \in past' <=> q \in past)
    BY <1>3, <1>5
  <2>2. Kept(q)
    BY <2>1, Parts DEF Whole
  <2>3. (Cached(q)' <=> Cached(q)) /\ cache_read_reg(q)' = cache_read_reg(q)
    BY <1>2, SameCache
  <2>4. q \in past => hw'[q] = hw[q]
    BY <1>4, <1>5, <2>1
  <2>5. ~Cached(q) => hw'[q] = hw[q]
    BY <1>4, <2>1
  <2>6. QED
    BY <2>1, <2>2, <2>3, <2>4, <2>5 DEF Kept
<1>7. cache_dirty' \in BOOLEAN /\ failed' \in BOOLEAN
  <2>1. {cache_dirty, done} \subseteq BOOLEAN
    BY DEF IInv, TypeOK
  <2>2. cache_dirty' \in {cache_dirty, ~done}
    BY <1>1
  <2>3. cache_dirty' \in BOOLEAN
    BY <2>1, <2>2
  <2>4. failed' = TRUE \/ failed' = FALSE
    <3>1. CASE k < Len(val)
      BY <1>1, <3>1
    <3>2. CASE ~(k < Len(val))
      BY <1>1, <3>2
    <3>3. QED
      BY <3>1, <3>2
  <2>5. QED
    BY <2>3, <2>4
<1>8. QED
  BY <1>2, <1>3, <1>4, <1>5, <1>6, <1>7, Parts DEF Whole, OneEntryEach

(* A call that switches a mode changes neither the cache nor the codec.    *)
LEMMA ModeIInv ==
  ASSUME IInv, UNCHANGED <<hw, val, Given>>,
         {cache_dirty', cache_only', cache_bypass', failed'} \subseteq BOOLEAN
  PROVE  IInv'
<1>1. \A q \in DOMAIN told : Kept(q)'
  BY SameCache, StaysKept, Parts DEF Whole, Given
<1>2. QED
  BY <1>1, Parts DEF Whole, Given, OneEntryEach

(* Every call on the map keeps the invariant.                              *)
LEMMA StepIInv == IInv /\ [Next]_vars => IInv'
<1> SUFFICES ASSUME IInv, [Next]_vars PROVE IInv'
  OBVIOUS
<1>0. {cache_dirty, cache_only, cache_bypass, failed} \subseteq BOOLEAN
  BY Parts DEF Whole
<1>1. CASE regcache_sync
  BY <1>1, ReturnsIInv, SyncListIInv, RegAssumption DEF regcache_sync
<1>2. ASSUME NEW region \in Region, regcache_sync_region(region) PROVE IInv'
  BY <1>2, ReturnsIInv, SyncListIInv, RegAssumption DEF regcache_sync_region
<1>3. ASSUME NEW enable \in BOOLEAN, regcache_cache_only(enable) PROVE IInv'
  BY <1>0, <1>3, ModeIInv DEF regcache_cache_only
<1>4. ASSUME NEW enable \in BOOLEAN, regcache_cache_bypass(enable) PROVE IInv'
  BY <1>0, <1>4, ModeIInv DEF regcache_cache_bypass
<1>5. CASE regcache_mark_dirty
  BY <1>0, <1>5, ModeIInv DEF regcache_mark_dirty
<1>6. CASE UNCHANGED vars
  BY <1>0, <1>6, ModeIInv DEF vars
<1>7. QED
  <2>1. \A mask \in Value : \A bits \in SUBSET mask : bits \in Value
    BY DEF Value
  <2>2. QED
    BY <1>1, <1>2, <1>3, <1>4, <1>5, <1>6, <2>1, WriteIInv, ReadIInv, UpdateIInv DEF Next

(* The inductive invariant holds of every order of calls.                  *)
THEOREM RegmapInvariant == Spec => []IInv
BY InitIInv, StepIInv, PTL DEF Spec

(* The list never holds a register twice (cache_write_reg looks for it     *)
(* first), nor one that config calls volatile or unusable.                 *)
THEOREM TypeCorrect == Spec => []TypeOK
BY RegmapInvariant, PTL DEF IInv

(* What a driver wrote last it reads back, however it moves between the    *)
(* modes and whatever writes and syncs fail, unless it wrote past a cached *)
(* value; then the codec has it until a sync takes it back (regmap_write,  *)
(* regmap_read, regmap_update_bits_check, regcache_sync).                  *)
THEOREM LastWriteIsRead == Spec => []ReadersSeeWrites
BY RegmapInvariant, PTL DEF IInv

(* Only a sync that has written every cached register that can be written  *)
(* marks the map clean, and one that fails leaves it dirty (regcache_sync, *)
(* regcache_sync_region).                                                  *)
THEOREM SyncIsRepair == Spec => SyncRepairs
<1> DEFINE A == cache_dirty =>
       /\ failed' => cache_dirty'
       /\ ~cache_dirty' => \A r \in Writeable : Cached(r) => hw'[r] = cache_read_reg(r)
<1>1. ASSUME TypeOK, NEW regs \in SUBSET Reg, NEW done \in BOOLEAN, SyncList(regs, done),
             done => regs = Writeable
      PROVE  A
  <2>1. PICK k \in 0 .. Len(val) :
          /\ WriteFirst(regs, k)
          /\ failed' = (k < Len(val))
          /\ cache_dirty' = IF k < Len(val) THEN cache_dirty ELSE ~done
    BY <1>1 DEF SyncList
  <2>2. cache_dirty
    BY <1>1 DEF SyncList
  <2>3. \A i \in 1 .. k : val[i].reg \in regs => hw'[val[i].reg] = cache_read_reg(val[i].reg)
    BY <1>1, <2>1, SyncWrites
  <2>4. Len(val) \in Nat /\ DOMAIN val = 1 .. Len(val) /\ OneEntryEach
    BY <1>1, LenProperties DEF TypeOK, OneEntryEach
  <2>5. ASSUME ~cache_dirty', NEW r \in Writeable, Cached(r)
        PROVE  hw'[r] = cache_read_reg(r)
    <3>1. k = Len(val) /\ regs = Writeable
      <4>1. ~(k < Len(val)) /\ done
        BY <2>1, <2>2, <2>5
      <4>2. k = Len(val)
        <5>1. \A n \in Nat : \A m \in 0 .. n : ~(m < n) => m = n
          OBVIOUS
        <5>2. QED
          BY <2>1, <2>4, <4>1, <5>1
      <4>3. QED
        BY <1>1, <4>1, <4>2
    <3>2. PICK i \in DOMAIN val : val[i].reg = r
      BY <2>4, <2>5, CachedEntry
    <3>3. QED
      BY <2>3, <2>4, <3>1, <3>2
  <2>6. failed' => cache_dirty'
    BY <2>1, <2>2
  <2>7. QED
    BY <2>5, <2>6
<1>2. TypeOK /\ [Next]_vars => A \/ UNCHANGED vars
  <2> SUFFICES ASSUME TypeOK, Next PROVE A
    BY DEF A
  <2>1. CASE regcache_sync /\ cache_dirty
    BY <1>1, <2>1, RegAssumption DEF regcache_sync
  <2>2. ASSUME NEW region \in Region, regcache_sync_region(region), cache_dirty PROVE A
    BY <1>1, <2>2, RegAssumption DEF regcache_sync_region
  <2>3. CASE cache_dirty' = cache_dirty \/ ~cache_dirty \/ cache_dirty'
    BY <2>3
  <2>4. QED
    BY <2>1, <2>2, <2>3
      DEF Next, regmap_write, regmap_read, regmap_update_bits, regmap_update_bits_check, Returns, Modes,
          regcache_cache_only, regcache_cache_bypass, regcache_mark_dirty
<1>3. QED
  BY <1>2, TypeCorrect, PTL DEF Spec, SyncRepairs
=============================================================================
