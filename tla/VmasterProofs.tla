--------------------------- MODULE VmasterProofs ----------------------------
(***************************************************************************)
(* For any finite set of followers of any number of channels, any range    *)
(* and any values written to the master: what is heard is the user's value *)
(* below the master's, no move of the master loses a user's value, and the *)
(* hook knows the master's value but for a write that is its first use.    *)
(***************************************************************************)
EXTENDS Vmaster, FiniteSetTheorems, TLAPS

ListOK ==
  /\ freed \subseteq Follower /\ list \in Seq(Follower \ freed)
  /\ \A i, j \in DOMAIN list : list[i] = list[j] => i = j
  /\ mfreed \in BOOLEAN /\ (mfreed => list = <<>>)

(* The range of the master is known once it is initialised, its value is 0 *)
(* until then.                                                             *)
MasterOK ==
  /\ type \in {"BOOLEAN", "INTEGER"} /\ minit \in BOOLEAN /\ hooked \in BOOLEAN
  /\ mmax = IF minit THEN Top ELSE 0
  /\ mval \in Int /\ (~minit => mval = 0)
  /\ hookval = NotCalled \/ hookval \in Int

ValuesOK ==
  /\ DOMAIN hw = Follower /\ DOMAIN vals = Follower
  /\ \A f \in Follower : hw[f] \in Value(f) /\ vals[f] \in Value(f)

(* Nothing is read before it is a follower.  One that has not been read    *)
(* since is late, or the master was at its top all the time.               *)
ReadOK ==
  /\ finit \subseteq Follower
  /\ ~mfreed => finit \subseteq Linked \cup freed
  /\ late \subseteq Linked /\ (late # {} => minit)
  /\ minit => \A f \in Linked \ finit : f \in late \/ mval = mmax

IInv == ListOK /\ MasterOK /\ ValuesOK /\ ReadOK /\ Attenuated

----------------------------------------------------------------------------
(* The operators *)

(* What is handed down is in the follower's range; a master at its top     *)
(* hands down the follower's own value, one in its range no more than it.  *)
LEMMA PutValue ==
  ASSUME type \in {"BOOLEAN", "INTEGER"}, NEW f, NEW v \in Value(f), NEW m \in Int
  PROVE  /\ follower_put_val(f, v, m, Top) \in Value(f)
         /\ follower_put_val(f, v, Top, Top) = v
         /\ m <= Top => \A c \in Chan(f) : follower_put_val(f, v, m, Top)[c] <= v[c]
<1>1. Top \in Nat /\ (type = "BOOLEAN" => Top = 1)
  BY RangeAssumption DEF Top
<1>2. \A c \in Chan(f) : v[c] \in 0 .. Top
  BY DEF Value
<1>3. v = [c \in Chan(f) |-> v[c]]
  BY DEF Value
<1> HIDE DEF Top
<1>4. CASE type = "BOOLEAN"
  <2>1. \A k \in Int : follower_put_val(f, v, k, Top) = [c \in Chan(f) |-> IF k = 0 THEN 0 ELSE v[c]]
    BY <1>4 DEF follower_put_val
  <2>2. follower_put_val(f, v, Top, Top) = v
    BY <1>1, <1>3, <1>4, <2>1
  <2>3. \A c \in Chan(f) : (IF m = 0 THEN 0 ELSE v[c]) \in 0 .. Top /\ (IF m = 0 THEN 0 ELSE v[c]) <= v[c]
    BY <1>1, <1>2
  <2>4. QED
    BY <2>1, <2>2, <2>3 DEF Value
<1>5. CASE type # "BOOLEAN"
  <2>1. \A k \in Int : follower_put_val(f, v, k, Top) = [c \in Chan(f) |-> Clamp(v[c] + k - Top)]
    BY <1>5 DEF follower_put_val
  <2>2. \A n \in Int : /\ Clamp(n) \in 0 .. Top /\ (n \in 0 .. Top => Clamp(n) = n)
                         /\ (0 <= n => Clamp(n) <= n) /\ (n < 0 => Clamp(n) = 0)
    BY <1>1 DEF Clamp
  <2>3. \A c \in Chan(f) : Clamp(v[c] + Top - Top) = v[c]
    BY <1>1, <1>2, <2>2
  <2>4. follower_put_val(f, v, Top, Top) = v
    BY <1>1, <1>3, <2>1, <2>3
  <2>5. \A c \in Chan(f) : Clamp(v[c] + m - Top) \in 0 .. Top /\ (m <= Top => Clamp(v[c] + m - Top) <= v[c])
    <3> SUFFICES ASSUME NEW c \in Chan(f)
                 PROVE  Clamp(v[c] + m - Top) \in 0 .. Top /\ (m <= Top => Clamp(v[c] + m - Top) <= v[c])
      OBVIOUS
    <3>1. v[c] + m - Top \in Int /\ (m <= Top => v[c] + m - Top <= v[c])
      BY <1>1, <1>2
    <3>2. QED
      BY <1>1, <1>2, <2>2, <3>1
  <2>6. QED
    BY <2>1, <2>4, <2>5 DEF Value
<1>6. QED
  BY <1>4, <1>5

(* A read gives a value in range, for a cached follower the saved one.     *)
LEMMA ReadValue ==
  ASSUME ValuesOK, NEW f \in Follower
  PROVE  /\ follower_init(f) \in Value(f)
         /\ f \in finit \ Uncached => follower_init(f) = vals[f]
         /\ f \notin finit \/ f \in Uncached => follower_init(f) = hw[f]
  BY DEF ValuesOK, follower_init

(* The followers in the list. *)
LEMMA LinkedFollowers ==
  ASSUME ListOK
  PROVE  /\ Linked \subseteq Follower \ freed
         /\ list = <<>> <=> Linked = {}
         /\ list # <<>> => list[1] \in Linked
         /\ mfreed => Linked = {}
<1>1. DOMAIN list = 1 .. Len(list) /\ Len(list) \in Nat /\ \A i \in DOMAIN list : list[i] \in Follower \ freed
  BY DEF ListOK
<1>2. Linked \subseteq Follower \ freed
  BY <1>1 DEF Linked
<1>3. list = <<>> => Linked = {}
  BY DEF Linked
<1>4. list # <<>> => 1 \in DOMAIN list
  BY <1>1 DEF ListOK
<1>5. list # <<>> => list[1] \in Linked
  BY <1>4 DEF Linked
<1>6. QED
  BY <1>2, <1>3, <1>5 DEF ListOK

(* Nobody is in the list twice, so it is no longer than there are controls. *)
LEMMA ListIsShort ==
  ASSUME ListOK
  PROVE  DOMAIN list \subseteq 1 .. Cardinality(Follower)
<1>1. Len(list) \in Nat /\ DOMAIN list = 1 .. Len(list) /\ list \in [1 .. Len(list) -> Follower]
  BY DEF ListOK
<1>2. Cardinality(Follower) \in Nat
  BY FollowerAssumption, FS_CardinalityType
<1>3. IsFiniteSet(1 .. Len(list)) /\ Cardinality(1 .. Len(list)) = Len(list)
  <2>1. 1 \in Int /\ Len(list) \in Int
    BY <1>1
  <2>2. /\ IsFiniteSet(1 .. Len(list))
        /\ Cardinality(1 .. Len(list)) = IF 1 > Len(list) THEN 0 ELSE Len(list) - 1 + 1
    BY <2>1, FS_Interval
  <2>3. QED
    BY <1>1, <2>2
<1>4. ASSUME Cardinality(Follower) < Len(list) PROVE FALSE
  <2>1. \E i, j \in 1 .. Len(list) : i # j /\ list[i] = list[j]
    BY <1>1, <1>3, <1>4, FollowerAssumption, FS_PigeonHole
  <2>2. QED
    BY <1>1, <2>1 DEF ListOK
<1>5. QED
  BY <1>1, <1>2, <1>4

(* Taking a follower off the list leaves the others in it, once each.      *)
LEMMA DeletesOne ==
  ASSUME ListOK, NEW f \in Linked, list' = list_del(f), freed' = freed \cup {f}, UNCHANGED mfreed
  PROVE  ListOK' /\ Linked' = Linked \ {f}
<1>0. /\ Len(list) \in Nat /\ DOMAIN list = 1 .. Len(list)
      /\ \A i \in DOMAIN list : list[i] \in Follower \ freed
  BY DEF ListOK
<1> DEFINE k == CHOOSE i \in DOMAIN list : list[i] = f
<1>1. k \in DOMAIN list /\ list[k] = f
  BY DEF Linked
<1>2. list' = [j \in 1 .. Len(list) - 1 |-> IF j < k THEN list[j] ELSE list[j + 1]]
  BY DEF list_del
<1> HIDE DEF k
<1> DEFINE at(n) == IF n < k THEN n ELSE n + 1
<1>3. /\ Len(list) - 1 \in Nat /\ DOMAIN list' = 1 .. Len(list) - 1
      /\ \A j \in DOMAIN list' : at(j) \in DOMAIN list /\ at(j) # k /\ list'[j] = list[at(j)]
  BY <1>0, <1>1, <1>2
<1>4. \A j \in DOMAIN list' : list'[j] \in Follower \ freed'
  BY <1>0, <1>1, <1>3 DEF ListOK
<1>5. list' \in Seq(Follower \ freed')
  <2>1. list' \in [1 .. Len(list) - 1 -> Follower \ freed']
    BY <1>2, <1>3, <1>4
  <2>2. QED
    BY <1>3, <2>1
<1>6. \A i, j \in DOMAIN list' : list'[i] = list'[j] => i = j
  <2> SUFFICES ASSUME NEW i \in DOMAIN list', NEW j \in DOMAIN list', list'[i] = list'[j] PROVE i = j
    OBVIOUS
  <2>1. at(i) = at(j)
    BY <1>3 DEF ListOK
  <2>2. QED
    BY <1>0, <1>1, <1>3, <2>1
<1>7. \A d \in Linked' : d \in Linked \ {f}
  BY <1>1, <1>3 DEF ListOK, Linked
<1>8. ASSUME NEW d \in Linked \ {f} PROVE d \in Linked'
  <2>1. PICK j \in DOMAIN list : list[j] = d /\ j # k
    BY <1>1 DEF Linked
  <2> DEFINE n == IF j < k THEN j ELSE j - 1
  <2>2. n \in DOMAIN list' /\ at(n) = j
    BY <1>0, <1>1, <1>3, <2>1
  <2>3. list'[n] = d
    BY <1>3, <2>1, <2>2
  <2>4. QED
    BY <2>2, <2>3 DEF Linked
<1>9. mfreed' = FALSE /\ freed' \subseteq Follower
  BY LinkedFollowers DEF ListOK
<1>10. ListOK'
  BY <1>5, <1>6, <1>9 DEF ListOK
<1>11. QED
  BY <1>7, <1>8, <1>10

----------------------------------------------------------------------------
(* A sync, and the master's first use *)

(* What a sync hands down is what is heard of the followers below the new  *)
(* value; it reads every follower, so that none is late but the faulty.    *)
LEMMA SyncKeeps ==
  ASSUME IInv, NEW new \in Int, sync_followers(new, InitMax), minit \/ list # <<>>,
         minit' = TRUE, mmax' = InitMax, UNCHANGED <<type, list, freed, mfreed, hooked>>
  PROVE  /\ ValuesOK' /\ ReadOK' /\ Attenuated'
         /\ mmax' = Top /\ mval' \in Int
<1>0. /\ ListOK /\ MasterOK /\ ValuesOK /\ ReadOK
      /\ InitMax = Top /\ InitVal \in Int /\ type' = type
      /\ Linked \subseteq Follower /\ Linked' = Linked
  <2>1. Top \in Int
    BY RangeAssumption DEF Top
  <2>2. QED
    BY <2>1, LinkedFollowers DEF IInv, MasterOK, InitMax, InitVal, Linked
<1>1. /\ \A f \in Follower : vals'[f] = IF f \in Linked THEN follower_init(f) ELSE vals[f]
      /\ \A f \in Follower : hw'[f] = IF f \in Linked \ Faulty
                                      THEN follower_put_val(f, follower_init(f), new, Top)
                                      ELSE hw[f]
      /\ DOMAIN hw' = Follower /\ DOMAIN vals' = Follower
      /\ finit' = finit \cup Linked /\ late' = late \cap Faulty
      /\ mval' = IF list = <<>> THEN InitVal ELSE new
  BY <1>0 DEF sync_followers
<1>2. \A f \in Follower : Value(f)' = Value(f)
  BY <1>0 DEF Value, Top
<1>3. ValuesOK'
  <2> SUFFICES ASSUME NEW f \in Follower PROVE hw'[f] \in Value(f) /\ vals'[f] \in Value(f)
    BY <1>1, <1>2 DEF ValuesOK
  <2>1. follower_init(f) \in Value(f) /\ hw[f] \in Value(f) /\ vals[f] \in Value(f)
    BY <1>0, ReadValue DEF ValuesOK
  <2>2. follower_put_val(f, follower_init(f), new, Top) \in Value(f)
    BY <1>0, <2>1, PutValue DEF MasterOK
  <2>3. QED
    BY <1>1, <2>1, <2>2
<1>4. mmax' = Top /\ mval' \in Int
  BY <1>0, <1>1
<1>5. ReadOK'
  BY <1>0, <1>1 DEF ReadOK
<1>6. Attenuated'
  <2> SUFFICES ASSUME NEW f \in Linked, f \notin Uncached, f \notin Faulty
               PROVE  hw'[f] = IF minit' /\ f \notin late'
                               THEN follower_put_val(f, vals[f], mval, mmax)'
                               ELSE vals'[f]
    BY <1>0 DEF Attenuated
  <2>1. list # <<>>
    BY <1>0, LinkedFollowers
  <2>2. vals'[f] = follower_init(f) /\ mval' = new /\ mmax' = Top /\ f \notin late'
    BY <1>0, <1>1, <1>4, <2>1
  <2>3. hw'[f] = follower_put_val(f, vals'[f], new, Top)
    BY <1>0, <1>1, <2>2
  <2>4. QED
    BY <1>0, <2>2, <2>3 DEF follower_put_val, Clamp, Top
<1>7. QED
  BY <1>3, <1>4, <1>5, <1>6

(* The first use puts the master at its top, where nobody hears it.        *)
LEMMA FirstUseKeeps ==
  ASSUME IInv, master_get
  PROVE  IInv'
<1>0. /\ ListOK /\ MasterOK /\ ValuesOK /\ ReadOK /\ Attenuated
      /\ UNCHANGED <<type, hw, list, freed, mfreed, hooked, late>>
      /\ Top \in Int /\ Top' = Top /\ Linked' = Linked
  BY RangeAssumption DEF IInv, master_get, Top, Linked
<1>1. CASE minit
  <2>1. UNCHANGED <<minit, mmax, mval, hookval, finit, vals>>
    BY <1>1 DEF master_get, master_init, InitVal, InitRead
  <2>2. ListOK' /\ MasterOK' /\ ReadOK'
    BY <1>0, <2>1 DEF ListOK, MasterOK, ReadOK
  <2>3. ValuesOK' /\ Attenuated'
    BY <1>0, <2>1 DEF ValuesOK, Value, Attenuated, follower_put_val, Clamp
  <2>4. QED
    BY <2>2, <2>3 DEF IInv
<1>2. CASE ~minit
  <2> DEFINE g == list[1]
  <2>1. /\ list # <<>> /\ minit' = TRUE /\ mmax' = Top /\ mval' = Top
        /\ finit' = finit \cup {g} /\ vals' = [vals EXCEPT ![g] = follower_init(g)]
        /\ hookval' = IF hooked THEN Top ELSE hookval
    BY <1>2 DEF master_get, master_init, InitVal, InitRead
  <2>2. g \in Linked /\ Linked \subseteq Follower
    BY <1>0, <2>1, LinkedFollowers
  <2> HIDE DEF g
  <2>3. follower_init(g) \in Value(g)
    BY <1>0, <2>2, ReadValue
  <2>4. ListOK'
    BY <1>0 DEF ListOK
  <2>5. MasterOK'
    BY <1>0, <2>1 DEF MasterOK
  <2>6. ValuesOK'
    BY <1>0, <2>1, <2>3 DEF ValuesOK, Value
  <2>7. ReadOK'
    BY <1>0, <2>1, <2>2 DEF ReadOK
  <2>8. Attenuated'
    <3> SUFFICES ASSUME NEW f \in Linked, f \in finit', f \notin Uncached, f \notin Faulty
                 PROVE  hw'[f] = IF minit' /\ f \notin late'
                                 THEN follower_put_val(f, vals[f], mval, mmax)'
                                 ELSE vals'[f]
      BY <1>0 DEF Attenuated
    <3>1. f \in Follower /\ hw[f] \in Value(f) /\ vals[f] \in Value(f) /\ DOMAIN vals = Follower
      BY <1>0, <2>2 DEF ValuesOK
    <3>2. f \in finit => hw[f] = vals[f]
      BY <1>0, <1>2 DEF Attenuated
    <3>3. vals'[f] = hw[f]
      BY <1>0, <2>1, <3>1, <3>2, ReadValue
    <3>4. follower_put_val(f, hw[f], Top, Top) = hw[f]
      BY <1>0, <3>1, PutValue DEF MasterOK
    <3>5. QED
      BY <1>0, <2>1, <3>3, <3>4 DEF follower_put_val, Clamp
  <2>9. QED
    BY <2>4, <2>5, <2>6, <2>7, <2>8 DEF IInv
<1>3. QED
  BY <1>1, <1>2

(* A write of a follower is heard below the master, which it may be the    *)
(* first to use.                                                           *)
LEMMA FollowerWriteKeeps ==
  ASSUME IInv, NEW f \in Follower, NEW v \in Value(f), follower_put(f, v)
  PROVE  IInv'
<1>0. /\ ListOK /\ MasterOK /\ ValuesOK /\ ReadOK /\ Attenuated
      /\ UNCHANGED <<type, list, freed, hooked>> /\ f \in Linked
      /\ Top \in Int /\ Top' = Top /\ Linked' = Linked
  BY RangeAssumption DEF IInv, follower_put, Top, Linked
<1>1. Linked \subseteq Follower /\ list # <<>> /\ list[1] \in Linked /\ ~mfreed
  BY <1>0, LinkedFollowers DEF ListOK
<1>2. \A g \in Follower : Value(g)' = Value(g)
  BY <1>0 DEF Value
<1>3. CASE v = follower_init(f)
  <2>1. /\ vals' = [vals EXCEPT ![f] = v] /\ finit' = finit \cup {f}
        /\ UNCHANGED <<hw, late, mfreed, minit, mmax, mval, hookval>>
    BY <1>3 DEF follower_put, masterVars
  <2>2. ListOK' /\ MasterOK'
    BY <1>0, <2>1 DEF ListOK, MasterOK
  <2>3. ValuesOK' /\ ReadOK'
    BY <1>0, <1>2, <2>1 DEF ValuesOK, ReadOK
  <2>4. Attenuated'
    <3> SUFFICES ASSUME NEW g \in Linked, g \in finit', g \notin Uncached, g \notin Faulty
                 PROVE  hw'[g] = IF minit' /\ g \notin late'
                                 THEN follower_put_val(g, vals[g], mval, mmax)'
                                 ELSE vals'[g]
      BY <1>0 DEF Attenuated
    <3>1. CASE g \in finit
      <4>1. vals'[g] = vals[g]
        BY <1>0, <1>1, <1>3, <2>1, <3>1, ReadValue DEF ValuesOK
      <4>2. QED
        BY <1>0, <2>1, <3>1, <4>1 DEF Attenuated, follower_put_val, Clamp
    <3>2. CASE g \notin finit
      <4>1. g = f /\ vals'[g] = hw[g] /\ hw[g] \in Value(g)
        BY <1>0, <1>3, <2>1, <3>2, ReadValue DEF ValuesOK
      <4>2. minit /\ g \notin late => mval = Top /\ mmax = Top
        BY <1>0, <3>2 DEF ReadOK, MasterOK
      <4>3. follower_put_val(g, hw[g], Top, Top) = hw[g]
        BY <1>0, <4>1, PutValue DEF MasterOK
      <4>4. QED
        BY <1>0, <2>1, <4>1, <4>2, <4>3 DEF follower_put_val, Clamp
    <3>3. QED
      BY <3>1, <3>2
  <2>5. QED
    BY <2>2, <2>3, <2>4 DEF IInv
<1>4. CASE v # follower_init(f)
  <2> DEFINE read(g) == ~minit /\ g = list[1] /\ (g # f \/ g \in Uncached)
  <2>1. /\ minit' = TRUE /\ mmax' = Top /\ mval' = InitVal /\ UNCHANGED mfreed
        /\ InitVal \in Int /\ InitMax = Top
        /\ hookval' = hookval \/ hookval' = Top
    BY <1>0, <1>4 DEF follower_put, master_init, MasterOK, InitVal, InitMax
  <2>2. finit' = finit \cup {f} \/ (~minit /\ finit' = finit \cup {f, list[1]})
    BY <1>4 DEF follower_put, InitRead
  <2>3. /\ DOMAIN vals' = Follower
        /\ \A g \in Follower : vals'[g] = IF read(g) THEN follower_init(g) ELSE IF g = f THEN v ELSE vals[g]
    BY <1>4 DEF follower_put
  <2>4. \/ f \in Faulty /\ UNCHANGED <<hw, late>>
        \/ /\ f \notin Faulty /\ late' = late \ {f}
           /\ hw' = [hw EXCEPT ![f] = follower_put_val(f, v, InitVal, Top)]
    BY <1>4, <2>1 DEF follower_put
  <2>5. ListOK' /\ MasterOK'
    BY <1>0, <2>1 DEF ListOK, MasterOK
  <2>6. ValuesOK'
    <3>1. \A g \in Follower : vals'[g] \in Value(g)
      BY <1>0, <2>3, ReadValue DEF ValuesOK
    <3>2. follower_put_val(f, v, InitVal, Top) \in Value(f)
      BY <1>0, <2>1, PutValue DEF MasterOK
    <3>3. DOMAIN hw' = Follower /\ \A g \in Follower : hw'[g] \in Value(g)
      BY <1>0, <2>4, <3>2 DEF ValuesOK
    <3>4. QED
      BY <1>2, <2>3, <3>1, <3>3 DEF ValuesOK
  <2>7. ReadOK'
    <3>1. finit \cup {f} \subseteq finit' /\ finit' \subseteq Follower /\ (~mfreed' => finit' \subseteq Linked' \cup freed')
      BY <1>0, <1>1, <2>1, <2>2 DEF ReadOK
    <3>2. late' \subseteq Linked' /\ late \ {f} \subseteq late'
      BY <1>0, <2>4 DEF ReadOK
    <3>3. \A g \in Linked \ finit' : g \in late' \/ mval' = mmax'
      BY <1>0, <2>1, <3>1, <3>2 DEF ReadOK, InitVal, MasterOK
    <3>4. QED
      BY <1>0, <2>1, <3>1, <3>2, <3>3 DEF ReadOK
  <2>8. Attenuated'
    <3> SUFFICES ASSUME NEW g \in Linked, g \in finit', g \notin Uncached, g \notin Faulty
                 PROVE  hw'[g] = IF minit' /\ g \notin late'
                                 THEN follower_put_val(g, vals[g], mval, mmax)'
                                 ELSE vals'[g]
      BY <1>0 DEF Attenuated
    <3>1. g \in Follower /\ DOMAIN hw = Follower /\ hw[g] \in Value(g) /\ vals[g] \in Value(g)
      BY <1>0, <1>1 DEF ValuesOK
    <3>2. CASE g = f
      <4>1. vals'[g] = v /\ hw'[g] = follower_put_val(f, v, InitVal, Top) /\ g \notin late'
        BY <2>3, <2>4, <3>1, <3>2
      <4>2. QED
        BY <1>0, <2>1, <3>2, <4>1 DEF follower_put_val, Clamp
    <3>3. CASE g # f
      <4>1. hw'[g] = hw[g] /\ (g \in late' <=> g \in late)
        BY <2>4, <3>1, <3>3
      <4>2. CASE minit
        <5>1. g \in finit /\ vals'[g] = vals[g] /\ mval' = mval /\ mmax' = mmax
          BY <1>0, <2>1, <2>2, <2>3, <3>1, <3>3, <4>2 DEF InitVal, MasterOK
        <5>2. QED
          BY <1>0, <2>1, <4>1, <4>2, <5>1 DEF Attenuated, follower_put_val, Clamp
      <4>3. CASE ~minit
        <5>1. g \in finit => hw[g] = vals[g]
          BY <1>0, <4>3 DEF Attenuated
        <5>2. vals'[g] = hw[g]
          BY <1>0, <2>2, <2>3, <3>1, <3>3, <4>3, <5>1, ReadValue
        <5>3. follower_put_val(g, hw[g], Top, Top) = hw[g] /\ mval' = Top
          BY <1>0, <2>1, <3>1, <4>3, PutValue DEF MasterOK, InitVal
        <5>4. QED
          BY <1>0, <2>1, <4>1, <5>2, <5>3 DEF follower_put_val, Clamp
      <4>4. QED
        BY <4>2, <4>3
    <3>4. QED
      BY <3>2, <3>3
  <2>9. QED
    BY <2>5, <2>6, <2>7, <2>8 DEF IInv
<1>5. QED
  BY <1>3, <1>4

----------------------------------------------------------------------------
(* The invariant *)

(* In the initial state nothing is in the list and nothing is read.        *)
LEMMA InitIInv == Init => IInv
<1> SUFFICES ASSUME Init PROVE IInv
  OBVIOUS
<1>1. Linked = {} /\ Top \in Nat
  BY RangeAssumption DEF Init, Linked, Top
<1>2. ListOK
  <2>1. <<>> \in Seq(Follower \ freed) /\ DOMAIN list = {}
    BY DEF Init
  <2>2. QED
    BY <2>1 DEF Init, ListOK
<1>3. MasterOK /\ ReadOK
  <2>1. MasterOK
    <3>1. 0 \in Int /\ minit = FALSE /\ hooked = FALSE
      BY DEF Init
    <3>2. QED
      BY <3>1, Zenon DEF Init, MasterOK
  <2>2. ReadOK
    BY <1>1 DEF Init, ReadOK
  <2>3. QED
    BY <2>1, <2>2
<1>4. ValuesOK
  BY <1>1 DEF Init, ValuesOK, Value
<1>5. QED
  BY <1>1, <1>2, <1>3, <1>4 DEF IInv, Attenuated

(* Every action keeps it.                                                  *)
LEMMA NextIInv == IInv /\ [Next]_vars => IInv'
<1> SUFFICES ASSUME IInv, [Next]_vars PROVE IInv'
  OBVIOUS
<1>0. /\ ListOK /\ MasterOK /\ ValuesOK /\ ReadOK /\ Attenuated
      /\ Linked \subseteq Follower \ freed /\ Top \in Int
  BY LinkedFollowers, RangeAssumption DEF IInv, Top
<1>1. ASSUME NEW f \in Follower, snd_ctl_add_follower(f) PROVE IInv'
  <2>1. /\ ~mfreed /\ f \notin Linked \cup freed
        /\ list' = Append(list, f)
        /\ late' = IF minit /\ mval # mmax THEN late \cup {f} ELSE late
        /\ UNCHANGED <<type, hw, freed, finit, vals, mfreed, minit, mmax, mval, hooked, hookval>>
    BY <1>1 DEF snd_ctl_add_follower, masterVars, hookVars
  <2>2. /\ DOMAIN list = 1 .. Len(list) /\ Len(list) \in Nat
        /\ DOMAIN list' = 1 .. Len(list) + 1
        /\ \A i \in DOMAIN list' : list'[i] = IF i \in DOMAIN list THEN list[i] ELSE f
    BY <1>0, <2>1 DEF ListOK
  <2>3. Linked' = Linked \cup {f}
    <3>1. list'[Len(list) + 1] = f /\ Len(list) + 1 \in DOMAIN list'
      BY <2>2
    <3>2. \A i \in DOMAIN list : i \in DOMAIN list' /\ list'[i] = list[i]
      BY <2>2
    <3>3. \A i \in DOMAIN list' : list'[i] \in Linked \cup {f}
      BY <2>2 DEF Linked
    <3>4. QED
      BY <3>1, <3>2, <3>3 DEF Linked
  <2>4. ListOK'
    <3>1. list' \in Seq(Follower \ freed)
      BY <1>0, <2>1 DEF ListOK
    <3>2. \A i \in DOMAIN list : list[i] # f
      BY <2>1 DEF Linked
    <3>3. \A i, j \in DOMAIN list' : list'[i] = list'[j] => i = j
      BY <1>0, <2>2, <3>2 DEF ListOK
    <3>4. QED
      BY <1>0, <2>1, <3>1, <3>3 DEF ListOK
  <2>5. MasterOK' /\ ValuesOK'
    BY <1>0, <2>1 DEF MasterOK, ValuesOK, Value, Top
  <2>6. f \notin finit
    BY <1>0, <2>1 DEF ReadOK
  <2>7. ReadOK'
    BY <1>0, <2>1, <2>3 DEF ReadOK
  <2>8. Attenuated'
    <3> SUFFICES ASSUME NEW g \in Linked, g \in finit, g \notin Uncached, g \notin Faulty
                 PROVE  hw'[g] = IF minit' /\ g \notin late'
                                 THEN follower_put_val(g, vals[g], mval, mmax)'
                                 ELSE vals'[g]
      BY <2>1, <2>3, <2>6 DEF Attenuated
    <3>1. g \in late' <=> g \in late
      BY <2>1, <2>6
    <3>2. QED
      BY <1>0, <2>1, <3>1 DEF Attenuated, follower_put_val, Clamp, Top
  <2>9. QED
    BY <2>4, <2>5, <2>7, <2>8 DEF IInv
<1>2. ASSUME NEW f \in Follower, PlainPut(f) PROVE IInv'
  <2>1. /\ f \notin Linked \/ f \in Uncached
        /\ UNCHANGED <<type, list, freed, finit, vals, mfreed, minit, mmax, mval, hooked, hookval, late>>
    BY <1>2 DEF PlainPut, masterVars, hookVars
  <2>2. PICK v \in Value(f) : hw' = [hw EXCEPT ![f] = v]
    BY <1>2 DEF PlainPut
  <2>3. ListOK' /\ MasterOK' /\ ReadOK' /\ Linked' = Linked
    BY <1>0, <2>1 DEF ListOK, MasterOK, ReadOK, Top, Linked
  <2>4. ValuesOK'
    BY <1>0, <2>1, <2>2 DEF ValuesOK, Value, Top
  <2>5. Attenuated'
    <3>1. \A g \in Linked \ Uncached : hw'[g] = hw[g]
      BY <1>0, <2>1, <2>2 DEF ValuesOK
    <3>2. QED
      BY <1>0, <2>1, <2>3, <3>1 DEF Attenuated, follower_put_val, Clamp, Top
  <2>6. QED
    BY <2>3, <2>4, <2>5 DEF IInv
<1>3. ASSUME NEW f \in Follower, follower_get(f) PROVE IInv'
  <2>1. /\ f \in Linked /\ vals' = [vals EXCEPT ![f] = follower_init(f)] /\ finit' = finit \cup {f}
        /\ UNCHANGED <<type, hw, list, freed, mfreed, minit, mmax, mval, hooked, hookval, missed, late>>
    BY <1>3 DEF follower_get, masterVars, hookVars
  <2>2. follower_init(f) \in Value(f)
    BY <1>0, ReadValue
  <2>3. CASE ~mfreed
    <3>1. follower_put(f, follower_init(f))
      BY <2>1 DEF follower_put, masterVars
    <3>2. QED
      BY <2>2, <3>1, FollowerWriteKeeps
  <2>4. CASE mfreed
    BY <1>0, <2>1, <2>4, LinkedFollowers
  <2>5. QED
    BY <2>3, <2>4
<1>4. ASSUME NEW f \in Follower, NEW v \in Value(f), follower_put(f, v) PROVE IInv'
  BY <1>4, FollowerWriteKeeps
<1>5. ASSUME NEW f \in Follower, follower_free(f) PROVE IInv'
  <2>1. /\ f \in Linked /\ list' = list_del(f) /\ freed' = freed \cup {f} /\ late' = late \ {f}
        /\ UNCHANGED <<type, hw, finit, vals, mfreed, minit, mmax, mval, hooked, hookval>>
    BY <1>5 DEF follower_free, masterVars, hookVars
  <2>2. ListOK' /\ Linked' = Linked \ {f}
    BY <1>0, <2>1, DeletesOne
  <2>3. MasterOK' /\ ValuesOK'
    BY <1>0, <2>1 DEF MasterOK, ValuesOK, Value, Top
  <2>4. ReadOK'
    BY <1>0, <2>1, <2>2 DEF ReadOK
  <2>5. Attenuated'
    BY <1>0, <2>1, <2>2 DEF Attenuated, follower_put_val, Clamp, Top
  <2>6. QED
    BY <2>2, <2>3, <2>4, <2>5 DEF IInv
<1>6. ASSUME master_get PROVE IInv'
  BY <1>6, FirstUseKeeps
<1>7. ASSUME NEW new \in MasterValue, master_put(new) PROVE IInv'
  <2>1. CASE new = InitVal
    BY <1>7, <2>1, FirstUseKeeps DEF master_put
  <2>2. CASE new # InitVal
    <3>1. /\ sync_followers(new, InitMax) /\ (minit \/ list # <<>>)
          /\ minit' = TRUE /\ mmax' = InitMax
          /\ hookval' = IF ~hooked THEN hookval ELSE IF minit THEN mval' ELSE InitVal
          /\ UNCHANGED <<type, list, freed, mfreed, hooked>>
      BY <1>7, <2>2 DEF master_put
    <3>2. new \in Int
      BY RangeAssumption
    <3>3. ValuesOK' /\ ReadOK' /\ Attenuated' /\ mmax' = Top /\ mval' \in Int
      BY <3>1, <3>2, SyncKeeps
    <3>4. InitVal \in Int
      BY <1>0 DEF InitVal, MasterOK
    <3>5. ListOK' /\ MasterOK'
      BY <1>0, <3>1, <3>3, <3>4 DEF ListOK, MasterOK, Top
    <3>6. QED
      BY <3>3, <3>5 DEF IInv
  <2>3. QED
    BY <2>1, <2>2
<1>8. ASSUME snd_ctl_add_vmaster_hook PROVE IInv'
  <2>1. /\ hooked' = TRUE
        /\ UNCHANGED <<type, hw, list, freed, finit, vals, mfreed, minit, mmax, mval, hookval, late>>
    BY <1>8 DEF snd_ctl_add_vmaster_hook, masterVars
  <2>2. ListOK' /\ MasterOK' /\ ValuesOK' /\ ReadOK'
    BY <1>0, <2>1 DEF ListOK, MasterOK, ValuesOK, ReadOK, Value, Top, Linked
  <2>3. Attenuated'
    BY <1>0, <2>1 DEF Attenuated, follower_put_val, Clamp, Top, Linked
  <2>4. QED
    BY <2>2, <2>3 DEF IInv
<1>9. ASSUME snd_ctl_sync_vmaster PROVE IInv'
  <2>1. /\ sync_followers(InitVal, InitMax) /\ (minit \/ list # <<>>)
        /\ minit' = TRUE /\ mmax' = InitMax
        /\ hookval' = IF hooked THEN InitVal ELSE hookval
        /\ UNCHANGED <<type, list, freed, mfreed, hooked>>
    BY <1>9 DEF snd_ctl_sync_vmaster
  <2>2. InitVal \in Int
    BY <1>0 DEF InitVal, MasterOK
  <2>3. ValuesOK' /\ ReadOK' /\ Attenuated' /\ mmax' = Top /\ mval' \in Int
    BY <2>1, <2>2, SyncKeeps
  <2>4. ListOK' /\ MasterOK'
    BY <1>0, <2>1, <2>2, <2>3 DEF ListOK, MasterOK, Top
  <2>5. QED
    BY <2>3, <2>4 DEF IInv
<1>10. ASSUME snd_ctl_sync_vmaster_hook PROVE IInv'
  <2>1. /\ hookval' = mval
        /\ UNCHANGED <<type, hw, list, freed, finit, vals, mfreed, minit, mmax, mval, hooked, late>>
    BY <1>10 DEF snd_ctl_sync_vmaster_hook, masterVars
  <2>2. ListOK' /\ MasterOK' /\ ValuesOK' /\ ReadOK'
    BY <1>0, <2>1 DEF ListOK, MasterOK, ValuesOK, ReadOK, Value, Top, Linked
  <2>3. Attenuated'
    BY <1>0, <2>1 DEF Attenuated, follower_put_val, Clamp, Top, Linked
  <2>4. QED
    BY <2>2, <2>3 DEF IInv
<1>11. ASSUME master_free PROVE IInv'
  <2>1. /\ mfreed' = TRUE /\ list' = <<>> /\ late' = {}
        /\ UNCHANGED <<type, hw, freed, finit, vals, minit, mmax, mval, hooked, hookval>>
    BY <1>11 DEF master_free, hookVars
  <2>2. Linked' = {}
    BY <2>1 DEF Linked
  <2>3. ListOK'
    BY <1>0, <2>1 DEF ListOK
  <2>4. MasterOK' /\ ValuesOK' /\ ReadOK'
    BY <1>0, <2>1, <2>2 DEF MasterOK, ValuesOK, ReadOK, Value, Top
  <2>5. QED
    BY <2>2, <2>3, <2>4 DEF IInv, Attenuated
<1>12. ASSUME UNCHANGED vars PROVE IInv'
  <2>1. UNCHANGED <<type, hw, list, freed, finit, vals, mfreed, minit, mmax, mval, hooked, hookval, late>>
    BY <1>12 DEF vars, masterVars, hookVars
  <2>2. ListOK' /\ MasterOK' /\ ValuesOK' /\ ReadOK'
    BY <1>0, <2>1 DEF ListOK, MasterOK, ValuesOK, ReadOK, Value, Top, Linked
  <2>3. Attenuated'
    BY <1>0, <2>1 DEF Attenuated, follower_put_val, Clamp, Top, Linked
  <2>4. QED
    BY <2>2, <2>3 DEF IInv
<1>13. QED
  BY <1>1, <1>2, <1>3, <1>4, <1>5, <1>6, <1>7, <1>8, <1>9, <1>10, <1>11, <1>12 DEF Next

(* Only a hook is called, and only a hook is passed by.                    *)
HookOK ==
  /\ missed \in BOOLEAN /\ (missed => minit)
  /\ ~hooked => hookval = NotCalled /\ ~missed
  /\ HookKnows

(* The first use calls the hook with the value it gives the master, and a  *)
(* master in use gets a new one only with a call of the hook.              *)
LEMMA HookStep == IInv /\ HookOK /\ [Next]_vars => HookOK'
<1> SUFFICES ASSUME IInv, HookOK, [Next]_vars PROVE HookOK'
  OBVIOUS
<1> USE DEF HookOK, HookKnows
<1>0. /\ minit \in BOOLEAN /\ hooked \in BOOLEAN
      /\ minit => InitVal = mval /\ InitMax = mmax
      /\ ~minit => InitVal = Top /\ InitMax = Top
  BY DEF IInv, MasterOK, InitVal, InitMax
<1>1. ASSUME master_init, mval' = InitVal, UNCHANGED <<hooked, missed>> PROVE HookOK'
  <2>1. CASE minit
    BY <1>0, <1>1, <2>1 DEF master_init
  <2>2. CASE ~minit
    BY <1>0, <1>1, <2>2 DEF master_init
  <2>3. QED
    BY <1>0, <2>1, <2>2
<1>2. ASSUME UNCHANGED <<minit, mmax, mval, hooked, hookval, missed>> PROVE HookOK'
  BY <1>2
<1>3. ASSUME NEW f \in Follower, NEW v \in Value(f), follower_put(f, v) PROVE HookOK'
  <2>1. CASE v = follower_init(f)
    BY <1>2, <1>3, <2>1 DEF follower_put, masterVars
  <2>2. CASE v # follower_init(f)
    BY <1>1, <1>3, <2>2 DEF follower_put
  <2>3. QED
    BY <2>1, <2>2
<1>4. CASE master_get
  BY <1>1, <1>4 DEF master_get
<1>5. ASSUME NEW new \in MasterValue, master_put(new) PROVE HookOK'
  <2>1. CASE new = InitVal
    BY <1>4, <1>5, <2>1 DEF master_put
  <2>2. CASE new # InitVal
    <3>1. /\ minit' = TRUE /\ mmax' = InitMax /\ hooked' = hooked /\ missed' = (hooked /\ ~minit)
          /\ hookval' = IF ~hooked THEN hookval ELSE IF minit THEN mval' ELSE InitVal
      BY <1>5, <2>2 DEF master_put
    <3>2. QED
      BY <1>0, <3>1
  <2>3. QED
    BY <2>1, <2>2
<1>6. CASE snd_ctl_sync_vmaster
  <2>1. mval' = InitVal
    BY <1>6 DEF snd_ctl_sync_vmaster, sync_followers
  <2>2. QED
    BY <1>0, <1>6, <2>1 DEF snd_ctl_sync_vmaster
<1>7. CASE snd_ctl_sync_vmaster_hook \/ snd_ctl_add_vmaster_hook
  <2>1. CASE snd_ctl_sync_vmaster_hook
    <3>1. hooked' = TRUE /\ hookval' = mval /\ missed' = FALSE /\ mval' = mval
      BY <1>0, <2>1 DEF snd_ctl_sync_vmaster_hook, masterVars
    <3>2. QED
      BY <3>1
  <2>2. CASE snd_ctl_add_vmaster_hook
    <3>1. hooked' = TRUE /\ UNCHANGED <<minit, mmax, mval, hookval, missed>>
      BY <2>2 DEF snd_ctl_add_vmaster_hook, masterVars
    <3>2. QED
      BY <3>1
  <2>3. QED
    BY <1>7, <2>1, <2>2
<1>8. ASSUME NEW f \in Follower,
             snd_ctl_add_follower(f) \/ PlainPut(f) \/ follower_get(f) \/ follower_free(f)
      PROVE  HookOK'
  BY <1>2, <1>8 DEF snd_ctl_add_follower, PlainPut, follower_get, follower_free, masterVars, hookVars
<1>9. CASE master_free \/ UNCHANGED vars
  BY <1>2, <1>9 DEF master_free, vars, masterVars, hookVars
<1>10. QED
  BY <1>3, <1>4, <1>5, <1>6, <1>7, <1>8, <1>9 DEF Next

(* The invariant holds in every reachable state.                           *)
THEOREM VmasterInvariant == Spec => [](IInv /\ HookOK)
<1>1. Init => IInv /\ HookOK
  BY InitIInv DEF Init, HookOK, HookKnows
<1>2. IInv /\ HookOK /\ [Next]_vars => IInv' /\ HookOK'
  BY NextIInv, HookStep
<1>3. QED
  BY <1>1, <1>2, PTL DEF Spec

----------------------------------------------------------------------------
(* Every variable keeps its type, and the list is as short as the number   *)
(* of controls.                                                            *)
THEOREM TypeCorrect == Spec => []TypeOK
<1>1. IInv /\ HookOK => TypeOK
  <2> SUFFICES ASSUME IInv, HookOK PROVE TypeOK
    OBVIOUS
  <2>1. ListOK /\ MasterOK /\ ValuesOK /\ ReadOK
    BY DEF IInv
  <2>2. DOMAIN list \subseteq 1 .. Cardinality(Follower) /\ Linked \subseteq Follower \ freed
    BY <2>1, ListIsShort, LinkedFollowers
  <2>3. mmax \in 0 .. Top
    BY <2>1, RangeAssumption DEF MasterOK, Top
  <2>4. QED
    BY <2>1, <2>2, <2>3 DEF TypeOK, ListOK, MasterOK, ValuesOK, ReadOK, HookOK
<1>2. QED
  BY <1>1, VmasterInvariant, PTL

(* What is heard of a cached follower that takes its values is the user's  *)
(* value below the master's, whatever was added, used, written, removed or *)
(* failed before.                                                          *)
THEOREM HeardBelowMaster == Spec => []Attenuated
<1>1. IInv => Attenuated
  BY DEF IInv
<1>2. QED
  BY <1>1, VmasterInvariant, PTL

(* The hook believes the master's value in every order of installing it,   *)
(* first use, writes, syncs and removals, but for a write that is the      *)
(* first use, of which it believes the top until the next change or sync   *)
(* (master_init, master_put, snd_ctl_sync_vmaster).                        *)
THEOREM HookKnowsMaster == Spec => []HookKnows
<1>1. HookOK => HookKnows
  BY DEF HookOK
<1>2. QED
  BY <1>1, VmasterInvariant, PTL

(* Nothing but its own write changes the user's value of a cached          *)
(* follower, and to what was written.  A move of the master within its     *)
(* range never raises an uncached one.                                     *)
THEOREM UserValuesSurvive == Spec => UserValueKept
<1> DEFINE Only(f) == vals'[f] # vals[f] => follower_put(f, vals'[f])
           Lower(f, c) == c \in Chan(f) => hw'[f][c] <= hw[f][c]
<1>1. IInv /\ [Next]_vars => [\A f \in (Linked \cap finit) \ Uncached : Only(f)]_vars
  <2> SUFFICES ASSUME IInv, Next, NEW f \in (Linked \cap finit) \ Uncached, vals'[f] # vals[f]
               PROVE  follower_put(f, vals'[f])
    OBVIOUS
  <2>0. /\ ListOK /\ MasterOK /\ ValuesOK /\ ReadOK /\ Linked \subseteq Follower /\ finit \subseteq Follower
        /\ DOMAIN vals = Follower /\ (minit => InitVal = mval)
    BY LinkedFollowers DEF IInv, ValuesOK, ReadOK, InitVal
  <2>1. \A g \in finit \ Uncached : follower_init(g) = vals[g]
    BY <2>0, ReadValue
  <2>2. ASSUME NEW new, NEW top, sync_followers(new, top) PROVE FALSE
    BY <2>0, <2>1, <2>2 DEF sync_followers
  <2>3. ASSUME master_get PROVE FALSE
    BY <2>0, <2>1, <2>3 DEF master_get
  <2>4. ASSUME NEW new \in MasterValue, master_put(new) PROVE FALSE
    BY <2>2, <2>3, <2>4 DEF master_put
  <2>5. ASSUME NEW h \in Follower, follower_get(h) PROVE FALSE
    BY <2>0, <2>1, <2>5 DEF follower_get
  <2>6. ASSUME NEW h \in Follower, NEW v \in Value(h), follower_put(h, v)
        PROVE  follower_put(f, vals'[f])
    <3>1. f = h
      BY <2>0, <2>1, <2>6 DEF follower_put
    <3>2. vals'[f] = v
      <4>1. CASE v = follower_init(f)
        BY <2>0, <2>6, <3>1, <4>1 DEF follower_put
      <4>2. CASE v # follower_init(f)
        BY <2>0, <2>6, <3>1, <4>2 DEF follower_put
      <4>3. QED
        BY <4>1, <4>2
    <3>3. QED
      BY <2>6, <3>1, <3>2
  <2>7. ASSUME NEW h \in Follower, snd_ctl_add_follower(h) \/ PlainPut(h) \/ follower_free(h) PROVE FALSE
    BY <2>7 DEF snd_ctl_add_follower, PlainPut, follower_free
  <2>8. ~snd_ctl_add_vmaster_hook /\ ~snd_ctl_sync_vmaster_hook /\ ~master_free /\ ~snd_ctl_sync_vmaster
    BY <2>2 DEF snd_ctl_add_vmaster_hook, snd_ctl_sync_vmaster_hook, master_free, snd_ctl_sync_vmaster
  <2>9. QED
    BY <2>3, <2>4, <2>5, <2>6, <2>7, <2>8 DEF Next
<1>2. IInv /\ [Next]_vars =>
        [minit /\ mval' # mval /\ mval' <= mmax =>
           \A f \in Linked \cap Uncached, c \in 0 .. 1 : Lower(f, c)]_vars
  <2> SUFFICES ASSUME IInv, Next, minit, mval' # mval, mval' <= mmax,
                      NEW f \in Linked \cap Uncached, NEW c \in Chan(f)
               PROVE  hw'[f][c] <= hw[f][c]
    OBVIOUS
  <2>0. /\ ListOK /\ MasterOK /\ ValuesOK /\ Linked \subseteq Follower /\ Top \in Nat
        /\ InitVal = mval /\ InitMax = Top /\ mmax = Top
        /\ hw[f] \in Value(f) /\ follower_init(f) = hw[f] /\ hw[f][c] \in Int
    <3>1. ListOK /\ MasterOK /\ ValuesOK /\ Top \in Nat
      BY RangeAssumption DEF IInv, Top
    <3>2. Linked \subseteq Follower
      BY <3>1, LinkedFollowers
    <3>3. hw[f] \in Value(f) /\ follower_init(f) = hw[f]
      BY <3>1, <3>2, ReadValue DEF ValuesOK
    <3>4. hw[f][c] \in Int
      BY <3>1, <3>3 DEF Value
    <3>5. InitVal = mval /\ InitMax = Top /\ mmax = Top
      BY <3>1 DEF MasterOK, InitVal, InitMax
    <3>6. QED
      BY <3>1, <3>2, <3>3, <3>4, <3>5
  <2>1. ASSUME NEW new \in MasterValue, master_put(new) PROVE hw'[f][c] <= hw[f][c]
    <3>1. sync_followers(new, Top)
      BY <2>0, <2>1 DEF master_put, master_get
    <3>2. hw'[f] = IF f \in Faulty THEN hw[f] ELSE follower_put_val(f, hw[f], new, Top)
      BY <2>0, <3>1 DEF sync_followers
    <3>3. list # <<>> /\ mval' = new /\ new \in Int /\ new <= Top
      BY <2>0, <3>1, LinkedFollowers, RangeAssumption DEF sync_followers
    <3>4. follower_put_val(f, hw[f], new, Top)[c] <= hw[f][c]
      BY <2>0, <3>3, PutValue DEF MasterOK
    <3>5. QED
      BY <2>0, <3>2, <3>4
  <2>2. ASSUME snd_ctl_sync_vmaster PROVE FALSE
    BY <2>0, <2>2 DEF snd_ctl_sync_vmaster, sync_followers
  <2>3. ASSUME NEW h \in Follower, NEW v \in Value(h), follower_put(h, v) PROVE FALSE
    BY <2>0, <2>3 DEF follower_put, masterVars
  <2>4. ASSUME NEW h \in Follower,
               snd_ctl_add_follower(h) \/ PlainPut(h) \/ follower_get(h) \/ follower_free(h)
        PROVE  FALSE
    BY <2>4 DEF snd_ctl_add_follower, PlainPut, follower_get, follower_free, masterVars
  <2>5. ~master_get /\ ~snd_ctl_add_vmaster_hook /\ ~snd_ctl_sync_vmaster_hook /\ ~master_free
    BY <2>0 DEF master_get, snd_ctl_add_vmaster_hook, snd_ctl_sync_vmaster_hook, master_free, masterVars
  <2>6. QED
    BY <2>1, <2>2, <2>3, <2>4, <2>5 DEF Next
<1>3. QED
  BY <1>1, <1>2, VmasterInvariant, PTL DEF Spec, UserValueKept
=============================================================================
