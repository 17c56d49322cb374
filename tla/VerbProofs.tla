----------------------------- MODULE VerbProofs -----------------------------
(***************************************************************************)
(* What verbs store, for any widths and values: the list of coefficients   *)
(* of a widget implements the memory of CoefMemory, the cache of a codec's *)
(* vendor verbs the registers of VendorRegs, both step by step.  Both are  *)
(* lists that are searched from their head.                                *)
(***************************************************************************)
EXTENDS Coef, Vendor, WellFoundedInduction, TLAPS

Least(S) == CHOOSE i \in S : \A j \in S : i <= j

(* A least element is the only one, so the search returns it.              *)
LEMMA LeastIs ==
  ASSUME NEW S \in SUBSET Nat, NEW k \in S, \A j \in S : k <= j
  PROVE  Least(S) = k
<1>1. \A i \in S : (\A j \in S : i <= j) => i = k
  OBVIOUS
<1>2. QED
  BY <1>1 DEF Least

(* A set of numbers that is not empty has a least element.                 *)
LEMMA LeastIn ==
  ASSUME NEW S \in SUBSET Nat, S # {}
  PROVE  Least(S) \in S /\ \A j \in S : Least(S) <= j
<1>1. PICK i \in S : \A j \in S : ~(<<j, i>> \in OpToRel(<, Nat))
  BY NatLessThanWellFounded, WFMin
<1>2. \A j \in S : <<j, i>> \in OpToRel(<, Nat) <=> j < i
  BY Zenon DEF OpToRel
<1>3. \A j \in S : ~(j < i)
  BY <1>1, <1>2, Zenon
<1>4. \A j \in S : i <= j
  BY <1>3
<1>5. QED
  BY <1>4, LeastIs

----------------------------------------------------------------------------
(* The coefficients *)

Entry == [idx : Index, value : Value]

OneEntryEach == \A i, j \in DOMAIN coef_tbl : coef_tbl[i].idx = coef_tbl[j].idx => i = j

(* An index is cut to the width of the stored one, and kept if it fits.    *)
LEMMA CutIndex ==
  ASSUME NEW n \in Nat
  PROVE  n % IdxSpace \in Index /\ (n \in Index => n % IdxSpace = n)
BY IdxSpaceAssumption DEF Index

(* The search finds the first entry of an index, by which it is read.      *)
LEMMA FindsFirst ==
  ASSUME coef_tbl \in Seq(Entry), NEW i, Matches(i) # {}
  PROVE  /\ find_proc_coef(i) \in Matches(i)
         /\ \A j \in Matches(i) : find_proc_coef(i) <= j
         /\ i \in Index
<1>1. Matches(i) \subseteq DOMAIN coef_tbl /\ DOMAIN coef_tbl \subseteq Nat
  BY DEF Matches
<1>2. find_proc_coef(i) = Least(Matches(i))
  BY DEF find_proc_coef, Least
<1>3. PICK j \in DOMAIN coef_tbl : coef_tbl[j].idx = i
  BY DEF Matches
<1>4. coef_tbl[j] \in Entry
  BY <1>3
<1>5. QED
  BY <1>1, <1>2, <1>3, <1>4, LeastIn DEF Entry

(* What storing a value does: the coefficient that the low bits of the     *)
(* index name reads as the value, every other one as before, whether the   *)
(* search finds an entry or one is created in front of the list.           *)
LEMMA StoreIsWrite ==
  ASSUME coef_tbl \in Seq(Entry), NEW n \in Nat, NEW v \in Value, store_proc_coef(n, v)
  PROVE  /\ coef_tbl' \in Seq(Entry)
         /\ \A i \in Index : ValueAt(i)' = IF i = n % IdxSpace THEN v ELSE ValueAt(i)
         /\ OneEntryEach /\ n \in Index => OneEntryEach'
<1>0. /\ Len(coef_tbl) \in Nat /\ DOMAIN coef_tbl = 1 .. Len(coef_tbl)
      /\ \A i \in DOMAIN coef_tbl : coef_tbl[i] \in Entry
  OBVIOUS
<1>1. CASE Matches(n) # {}
  <2> DEFINE k == find_proc_coef(n)
  <2>1. k \in DOMAIN coef_tbl /\ coef_tbl[k].idx = n /\ n \in Index
    BY <1>1, FindsFirst DEF Matches
  <2>2. coef_tbl' = [coef_tbl EXCEPT ![k].value = v]
    BY <1>1 DEF store_proc_coef
  <2> HIDE DEF k
  <2>3. /\ DOMAIN coef_tbl' = DOMAIN coef_tbl
        /\ \A i \in DOMAIN coef_tbl : coef_tbl'[i] \in Entry /\ coef_tbl'[i].idx = coef_tbl[i].idx
                                      /\ coef_tbl'[i].value = IF i = k THEN v ELSE coef_tbl[i].value
    BY <1>0, <2>1, <2>2 DEF Entry
  <2>4. coef_tbl' \in Seq(Entry)
    <3>1. coef_tbl' \in [1 .. Len(coef_tbl) -> Entry]
      BY <1>0, <2>2, <2>3
    <3>2. QED
      BY <1>0, <3>1
  <2>5. ASSUME NEW i \in Index PROVE ValueAt(i)' = IF i = n % IdxSpace THEN v ELSE ValueAt(i)
    <3>1. Matches(i)' = Matches(i)
      BY <2>3 DEF Matches
    <3>2. find_proc_coef(i)' = find_proc_coef(i)
      BY <3>1 DEF find_proc_coef
    <3>3. n % IdxSpace = n
      BY <2>1, CutIndex
    <3>4. CASE i = n
      BY <1>1, <2>1, <2>3, <3>1, <3>2, <3>3, <3>4 DEF ValueAt, k
    <3>5. CASE i # n /\ Matches(i) # {}
      <4>1. find_proc_coef(i) \in DOMAIN coef_tbl /\ coef_tbl[find_proc_coef(i)].idx = i
        BY <3>5, FindsFirst DEF Matches
      <4>2. find_proc_coef(i) # k
        BY <2>1, <3>5, <4>1
      <4>3. QED
        BY <2>3, <3>1, <3>2, <3>3, <3>5, <4>1, <4>2 DEF ValueAt
    <3>6. CASE i # n /\ Matches(i) = {}
      BY <3>1, <3>3, <3>6 DEF ValueAt
    <3>7. QED
      BY <3>4, <3>5, <3>6
  <2>6. OneEntryEach => OneEntryEach'
    BY <2>3 DEF OneEntryEach
  <2>7. QED
    BY <2>4, <2>5, <2>6
<1>2. CASE Matches(n) = {}
  <2> DEFINE m == n % IdxSpace
             e == [idx |-> m, value |-> v]
  <2>1. m \in Index /\ (n \in Index => m = n)
    BY CutIndex
  <2>2. coef_tbl' = <<e>> \o coef_tbl
    BY <1>2 DEF store_proc_coef, create_proc_coef
  <2>3. e \in Entry /\ e.idx = m /\ e.value = v
    BY <2>1 DEF Entry
  <2> HIDE DEF e, m
  <2>4. /\ coef_tbl' \in Seq(Entry) /\ DOMAIN coef_tbl' = 1 .. Len(coef_tbl) + 1
        /\ coef_tbl'[1] = e /\ \A i \in DOMAIN coef_tbl : coef_tbl'[i + 1] = coef_tbl[i]
    BY <1>0, <2>2, <2>3
  <2>5. \A j \in DOMAIN coef_tbl' : j = 1 \/ (j - 1 \in DOMAIN coef_tbl /\ coef_tbl'[j] = coef_tbl[j - 1])
    BY <1>0, <2>4
  <2>6. ASSUME NEW i \in Index PROVE ValueAt(i)' = IF i = m THEN v ELSE ValueAt(i)
    <3>1. find_proc_coef(i)' = Least(Matches(i)') /\ Matches(i)' \subseteq Nat
      BY <1>0, <2>4 DEF find_proc_coef, Least, Matches
    <3>2. CASE i = m
      <4>1. 1 \in Matches(i)' /\ \A j \in Matches(i)' : 1 <= j
        BY <1>0, <2>3, <2>4, <3>2 DEF Matches
      <4>2. find_proc_coef(i)' = 1
        BY <3>1, <4>1, LeastIs
      <4>3. QED
        BY <2>3, <2>4, <3>2, <4>1, <4>2 DEF ValueAt
    <3>3. CASE i # m /\ Matches(i) = {}
      <4>1. Matches(i)' = {}
        BY <2>3, <2>4, <2>5, <3>3 DEF Matches
      <4>2. QED
        BY <3>3, <4>1 DEF ValueAt
    <3>4. CASE i # m /\ Matches(i) # {}
      <4> DEFINE k == find_proc_coef(i)
      <4>1. k \in DOMAIN coef_tbl /\ coef_tbl[k].idx = i /\ \A j \in Matches(i) : k <= j
        BY <3>4, FindsFirst DEF Matches
      <4> HIDE DEF k
      <4>2. k + 1 \in Matches(i)'
        BY <1>0, <2>4, <4>1 DEF Matches
      <4>3. \A j \in Matches(i)' : k + 1 <= j
        BY <1>0, <2>3, <2>4, <2>5, <3>4, <4>1 DEF Matches
      <4>4. find_proc_coef(i)' = k + 1
        BY <3>1, <4>2, <4>3, LeastIs
      <4>5. ValueAt(i)' = coef_tbl'[k + 1].value /\ ValueAt(i) = coef_tbl[k].value
        BY <3>4, <4>2, <4>4 DEF ValueAt, k
      <4>6. QED
        BY <2>4, <3>4, <4>1, <4>5
    <3>5. QED
      BY <3>2, <3>3, <3>4
  <2>7. ASSUME OneEntryEach, n \in Index PROVE OneEntryEach'
    <3>1. \A i \in DOMAIN coef_tbl : coef_tbl[i].idx # m
      BY <1>2, <2>1, <2>7 DEF Matches
    <3>2. ASSUME NEW i \in DOMAIN coef_tbl', NEW j \in DOMAIN coef_tbl', coef_tbl'[i].idx = coef_tbl'[j].idx
          PROVE  i = j
      <4>1. CASE i = 1 /\ j = 1
        BY <4>1
      <4>2. CASE i = 1 /\ j # 1
        BY <2>3, <2>4, <2>5, <3>1, <3>2, <4>2
      <4>3. CASE i # 1 /\ j = 1
        BY <2>3, <2>4, <2>5, <3>1, <3>2, <4>3
      <4>4. CASE i # 1 /\ j # 1
        <5>1. i - 1 = j - 1
          BY <2>5, <2>7, <3>2, <4>4 DEF OneEntryEach
        <5>2. QED
          BY <1>0, <2>4, <5>1
      <4>5. QED
        BY <4>1, <4>2, <4>3, <4>4
    <3>3. QED
      BY <3>2 DEF OneEntryEach
  <2>8. QED
    BY <2>4, <2>6, <2>7 DEF m
<1>3. QED
  BY <1>1, <1>2

(* A value that is read is one of a coefficient, and there is none past    *)
(* the last index.                                                         *)
LEMMA ReadIsValue ==
  ASSUME coef_tbl \in Seq(Entry), NEW n \in Nat
  PROVE  ValueAt(n) \in Value /\ (n \notin Index => ValueAt(n) = 0)
<1>1. CASE Matches(n) = {}
  BY <1>1, ValueAssumption DEF ValueAt
<1>2. CASE Matches(n) # {}
  <2>1. find_proc_coef(n) \in DOMAIN coef_tbl /\ n \in Index
    BY <1>2, FindsFirst DEF Matches
  <2>2. coef_tbl[find_proc_coef(n)] \in Entry
    BY <2>1
  <2>3. QED
    BY <1>2, <2>1, <2>2 DEF ValueAt, Entry
<1>3. QED
  BY <1>1, <1>2

(* The list is empty at the start and the register at 0.                   *)
LEMMA InitTypeOK == Init => TypeOK
<1> SUFFICES ASSUME Init PROVE TypeOK
  OBVIOUS
<1>1. coef_tbl \in Seq([idx : Index, value : Value]) /\ DOMAIN coef_tbl = {}
  BY DEF Init
<1>2. coef_idx \in 0 .. MaxIdx /\ coef_rc \in Value /\ req[1] = "get_index" /\ past = FALSE
  BY MaxIdxAssumption, ValueAssumption DEF Init
<1>3. QED
  BY <1>1, <1>2 DEF TypeOK

(* A verb replaces the value of the entry it finds or puts a new entry at  *)
(* the head; neither makes two entries of an index within the register's   *)
(* range.                                                                  *)
LEMMA StepTypeOK == TypeOK /\ [Next]_vars => TypeOK'
<1> SUFFICES ASSUME TypeOK, [Next]_vars PROVE TypeOK'
  OBVIOUS
<1> USE MaxIdxAssumption
<1>0. /\ coef_tbl \in Seq(Entry) /\ (~past => OneEntryEach)
      /\ coef_idx \in Nat /\ Index \subseteq 0 .. MaxIdx /\ Index \subseteq Nat
  BY IdxSpaceAssumption DEF TypeOK, Entry, OneEntryEach, Index
<1>a. ASSUME coef_tbl' \in Seq(Entry), ~past' => OneEntryEach'
      PROVE  /\ (coef_tbl \in Seq([idx : Index, value : Value]))'
             /\ (~past => \A i, j \in DOMAIN coef_tbl : coef_tbl[i].idx = coef_tbl[j].idx => i = j)'
  BY <1>a DEF Entry, OneEntryEach
<1>1. ASSUME NEW i \in Index, set_coef_index(i) PROVE TypeOK'
  BY <1>0, <1>1 DEF set_coef_index, TypeOK
<1>2. CASE get_coef_index
  BY <1>2 DEF get_coef_index, TypeOK
<1>3. ASSUME NEW v \in Value, set_proc_coef(v) PROVE TypeOK'
  <2>1. coef_tbl' \in Seq(Entry) /\ (OneEntryEach /\ coef_idx \in Index => OneEntryEach')
    BY <1>0, <1>3, StoreIsWrite DEF set_proc_coef
  <2>2. ~past' => ~past /\ coef_idx \in Index
    <3>1. past' = (past \/ coef_idx >= IdxSpace)
      BY <1>3 DEF set_proc_coef
    <3>2. ~(coef_idx >= IdxSpace) => coef_idx \in Index
      BY <1>0, IdxSpaceAssumption DEF Index
    <3>3. QED
      BY <3>1, <3>2, Zenon
  <2>3. ~past' => OneEntryEach'
    BY <1>0, <2>1, <2>2
  <2>4. coef_idx' \in 0 .. MaxIdx /\ coef_rc' \in 0 .. MaxIdx /\ req'[1] = "set" /\ past' \in BOOLEAN
    BY <1>0, <1>3 DEF set_proc_coef, TypeOK
  <2>5. QED
    BY <1>a, <2>1, <2>3, <2>4 DEF TypeOK
<1>4. CASE get_proc_coef
  <2>1. coef_rc' \in Value
    BY <1>0, <1>4, ReadIsValue DEF get_proc_coef
  <2>2. coef_idx' \in 0 .. MaxIdx /\ req'[1] = "get" /\ UNCHANGED <<coef_tbl, past>>
    BY <1>0, <1>4 DEF get_proc_coef
  <2>3. QED
    BY <2>1, <2>2 DEF TypeOK
<1>5. ASSUME NEW i \in Index, NEW v \in Value, hda_set_proc_coef(i, v) PROVE TypeOK'
  <2>1. coef_tbl' \in Seq(Entry) /\ (~past => OneEntryEach')
    BY <1>0, <1>5, StoreIsWrite DEF hda_set_proc_coef
  <2>2. UNCHANGED <<coef_idx, coef_rc, past>> /\ req'[1] = "load"
    BY <1>5 DEF hda_set_proc_coef
  <2>3. QED
    BY <1>a, <2>1, <2>2 DEF TypeOK
<1>6. CASE UNCHANGED vars
  BY <1>6 DEF vars, TypeOK
<1>7. QED
  BY <1>1, <1>2, <1>3, <1>4, <1>5, <1>6 DEF Next

(* The list of coefficients keeps its type and holds one entry an index    *)
(* until a write goes past the last index (create_proc_coef).              *)
THEOREM TypeCorrect == Spec => []TypeOK
BY InitTypeOK, StepTypeOK, PTL DEF Spec

(* The initial list maps to the memory that holds 0 everywhere. *)
LEMMA InitMaps == Init => Memory!Init
BY DEF Init, Memory!Init, ValueAt, Matches, Index

(* Every step of the list maps to the step of the memory of the same name. *)
LEMMA StepMaps == TypeOK /\ [Next]_vars => [Memory!Next]_<<[i \in Index |-> ValueAt(i)], coef_idx, coef_rc, req>>
<1> DEFINE mem == [i \in Index |-> ValueAt(i)]
<1> SUFFICES ASSUME TypeOK, [Next]_vars PROVE [Memory!Next]_<<mem, coef_idx, coef_rc, req>>
  OBVIOUS
<1>0. coef_tbl \in Seq(Entry) /\ coef_idx \in Nat /\ Index \subseteq Nat
  BY IdxSpaceAssumption DEF TypeOK, Entry, Index
<1>a. UNCHANGED coef_tbl => UNCHANGED mem
  BY DEF ValueAt, Matches, find_proc_coef
<1>1. ASSUME NEW i \in Index, set_coef_index(i) PROVE Memory!Next
  <2>1. Memory!SetIndex(i)
    BY <1>1, <1>a DEF set_coef_index, Memory!SetIndex
  <2>2. QED
    BY <2>1 DEF Memory!Next, Index
<1>2. CASE get_coef_index
  BY <1>2, <1>a DEF get_coef_index, Memory!GetIndex, Memory!Next
<1>3. ASSUME NEW v \in Value, set_proc_coef(v) PROVE Memory!Next
  <2>1. \A i \in Index : ValueAt(i)' = IF i = coef_idx % IdxSpace THEN v ELSE ValueAt(i)
    BY <1>0, <1>3, StoreIsWrite DEF set_proc_coef
  <2>2. mem' = [mem EXCEPT ![coef_idx % IdxSpace] = v]
    BY <2>1
  <2>3. Memory!Write(v)
    BY <1>3, <2>2 DEF set_proc_coef, Memory!Write
  <2>4. QED
    BY <2>3 DEF Memory!Next
<1>4. CASE get_proc_coef
  <2>1. coef_idx \in Index <=> coef_idx < IdxSpace
    BY <1>0, IdxSpaceAssumption DEF Index
  <2>2. coef_rc' = IF coef_idx < IdxSpace THEN mem[coef_idx] ELSE 0
    BY <1>0, <1>4, <2>1, ReadIsValue DEF get_proc_coef
  <2>3. UNCHANGED mem
    BY <1>4, <1>a DEF get_proc_coef
  <2>4. QED
    BY <1>4, <2>2, <2>3 DEF get_proc_coef, Memory!Read, Memory!Next
<1>5. ASSUME NEW n \in Index, NEW v \in Value, hda_set_proc_coef(n, v) PROVE Memory!Next
  <2>1. \A i \in Index : ValueAt(i)' = IF i = n THEN v ELSE ValueAt(i)
    BY <1>0, <1>5, StoreIsWrite, CutIndex DEF hda_set_proc_coef
  <2>2. mem' = [mem EXCEPT ![n] = v]
    BY <2>1
  <2>3. Memory!Load(n, v)
    BY <1>5, <2>2 DEF hda_set_proc_coef, Memory!Load
  <2>4. QED
    BY <2>3 DEF Memory!Next, Index
<1>6. CASE UNCHANGED vars
  BY <1>6, <1>a DEF vars
<1>7. QED
  BY <1>1, <1>2, <1>3, <1>4, <1>5, <1>6 DEF Next

(* What a read responds with is the last value written at that index, by   *)
(* either interface, also where entries written past the last index shadow *)
(* older ones (store_proc_coef, find_proc_coef).                           *)
THEOREM ListIsMemory == Spec => CoefsAreMemory
<1>1. Init => Memory!Init
  BY InitMaps
<1>2. TypeOK /\ [Next]_vars => [Memory!Next]_<<[i \in Index |-> ValueAt(i)], coef_idx, coef_rc, req>>
  BY StepMaps
<1>3. QED
  BY <1>1, <1>2, TypeCorrect, PTL DEF Spec, CoefsAreMemory, Memory!Spec

----------------------------------------------------------------------------
(* The vendor verbs. *)

Byte == {b \in Nat : b < 256}

(* A number put together from three bytes is a word that holds them.       *)
LEMMA BytesOfSum ==
  ASSUME NEW a \in Byte, NEW b \in Byte, NEW c \in Byte, NEW v \in Nat, v = a + 256 * b + 65536 * c
  PROVE  /\ v \in Word
         /\ ByteOf(v, 0) = a /\ ByteOf(v, 1) = b /\ ByteOf(v, 2) = c
<1> USE DEF Byte
<1>1. v % 256 = a /\ v \div 65536 = c
  BY SMT
<1>2. v \div 256 = b + 256 * c
  BY SMT
<1>3. (b + 256 * c) % 256 = b
  BY SMT
<1>4. c % 256 = c /\ v \div 1 = v
  BY SMT
<1>5. v \in Word
  BY SMT DEF Word
<1>6. QED
  BY <1>1, <1>2, <1>3, <1>4, <1>5, SMT DEF ByteOf, Weight

(* A word is put together from the three bytes it holds.                   *)
LEMMA SumOfBytes ==
  ASSUME NEW v \in Word
  PROVE  /\ \A k \in 0 .. 2 : ByteOf(v, k) \in Byte
         /\ v = ByteOf(v, 0) + 256 * ByteOf(v, 1) + 65536 * ByteOf(v, 2)
<1>1. v \in Nat /\ v < 256 * 65536
  BY SMT DEF Word
<1>2. PICK q : q = v \div 256
  OBVIOUS
<1>3. q \in Nat /\ v = 256 * q + (v % 256) /\ (v % 256) \in Byte
  BY <1>1, <1>2, SMT DEF Byte
<1>4. q < 65536
  BY <1>1, <1>3, SMT DEF Byte
<1>5. PICK c : c = q \div 256
  OBVIOUS
<1>6. c \in Nat /\ q = 256 * c + (q % 256) /\ (q % 256) \in Byte
  BY <1>3, <1>5, SMT DEF Byte
<1>7. c \in Byte
  BY <1>4, <1>6, SMT DEF Byte
<1>8. c = v \div 65536 /\ c % 256 = c /\ v \div 1 = v
  BY <1>1, <1>2, <1>5, <1>7, SMT DEF Byte
<1>9. ByteOf(v, 0) = v % 256 /\ ByteOf(v, 1) = q % 256 /\ ByteOf(v, 2) = c
  BY <1>2, <1>8, SMT DEF ByteOf, Weight
<1>10. v = (v % 256) + 256 * (q % 256) + 65536 * c
  BY <1>3, <1>6, <1>7, SMT DEF Byte
<1>11. \A k \in 0 .. 2 : k = 0 \/ k = 1 \/ k = 2
  BY SMT
<1>12. \A k \in 0 .. 2 : ByteOf(v, k) \in Byte
  BY <1>3, <1>6, <1>7, <1>9, <1>11, Zenon
<1>13. QED
  BY <1>9, <1>10, <1>12, SMT

(* Replacing a byte of a word keeps the other two.                         *)
LEMMA PutByteIs ==
  ASSUME NEW v \in Word, NEW b \in Byte, NEW k \in 0 .. 2
  PROVE  /\ PutByte(v, b, k) \in Word
         /\ \A j \in 0 .. 2 : ByteOf(PutByte(v, b, k), j) = IF j = k THEN b ELSE ByteOf(v, j)
<1> DEFINE x == ByteOf(v, 0)
           y == ByteOf(v, 1)
           z == ByteOf(v, 2)
           p == PutByte(v, b, k)
<1>0. 0 \in 0 .. 2 /\ 1 \in 0 .. 2 /\ 2 \in 0 .. 2
  BY SMT
<1>1. x \in Byte /\ y \in Byte /\ z \in Byte /\ v = x + 256 * y + 65536 * z
  BY <1>0, SumOfBytes, SMT
<1>2. Weight(0) = 1 /\ Weight(1) = 256 /\ Weight(2) = 65536
  BY SMT DEF Weight
<1>3. p = (v - ByteOf(v, k) * Weight(k)) + b * Weight(k)
  BY Zenon DEF PutByte
<1>4. \A j \in 0 .. 2 : j = 0 \/ j = 1 \/ j = 2
  BY SMT
<1> HIDE DEF x, y, z, p
<1>a. x = ByteOf(v, 0) /\ y = ByteOf(v, 1) /\ z = ByteOf(v, 2)
  BY Zenon DEF x, y, z
<1>5. CASE k = 0
  <2>1. p \in Nat /\ p = b + 256 * y + 65536 * z
    BY <1>1, <1>2, <1>3, <1>5, <1>a, SMT DEF Byte
  <2>2. p \in Word /\ ByteOf(p, 0) = b /\ ByteOf(p, 1) = y /\ ByteOf(p, 2) = z
    BY <1>1, <2>1, BytesOfSum
  <2>3. QED
    BY <1>4, <1>5, <1>a, <2>2 DEF p
<1>6. CASE k = 1
  <2>1. p \in Nat /\ p = x + 256 * b + 65536 * z
    BY <1>1, <1>2, <1>3, <1>6, <1>a, SMT DEF Byte
  <2>2. p \in Word /\ ByteOf(p, 0) = x /\ ByteOf(p, 1) = b /\ ByteOf(p, 2) = z
    BY <1>1, <2>1, BytesOfSum
  <2>3. QED
    BY <1>4, <1>6, <1>a, <2>2 DEF p
<1>7. CASE k = 2
  <2>1. p \in Nat /\ p = x + 256 * y + 65536 * b
    BY <1>1, <1>2, <1>3, <1>7, <1>a, SMT DEF Byte
  <2>2. p \in Word /\ ByteOf(p, 0) = x /\ ByteOf(p, 1) = y /\ ByteOf(p, 2) = b
    BY <1>1, <2>1, BytesOfSum
  <2>3. QED
    BY <1>4, <1>7, <1>a, <2>2 DEF p
<1>8. QED
  BY <1>4, <1>5, <1>6, <1>7

(* The cache, with verbs of a set S.                                       *)
VEntry(S) == [verb : S, val : Word]
OneEach(c) == \A i, j \in DOMAIN c : c[i].verb = c[j].verb => i = j

(* The search for a verb finds its first entry.                            *)
LEMMA FindsEntry ==
  ASSUME NEW S, NEW c \in Seq(VEntry(S)), NEW q, Entries(c, q) # {}
  PROVE  /\ First(c, q) \in DOMAIN c /\ c[First(c, q)].verb = q
         /\ \A j \in Entries(c, q) : First(c, q) <= j
<1>1. Entries(c, q) \subseteq DOMAIN c /\ DOMAIN c \subseteq Nat
  BY DEF Entries
<1>2. First(c, q) = Least(Entries(c, q))
  BY DEF First, Least
<1>3. QED
  BY <1>1, <1>2, LeastIn DEF Entries

(* What is read for a verb is a word, with or without an entry.            *)
LEMMA CachedIsWord ==
  ASSUME NEW S, NEW c \in Seq(VEntry(S)), NEW q
  PROVE  Cached(c, q) \in Word
<1>1. CASE Entries(c, q) = {}
  BY <1>1, SMT DEF Cached, Word
<1>2. CASE Entries(c, q) # {}
  <2>1. First(c, q) \in DOMAIN c
    BY <1>2, FindsEntry
  <2>2. c[First(c, q)] \in VEntry(S)
    BY <2>1
  <2>3. QED
    BY <1>2, <2>2 DEF Cached, VEntry
<1>3. QED
  BY <1>1, <1>2

(* In a list with one entry for each verb, a verb reads as its entry.      *)
LEMMA CachedIs ==
  ASSUME NEW S, NEW c \in Seq(VEntry(S)), OneEach(c), NEW i \in DOMAIN c
  PROVE  Cached(c, c[i].verb) = c[i].val
<1>1. i \in Entries(c, c[i].verb)
  BY DEF Entries
<1>2. First(c, c[i].verb) = i
  BY <1>1, FindsEntry DEF OneEach
<1>3. QED
  BY <1>1, <1>2 DEF Cached

(* What set_verb_val does: one byte of one verb changes, whether the       *)
(* search finds an entry or one is created at the head.                    *)
LEMMA SetByte ==
  ASSUME NEW S, NEW c \in Seq(VEntry(S)), OneEach(c),
         NEW r \in S, NEW b \in Byte, NEW k \in 0 .. 2
  PROVE  LET n == set_verb_val(c, r, b, k)
         IN  /\ n \in Seq(VEntry(S)) /\ OneEach(n)
             /\ Cached(n, r) = PutByte(Cached(c, r), b, k)
             /\ \A q : q # r => Cached(n, q) = Cached(c, q)
<1>0. Len(c) \in Nat /\ DOMAIN c = 1 .. Len(c) /\ \A i \in DOMAIN c : c[i] \in VEntry(S)
  OBVIOUS
<1> DEFINE n == set_verb_val(c, r, b, k)
           put == PutByte(Cached(c, r), b, k)
<1>a. put \in Word
  BY CachedIsWord, PutByteIs
<1> HIDE DEF n
<1>1. CASE Entries(c, r) # {}
  <2> DEFINE f == First(c, r)
  <2>1. f \in DOMAIN c /\ c[f].verb = r
    BY <1>1, FindsEntry
  <2>2. c[f].val = Cached(c, r)
    BY <1>1 DEF Cached
  <2>3. n = [c EXCEPT ![f].val = PutByte(c[f].val, b, k)]
    BY <1>1 DEF set_verb_val, n
  <2>4. PutByte(c[f].val, b, k) = put
    BY <2>2
  <2> HIDE DEF f, put
  <2>5. /\ DOMAIN n = DOMAIN c
        /\ \A i \in DOMAIN c : /\ n[i] \in VEntry(S) /\ n[i].verb = c[i].verb
                               /\ n[i].val = IF i = f THEN put ELSE c[i].val
    BY <1>0, <1>a, <2>1, <2>3, <2>4 DEF VEntry
  <2>6. n \in Seq(VEntry(S))
    <3>1. n \in [1 .. Len(c) -> VEntry(S)]
      BY <1>0, <2>3, <2>5
    <3>2. QED
      BY <1>0, <3>1
  <2>7. OneEach(n)
    BY <2>5 DEF OneEach
  <2>8. \A q : Entries(n, q) = Entries(c, q)
    BY <2>5 DEF Entries
  <2>9. Cached(n, r) = put
    BY <2>1, <2>5, <2>6, <2>7, CachedIs
  <2>10. ASSUME NEW q, q # r PROVE Cached(n, q) = Cached(c, q)
    <3>1. CASE Entries(c, q) = {}
      BY <2>8, <3>1 DEF Cached
    <3>2. CASE Entries(c, q) # {}
      <4>1. PICK i \in DOMAIN c : c[i].verb = q
        BY <3>2 DEF Entries
      <4>2. Cached(c, q) = c[i].val
        BY <4>1, CachedIs
      <4>3. Cached(n, q) = n[i].val
        BY <2>5, <2>6, <2>7, <4>1, CachedIs
      <4>4. QED
        BY <2>1, <2>5, <2>10, <4>1, <4>2, <4>3
    <3>3. QED
      BY <3>1, <3>2
  <2>11. QED
    BY <2>6, <2>7, <2>9, <2>10 DEF put, n
<1>2. CASE Entries(c, r) = {}
  <2> DEFINE e == [verb |-> r, val |-> put]
  <2>1. Cached(c, r) = 0
    BY <1>2 DEF Cached
  <2>2. n = <<e>> \o c
    BY <1>2, <2>1 DEF set_verb_val, n
  <2>3. e \in VEntry(S) /\ e.verb = r /\ e.val = put
    BY <1>a DEF VEntry
  <2> HIDE DEF e, put
  <2>4. /\ n \in Seq(VEntry(S)) /\ DOMAIN n = 1 .. Len(c) + 1
        /\ n[1] = e /\ \A i \in DOMAIN c : n[i + 1] = c[i]
    BY <1>0, <2>2, <2>3
  <2>5. \A j \in DOMAIN n : j = 1 \/ (j - 1 \in DOMAIN c /\ n[j] = c[j - 1])
    BY <1>0, <2>4
  <2>6. \A i \in DOMAIN c : c[i].verb # r
    BY <1>2 DEF Entries
  <2>7. ASSUME NEW i \in DOMAIN n, NEW j \in DOMAIN n, n[i].verb = n[j].verb PROVE i = j
    <3>1. CASE i = 1 \/ j = 1
      BY <2>3, <2>4, <2>5, <2>6, <2>7, <3>1
    <3>2. CASE i # 1 /\ j # 1
      <4>1. i - 1 = j - 1
        BY <2>5, <2>7, <3>2 DEF OneEach
      <4>2. QED
        BY <1>0, <2>4, <4>1
    <3>3. QED
      BY <3>1, <3>2
  <2>8. OneEach(n)
    BY <2>7 DEF OneEach
  <2>9. Cached(n, r) = put
    <3>1. 1 \in DOMAIN n /\ n[1].verb = r /\ n[1].val = put
      BY <1>0, <2>3, <2>4
    <3>2. QED
      BY <2>4, <2>8, <3>1, CachedIs
  <2>10. ASSUME NEW q, q # r PROVE Cached(n, q) = Cached(c, q)
    <3>1. CASE Entries(c, q) = {}
      <4>1. Entries(n, q) = {}
        BY <2>3, <2>4, <2>5, <2>10, <3>1 DEF Entries
      <4>2. QED
        BY <3>1, <4>1 DEF Cached
    <3>2. CASE Entries(c, q) # {}
      <4>1. PICK i \in DOMAIN c : c[i].verb = q
        BY <3>2 DEF Entries
      <4>2. Cached(c, q) = c[i].val
        BY <4>1, CachedIs
      <4>3. i + 1 \in DOMAIN n /\ n[i + 1] = c[i]
        BY <1>0, <2>4
      <4>4. Cached(n, q) = n[i + 1].val
        BY <2>4, <2>8, <4>1, <4>3, CachedIs
      <4>5. QED
        BY <4>2, <4>3, <4>4
    <3>3. QED
      BY <3>1, <3>2
  <2>11. QED
    BY <2>4, <2>8, <2>9, <2>10 DEF put, n
<1>3. QED
  BY <1>1, <1>2


AllFamilies == {"idt_92hd8xx", "amdhdmi", "nvhdmi", "vt1708s"}

(* What is right with a row of a table: its function does what its name    *)
(* says, to the byte the name says.                                        *)
GoodRow(v, row) ==
  /\ v \in Nat /\ v # StandardVerb
  /\ row.byte \in 0 .. 2 /\ (v % 2048) - row.byte \in AllReg
  /\ \/ row.name = "get" /\ row.byte = 0 /\ row.func = "get_cached_verb"
     \/ row.name = "set" /\ row.byte = 0 /\ row.func = "set_cached_verb"
     \/ row.name = "set" /\ row.byte = 1 /\ row.func = "set_cached_verb2"
     \/ row.name = "set" /\ row.byte = 2 /\ row.func = "set_cached_verb3"

(* Every row of the four tables is right.                                  *)
LEMMA RowsGood ==
  ASSUME family \in AllFamilies, NEW v \in DOMAIN extended_verbs
  PROVE  GoodRow(v, extended_verbs[v])
<1> USE DEF GoodRow, StandardVerb, AllReg, Row
<1>1. CASE family = "idt_92hd8xx"
  <2>1. extended_verbs = idt_92hd8xx_verbs
    BY <1>1 DEF extended_verbs
  <2>2. QED
    BY <2>1 DEF idt_92hd8xx_verbs
<1>2. CASE family = "amdhdmi"
  <2>1. extended_verbs = amdhdmi_verbs
    BY <1>2 DEF extended_verbs
  <2>2. QED
    BY <2>1 DEF amdhdmi_verbs
<1>3. CASE family = "nvhdmi"
  <2>1. extended_verbs = nvhdmi_8ch_7x_verbs
    BY <1>3 DEF extended_verbs
  <2>2. QED
    BY <2>1 DEF nvhdmi_8ch_7x_verbs
<1>4. CASE family = "vt1708s"
  <2>1. extended_verbs = vt1708s_verbs
    BY <1>4 DEF extended_verbs
  <2>2. QED
    BY <2>1 DEF vt1708s_verbs
<1>5. QED
  BY <1>1, <1>2, <1>3, <1>4 DEF AllFamilies

(* So a verb of the tables reads its register or sets its byte.            *)
LEMMA RunRowDoes ==
  ASSUME VendorTypeOK,
         NEW v \in DOMAIN extended_verbs, NEW p \in Parm, RunRow(extended_verbs[v], v, p)
  PROVE  LET row == extended_verbs[v]
             r   == RegOf(v)
         IN  /\ r \in Reg /\ r \in AllReg /\ v # StandardVerb /\ row.byte \in 0 .. 2
             /\ \/ /\ row.name = "get"
                   /\ rc' = Cached(value_cache, r) /\ value_cache' = value_cache
                \/ /\ row.name = "set"
                   /\ rc' = 0 /\ value_cache' = set_verb_val(value_cache, r, p, row.byte)
<1> DEFINE row == extended_verbs[v]
           r   == RegOf(v)
<1>1. GoodRow(v, row)
  BY RowsGood, FamilyAssumption DEF VendorTypeOK, AllFamilies
<1>2. r = (v % 2048) - row.byte /\ r \in Reg
  BY DEF RegOf, Reg
<1> HIDE DEF r
<1>3. RunRow(row, v, p)
  OBVIOUS
<1> HIDE DEF row
<1>4. CASE row.name = "get" /\ row.byte = 0 /\ row.func = "get_cached_verb"
  <2>1. get_cached_verb(v)
    BY <1>3, <1>4 DEF RunRow
  <2>2. r = v % 2048
    BY <1>1, <1>2, <1>4 DEF GoodRow
  <2>3. QED
    BY <1>1, <1>2, <1>4, <2>1, <2>2 DEF get_cached_verb, GoodRow, row, r
<1>5. CASE row.name = "set" /\ row.byte = 0 /\ row.func = "set_cached_verb"
  <2>1. set_cached_verb(v, p, row.byte)
    BY <1>3, <1>5 DEF RunRow
  <2>2. QED
    BY <1>1, <1>2, <1>5, <2>1 DEF set_cached_verb, GoodRow, row, r
<1>6. CASE row.name = "set" /\ row.byte = 1 /\ row.func = "set_cached_verb2"
  <2>1. set_cached_verb(v, p, row.byte)
    BY <1>3, <1>6 DEF RunRow
  <2>2. QED
    BY <1>1, <1>2, <1>6, <2>1 DEF set_cached_verb, GoodRow, row, r
<1>7. CASE row.name = "set" /\ row.byte = 2 /\ row.func = "set_cached_verb3"
  <2>1. set_cached_verb(v, p, row.byte)
    BY <1>3, <1>7 DEF RunRow
  <2>2. QED
    BY <1>1, <1>2, <1>7, <2>1 DEF set_cached_verb, GoodRow, row, r
<1>8. QED
  BY <1>1, <1>4, <1>5, <1>6, <1>7 DEF GoodRow

(* The cache is empty at the start.                                        *)
LEMMA VInitTypeOK == ASSUME VendorInit PROVE VendorTypeOK
<1>1. value_cache \in Seq([verb : Reg, val : Word])
  BY DEF VendorInit
<1>2. QED
  BY <1>1 DEF VendorInit, VendorTypeOK

(* A command keeps one entry for each register, of three bytes.            *)
LEMMA VStepTypeOK ==
  ASSUME VendorTypeOK, [VendorNext]_vendor_vars
  PROVE  VendorTypeOK'
<1> DEFINE C == Seq(VEntry(Reg))
<1>1. /\ family \in Family /\ value_cache \in C /\ OneEach(value_cache)
      /\ rc \in Nat /\ err \in {OK, EINVAL, ENXIO}
  BY DEF VendorTypeOK, VEntry, OneEach
<1>a. ASSUME UNCHANGED family, value_cache' \in C, OneEach(value_cache'), rc' \in Nat,
             err' \in {OK, EINVAL, ENXIO}
      PROVE  VendorTypeOK'
  <2>1. Reg' = Reg
    BY <1>a DEF Reg, RegOf, extended_verbs
  <2>2. QED
    BY <1>1, <1>a, <2>1 DEF VendorTypeOK, VEntry, OneEach, OK, EINVAL, ENXIO
<1>2. CASE UNCHANGED vendor_vars
  BY <1>1, <1>2, <1>a DEF vendor_vars
<1>3. ASSUME NEW nid, NEW v, NEW p \in Parm, hda_cmd(nid, v, p) PROVE VendorTypeOK'
  <2>1. family' = family /\ err' \in {OK, EINVAL, ENXIO}
    BY <1>3, Zenon DEF hda_cmd
  <2>2. CASE UNCHANGED value_cache /\ rc' \in Nat
    BY <1>1, <1>a, <2>1, <2>2
  <2>3. CASE v \in DOMAIN extended_verbs /\ RunRow(extended_verbs[v], v, p)
    <3> DEFINE k == extended_verbs[v].byte
               r == RegOf(v)
    <3>1. /\ r \in Reg /\ k \in 0 .. 2
          /\ \/ rc' = Cached(value_cache, r) /\ value_cache' = value_cache
             \/ rc' = 0 /\ value_cache' = set_verb_val(value_cache, r, p, k)
      BY <2>3, RunRowDoes
    <3>2. p \in Byte
      BY WordAssumption, SMT DEF Byte
    <3>3. Cached(value_cache, r) \in Nat
      BY <1>1, CachedIsWord DEF Word
    <3> HIDE DEF k, r, C
    <3>4. CASE rc' = 0 /\ value_cache' = set_verb_val(value_cache, r, p, k)
      <4>1. set_verb_val(value_cache, r, p, k) \in C /\ OneEach(set_verb_val(value_cache, r, p, k))
        BY <1>1, <3>1, <3>2, SetByte DEF C
      <4>2. value_cache' \in C /\ OneEach(value_cache')
        BY <3>4, <4>1
      <4>3. rc' \in Nat
        BY <3>4
      <4>4. QED
        BY <1>a, <2>1, <4>2, <4>3
    <3>5. QED
      BY <1>1, <1>a, <2>1, <3>1, <3>3, <3>4
  <2>4. \/ UNCHANGED value_cache /\ rc' \in Nat
        \/ v \in DOMAIN extended_verbs /\ RunRow(extended_verbs[v], v, p)
    <3>1. CASE Swallowed(nid) /\ rc' = 0 /\ UNCHANGED value_cache
      BY <3>1
    <3>2. CASE rc' = (IF extended_cmd = "none" THEN rc ELSE 0) /\ UNCHANGED value_cache
      BY <1>1, <3>2
    <3>3. CASE v = StandardVerb /\ rc' \in Reply /\ UNCHANGED value_cache
      BY <3>3, WordAssumption
    <3>4. CASE v \in DOMAIN extended_verbs /\ RunRow(extended_verbs[v], v, p)
      BY <3>4
    <3>5. QED
      BY <1>3, <3>1, <3>2, <3>3, <3>4, Zenon DEF hda_cmd
  <2>5. QED
    BY <2>2, <2>3, <2>4
<1>4. QED
  BY <1>2, <1>3 DEF VendorNext

(* The cache has at most one entry for a register of the tables, and no    *)
(* entry outgrows its three bytes (set_verb_val).                          *)
THEOREM CacheTypeCorrect == VendorSpec => []VendorTypeOK
<1>1. VendorInit => VendorTypeOK
  BY VInitTypeOK
<1>2. VendorTypeOK /\ [VendorNext]_vendor_vars => VendorTypeOK'
  BY VStepTypeOK
<1>3. QED
  BY <1>1, <1>2, PTL DEF VendorSpec

(* The registers that the cache stands for.                                *)
Bytes(c) == [r \in AllReg |-> [k \in 0 .. 2 |-> ByteOf(Cached(c, r), k)]]

(* An empty cache stands for registers of zeros.                           *)
LEMMA VInitMaps == VendorInit => Registers!Init
<1> SUFFICES ASSUME VendorInit PROVE Registers!Init
  OBVIOUS
<1>1. value_cache = <<>> /\ err = "ENXIO" /\ rc = 0
  BY DEF VendorInit, ENXIO
<1>2. Request = [op |-> "none"]
  BY <1>1 DEF Request, OK
<1>3. \A r : Cached(value_cache, r) = 0
  BY <1>1 DEF Cached, Entries
<1>4. \A k \in 0 .. 2 : ByteOf(0, k) = 0
  <2>1. 0 \in Byte /\ 0 = 0 + 256 * 0 + 65536 * 0
    BY SMT DEF Byte
  <2>2. ByteOf(0, 0) = 0 /\ ByteOf(0, 1) = 0 /\ ByteOf(0, 2) = 0
    BY <2>1, BytesOfSum, SMT
  <2>3. QED
    BY <2>2, SMT
<1>5. QED
  BY <1>1, <1>2, <1>3, <1>4 DEF Registers!Init, Registers!Place

(* Every command is a step of the registers: a get verb responds with all  *)
(* three bytes, a set verb changes the byte its name says, and a command   *)
(* that fails, is swallowed or is a standard one changes nothing.          *)
LEMMA VStepMaps ==
  ASSUME VendorTypeOK, [VendorNext]_vendor_vars
  PROVE  [Registers!Next]_<<Bytes(value_cache), Request, rc>>
<1>1. /\ value_cache \in Seq(VEntry(Reg)) /\ OneEach(value_cache) /\ rc \in Nat
  BY DEF VendorTypeOK, VEntry, OneEach
<1>2. CASE UNCHANGED vendor_vars
  <2>1. UNCHANGED <<Request, rc, value_cache>>
    BY <1>2 DEF vendor_vars, Request, Swallowed, RegOf, extended_verbs
  <2>2. QED
    BY <2>1 DEF Bytes
<1>3. ASSUME NEW nid \in Node \cup {0, Secret, Absent}, NEW v, NEW p \in Parm, hda_cmd(nid, v, p)
      PROVE  Registers!Next
  <2>1. /\ cmd'.nid = nid /\ cmd'.verb = v /\ cmd'.parm = p
        /\ UNCHANGED <<family, extended_cmd>>
    BY <1>3 DEF hda_cmd
  <2>2. /\ extended_verbs' = extended_verbs
        /\ \A n : Swallowed(n)' <=> Swallowed(n)
    BY <2>1 DEF extended_verbs, Swallowed
  <2>3. Request' = IF err' # "OK" \/ Swallowed(nid) \/ v = StandardVerb THEN [op |-> "none"]
                     ELSE IF extended_verbs[v].name = "get"
                          THEN [op |-> "get", reg |-> RegOf(v)]
                          ELSE [op |-> "set", reg |-> RegOf(v),
                                place |-> extended_verbs[v].byte, byte |-> p]
    BY <2>1, <2>2 DEF Request, OK, RegOf, Swallowed
  <2>4. CASE Request' = [op |-> "none"] /\ rc' \in Nat /\ UNCHANGED value_cache
    BY <2>4 DEF Registers!Next, Registers!Other
  <2>5. CASE Swallowed(nid) /\ rc' = 0 /\ UNCHANGED value_cache
    BY <2>3, <2>4, <2>5
  <2>6. CASE rc' = (IF extended_cmd = "none" THEN rc ELSE 0) /\ err' # "OK" /\ UNCHANGED value_cache
    BY <1>1, <2>3, <2>4, <2>6
  <2>7. CASE v = StandardVerb /\ rc' \in Reply /\ UNCHANGED value_cache
    BY <2>3, <2>4, <2>7, WordAssumption
  <2>8. CASE /\ nid \in Node \cup {0} /\ err' = "OK"
             /\ v \in DOMAIN extended_verbs /\ RunRow(extended_verbs[v], v, p)
    <3> DEFINE row == extended_verbs[v]
               k == row.byte
               r == RegOf(v)
    <3>1. /\ r \in Reg /\ r \in AllReg /\ v # StandardVerb /\ k \in 0 .. 2
          /\ \/ row.name = "get" /\ rc' = Cached(value_cache, r) /\ value_cache' = value_cache
             \/ row.name = "set" /\ rc' = 0 /\ value_cache' = set_verb_val(value_cache, r, p, k)
      BY <2>8, RunRowDoes
    <3>2. ~Swallowed(nid)
      BY <2>8, NidAssumption DEF Swallowed
    <3>3. Request' = IF row.name = "get" THEN [op |-> "get", reg |-> r]
                       ELSE [op |-> "set", reg |-> r, place |-> k, byte |-> p]
      BY <2>3, <2>8, <3>1, <3>2
    <3> HIDE DEF row, k, r
    <3>4. CASE row.name = "get" /\ rc' = Cached(value_cache, r) /\ value_cache' = value_cache
      <4>1. Cached(value_cache, r) \in Word
        BY <1>1, CachedIsWord
      <4>2. rc' = ByteOf(Cached(value_cache, r), 0) + 256 * ByteOf(Cached(value_cache, r), 1)
                  + 65536 * ByteOf(Cached(value_cache, r), 2)
        BY <3>4, <4>1, SumOfBytes, SMT
      <4>3. Registers!Get(r)
        BY <3>1, <3>3, <3>4, <4>2, SMT DEF Registers!Get
      <4>4. QED
        BY <3>1, <4>3 DEF Registers!Next
    <3>5. CASE row.name = "set" /\ rc' = 0 /\ value_cache' = set_verb_val(value_cache, r, p, k)
      <4>1. p \in Byte
        BY WordAssumption, SMT DEF Byte
      <4>2. /\ Cached(value_cache', r) = PutByte(Cached(value_cache, r), p, k)
            /\ \A q : q # r => Cached(value_cache', q) = Cached(value_cache, q)
        BY <1>1, <3>1, <3>5, <4>1, SetByte
      <4>3. \A j \in 0 .. 2 : ByteOf(PutByte(Cached(value_cache, r), p, k), j)
                              = IF j = k THEN p ELSE ByteOf(Cached(value_cache, r), j)
        BY <1>1, <3>1, <4>1, CachedIsWord, PutByteIs
      <4>4. Bytes(value_cache') = [Bytes(value_cache) EXCEPT ![r][k] = p]
        BY <3>1, <4>2, <4>3 DEF Bytes
      <4>5. Registers!Set(r, k, p)
        BY <3>3, <3>5, <4>4 DEF Registers!Set, Bytes
      <4>6. QED
        BY <3>1, <4>5 DEF Registers!Next, Registers!Place
    <3>6. QED
      BY <3>1, <3>4, <3>5
  <2>9. QED
    <3>1. \/ Swallowed(nid) /\ rc' = 0 /\ UNCHANGED value_cache
          \/ rc' = (IF extended_cmd = "none" THEN rc ELSE 0) /\ err' # "OK" /\ UNCHANGED value_cache
          \/ v = StandardVerb /\ rc' \in Reply /\ UNCHANGED value_cache
          \/ /\ nid \in Node \cup {0} /\ err' = "OK"
             /\ v \in DOMAIN extended_verbs /\ RunRow(extended_verbs[v], v, p)
      BY <1>3 DEF hda_cmd, OK, EINVAL, ENXIO
    <3>2. QED
      BY <2>5, <2>6, <2>7, <2>8, <3>1
<1>4. QED
  BY <1>2, <1>3 DEF VendorNext

(* Whatever was written in whatever order through whichever widgets, a     *)
(* get verb responds with what was written last (hda_cmd, the tables and   *)
(* the value cache of hda-spec.c).  The assumptions are those of Vendor:   *)
(* parameters are bytes, and the nids that are no widget's differ from     *)
(* those that are.                                                         *)
THEOREM CacheIsRegisters == VendorSpec => VerbsAreRegisters
<1>1. VendorInit => Registers!Init
  BY VInitMaps
<1>2. VendorTypeOK /\ [VendorNext]_vendor_vars => [Registers!Next]_<<Bytes(value_cache), Request, rc>>
  BY VStepMaps
<1>3. QED
  BY <1>1, <1>2, CacheTypeCorrect, PTL DEF VendorSpec, VerbsAreRegisters, Registers!Spec, Bytes
=============================================================================
