--------------------------- MODULE ControlsProofs ---------------------------
(***************************************************************************)
(* For any controls, names, counts and indices, and any number of renames: *)
(* ids stay unique, numbers keep their meaning, the channel-map control of *)
(* the stream is the one in the list, and listeners know every jack.       *)
(***************************************************************************)
EXTENDS Controls, FiniteSetTheorems, WellFoundedInduction, TLAPS

Id == [name : {NULL} \cup {NameOf[c] : c \in Ctl} \cup Name, index : Nat]

ListOK ==
  /\ list \in Seq(Ctl) /\ elems \in Nat /\ Len(list) <= elems
  /\ \A i, j \in DOMAIN list : list[i] = list[j] => i = j

LifeOK ==
  /\ life \in [Ctl -> {"none", "listed", "freed", "refused"}]
  /\ \A c \in Ctl : c \in Listed <=> life[c] = "listed"

(* Only what was in the list has been renamed. *)
RenamedOK ==
  /\ renumbered \subseteq renamed /\ renamed \subseteq Ctl
  /\ \A c \in renamed : life[c] \in {"listed", "freed"}

(* All the channel maps that were not renamed share an id. *)
IdOK ==
  /\ id \in [Ctl -> Id]
  /\ \A c, d \in Listed : id[c] = id[d] /\ c # d => {c, d} \cap renamed # {}
  /\ \A c \in Chmap \ renamed : life[c] # "none" => id[c] = [name |-> NameOf[c], index |-> 0]

JackOK == \A c \in Jack : life[c] # "refused"

(* The numbers a control has or had lie below the counter, and apart from  *)
(* those of every other control, listed or freed.                          *)
NumOK ==
  /\ numid \in [Ctl -> Nat]
  /\ \A c \in Ctl : numid[c] # 0 => numid[c] + Count[c] <= elems + 1
  /\ renumbered = {} =>
       /\ \A c \in Listed : numid[c] # 0
       /\ \A c, d \in Ctl : c # d /\ numid[c] # 0 /\ numid[d] # 0 =>
            numid[c] + Count[c] <= numid[d] \/ numid[d] + Count[d] <= numid[c]

ChmapOK == chmap_kctl \in Chmap \cup {NULL} /\ ChmapLinked

TellOK ==
  /\ status \in [Jack -> BOOLEAN] /\ told \in [Jack -> BOOLEAN]
  /\ renamed = {} => told = status

IInv == ListOK /\ LifeOK /\ RenamedOK /\ IdOK /\ JackOK /\ NumOK /\ ChmapOK /\ TellOK

(* A set of numbers that is not empty has a least element.                 *)
LEMMA LeastExists ==
  ASSUME NEW S \in SUBSET Nat, S # {}
  PROVE  \E i \in S : \A j \in S : i <= j
<1>1. PICK i \in S : \A j \in S : ~(<<j, i>> \in OpToRel(<, Nat))
  BY NatLessThanWellFounded, WFMin
<1>2. \A j \in S : <<j, i>> \in OpToRel(<, Nat) <=> j < i
  BY Zenon DEF OpToRel
<1>3. \A j \in S : ~(j < i)
  BY <1>1, <1>2, Zenon
<1>4. QED
  BY <1>3

(* A lookup finds a listed control that matches, if there is one.          *)
LEMMA FirstFinds ==
  ASSUME ListOK, NEW C
  PROVE  /\ C \cap Listed = {} => First(C) = NULL
         /\ C \cap Listed # {} => First(C) \in C \cap Listed
<1>1. CASE C \cap Listed = {}
  BY <1>1 DEF First
<1>2. CASE C \cap Listed # {}
  <2> DEFINE S == {i \in DOMAIN list : list[i] \in C}
             Q(i) == list[i] \in C /\ \A j \in 1 .. i - 1 : list[j] \notin C
  <2>1. DOMAIN list = 1 .. Len(list) /\ Len(list) \in Nat
    BY DEF ListOK
  <2>2. S \subseteq Nat /\ S # {}
    BY <1>2, <2>1 DEF Listed
  <2>3. PICK i \in S : \A j \in S : i <= j
    BY <2>2, LeastExists
  <2>4. i \in DOMAIN list /\ Q(i)
    BY <2>1, <2>3
  <2>5. First(C) = list[CHOOSE n \in DOMAIN list : Q(n)]
    BY <1>2 DEF First
  <2> HIDE DEF Q
  <2>6. (CHOOSE n \in DOMAIN list : Q(n)) \in DOMAIN list /\ Q(CHOOSE n \in DOMAIN list : Q(n))
    BY <2>4
  <2>7. QED
    BY <2>5, <2>6 DEF Q, Listed
<1>3. QED
  BY <1>1, <1>2

(* A lookup that finds nothing means that no listed control has the id,    *)
(* one that finds a control finds one with the id.                         *)
LEMMA FindId ==
  ASSUME ListOK, NEW i
  PROVE  /\ snd_ctl_find_id(i) = NULL <=> \A c \in Listed : id[c] # i
         /\ snd_ctl_find_id(i) # NULL => snd_ctl_find_id(i) \in Listed /\ id[snd_ctl_find_id(i)] = i
<1> DEFINE C == {c \in Ctl : id[c] = i}
<1>1. Listed \subseteq Ctl /\ NULL \notin Listed
  BY NullAssumption DEF ListOK, Listed
<1>2. snd_ctl_find_id(i) = First(C)
  BY DEF snd_ctl_find_id
<1>3. QED
  BY <1>1, <1>2, FirstFinds

(* The search for a free index ends at one within the length of the list,  *)
(* for as many controls cannot have more indices than there are controls.  *)
LEMMA IndexIsFree ==
  ASSUME ListOK, NEW name
  PROVE  /\ get_available_index(name) \in Nat
         /\ snd_ctl_find_id([name |-> name, index |-> get_available_index(name)]) = NULL
<1> DEFINE Found(n) == snd_ctl_find_id([name |-> name, index |-> n])
           N == 0 .. Len(list)
           S == {n \in N : Found(n) = NULL}
           Q(n) == Found(n) = NULL /\ \A m \in 0 .. n - 1 : Found(m) # NULL
<1>0. Len(list) \in Nat /\ DOMAIN list = 1 .. Len(list)
  BY DEF ListOK
<1>1. S # {}
  <2>1. SUFFICES ASSUME S = {} PROVE FALSE
    OBVIOUS
  <2>2. \A n \in N : Found(n) \in Listed /\ id[Found(n)] = [name |-> name, index |-> n]
    BY <2>1, FindId
  <2> DEFINE f == [n \in N |-> CHOOSE j \in DOMAIN list : list[j] = Found(n)]
  <2> HIDE DEF Found
  <2>3. \A n \in N : f[n] \in DOMAIN list /\ list[f[n]] = Found(n)
    BY <2>2 DEF Listed
  <2> HIDE DEF f
  <2>4. \A n, m \in N : f[n] = f[m] => n = m
    <3> SUFFICES ASSUME NEW n \in N, NEW m \in N, f[n] = f[m] PROVE n = m
      OBVIOUS
    <3>1. [name |-> name, index |-> n] = [name |-> name, index |-> m]
      BY <2>2, <2>3
    <3>2. [name |-> name, index |-> n].index = [name |-> name, index |-> m].index
      BY <3>1
    <3>3. QED
      BY <3>2
  <2>5. f \in [N -> 1 .. Len(list)]
    BY <1>0, <2>3 DEF f
  <2>6. IsFiniteSet(N) /\ Cardinality(N) = Len(list) + 1
    BY <1>0, FS_Interval
  <2>7. IsFiniteSet(1 .. Len(list)) /\ Cardinality(1 .. Len(list)) = Len(list)
    <3>1. 1 \in Int /\ Len(list) \in Int
      BY <1>0
    <3>2. /\ IsFiniteSet(1 .. Len(list))
          /\ Cardinality(1 .. Len(list)) = IF 1 > Len(list) THEN 0 ELSE Len(list) - 1 + 1
      BY <3>1, FS_Interval
    <3>3. QED
      BY <1>0, <3>2
  <2>8. Cardinality(1 .. Len(list)) < Cardinality(N)
    BY <1>0, <2>6, <2>7
  <2> HIDE DEF N
  <2>9. \E n, m \in N : n # m /\ f[n] = f[m]
    BY <2>5, <2>6, <2>7, <2>8, FS_PigeonHole
  <2>10. QED
    BY <2>4, <2>9
<1>2. PICK n \in S : \A m \in S : n <= m
  <2>1. S \in SUBSET Nat
    BY <1>0
  <2>2. QED
    BY <1>1, <2>1, LeastExists
<1> HIDE DEF Found
<1>3. n \in N /\ Q(n)
  <2>1. \A m \in 0 .. n - 1 : m \in N /\ ~(n <= m)
    BY <1>0, <1>2
  <2>2. QED
    BY <1>2, <2>1
<1>4. get_available_index(name) = CHOOSE k \in N : Q(k)
  BY DEF get_available_index, Found
<1> HIDE DEF Q
<1>5. get_available_index(name) \in N /\ Q(get_available_index(name))
  BY <1>3, <1>4
<1>6. QED
  BY <1>0, <1>5 DEF Q, Found

(* Taking a control off the list leaves the others in it, once each.       *)
LEMMA RemovesOne ==
  ASSUME ListOK, NEW c \in Listed, list' = list_del(c), elems' = elems
  PROVE  ListOK' /\ Listed' = Listed \ {c}
<1>0. Len(list) \in Nat /\ DOMAIN list = 1 .. Len(list) /\ \A i \in DOMAIN list : list[i] \in Ctl
  BY DEF ListOK
<1> DEFINE k == CHOOSE i \in DOMAIN list : list[i] = c
<1>1. k \in DOMAIN list /\ list[k] = c
  BY DEF Listed
<1>2. list' = [j \in 1 .. Len(list) - 1 |-> IF j < k THEN list[j] ELSE list[j + 1]]
  BY DEF list_del
<1> HIDE DEF k
<1>3. /\ Len(list) - 1 \in Nat /\ DOMAIN list' = 1 .. Len(list) - 1
      /\ \A j \in 1 .. Len(list) - 1 : list'[j] = IF j < k THEN list[j] ELSE list[j + 1]
  BY <1>0, <1>1, <1>2
<1>4. list' \in Seq(Ctl) /\ Len(list') = Len(list) - 1
  <2>1. list' \in [1 .. Len(list) - 1 -> Ctl]
    BY <1>0, <1>1, <1>2, <1>3
  <2>2. QED
    BY <1>3, <2>1
<1>5. \A i, j \in DOMAIN list' : list'[i] = list'[j] => i = j
  <2> SUFFICES ASSUME NEW i \in DOMAIN list', NEW j \in DOMAIN list', list'[i] = list'[j] PROVE i = j
    OBVIOUS
  <2> DEFINE at(n) == IF n < k THEN n ELSE n + 1
  <2>1. at(i) \in DOMAIN list /\ at(j) \in DOMAIN list /\ list[at(i)] = list[at(j)]
    BY <1>0, <1>1, <1>3
  <2>2. at(i) = at(j)
    BY <2>1 DEF ListOK
  <2>3. QED
    BY <1>0, <1>1, <1>3, <2>2
<1>6. ASSUME NEW d \in Listed', d \notin Listed \ {c} PROVE FALSE
  <2>1. PICK j \in DOMAIN list' : list'[j] = d
    BY <1>6 DEF Listed
  <2>2. CASE j < k
    BY <1>0, <1>1, <1>3, <1>6, <2>1, <2>2 DEF ListOK, Listed
  <2>3. CASE ~(j < k)
    <3>1. j + 1 \in DOMAIN list /\ j + 1 # k /\ list[j + 1] = d
      BY <1>0, <1>1, <1>3, <2>1, <2>3
    <3>2. QED
      BY <1>1, <1>6, <3>1 DEF ListOK, Listed
  <2>4. QED
    BY <2>2, <2>3
<1>7. ASSUME NEW d \in Listed \ {c} PROVE d \in Listed'
  <2>1. PICK j \in DOMAIN list : list[j] = d /\ j # k
    BY <1>1 DEF Listed
  <2>2. CASE j < k
    <3>1. j \in DOMAIN list' /\ list'[j] = d
      BY <1>0, <1>1, <1>3, <2>1, <2>2
    <3>2. QED
      BY <3>1 DEF Listed
  <2>3. CASE ~(j < k)
    <3>1. j - 1 \in DOMAIN list' /\ ~(j - 1 < k) /\ list'[j - 1] = list[j - 1 + 1] /\ j - 1 + 1 = j
      BY <1>0, <1>1, <1>3, <2>1, <2>3
    <3>2. QED
      BY <2>1, <3>1 DEF Listed
  <2>4. QED
    BY <2>2, <2>3
<1>8. QED
  BY <1>0, <1>4, <1>5, <1>6, <1>7 DEF ListOK

(* snd_ctl_add leaves the registry in order, for whatever kind of control  *)
(* it is called: it refuses a taken id, and numbers from the counter.      *)
LEMMA AddKeeps ==
  ASSUME IInv, NEW c \in Ctl, NEW i \in Id, snd_ctl_add(c, i),
         c \in Chmap => i = [name |-> NameOf[c], index |-> 0]
  PROVE  /\ ListOK' /\ LifeOK' /\ RenamedOK' /\ IdOK' /\ NumOK'
         /\ UNCHANGED <<renamed, renumbered>>
         /\ id' = [id EXCEPT ![c] = i] /\ c \notin Listed
         /\ \/ life' = [life EXCEPT ![c] = "refused"] /\ Listed' = Listed /\ snd_ctl_find_id(i) # NULL
            \/ life' = [life EXCEPT ![c] = "listed"] /\ Listed' = Listed \cup {c}
               /\ snd_ctl_find_id(i) = NULL
<1>0. /\ ListOK /\ LifeOK /\ RenamedOK /\ IdOK /\ NumOK
      /\ life[c] = "none" /\ c \notin Listed /\ c \notin renamed /\ Listed \subseteq Ctl
      /\ id' = [id EXCEPT ![c] = i] /\ UNCHANGED <<renamed, renumbered>>
  <2>1. ListOK /\ LifeOK /\ RenamedOK /\ IdOK /\ NumOK
    BY DEF IInv
  <2>2. life[c] = "none" /\ id' = [id EXCEPT ![c] = i] /\ UNCHANGED <<renamed, renumbered>>
    BY DEF snd_ctl_add
  <2>3. c \notin Listed /\ c \notin renamed /\ Listed \subseteq Ctl
    BY <2>1, <2>2 DEF LifeOK, RenamedOK, ListOK, Listed
  <2>4. QED
    BY <2>1, <2>2, <2>3
<1>1. CASE snd_ctl_find_id(i) # NULL
  <2>1. life' = [life EXCEPT ![c] = "refused"] /\ UNCHANGED <<list, elems, numid>>
    BY <1>1 DEF snd_ctl_add
  <2>2. ListOK' /\ Listed' = Listed
    BY <1>0, <2>1 DEF ListOK, Listed
  <2>3. LifeOK' /\ RenamedOK'
    BY <1>0, <2>1, <2>2 DEF LifeOK, RenamedOK
  <2>4. \A d \in Listed : id'[d] = id[d]
    BY <1>0 DEF IdOK
  <2>5. id' \in [Ctl -> Id] /\ \A d \in Ctl \ {c} : id'[d] = id[d] /\ life'[d] = life[d]
    BY <1>0, <2>1 DEF IdOK, LifeOK
  <2>6. id'[c] = i
    BY <1>0 DEF IdOK
  <2>7. IdOK'
    BY <1>0, <2>2, <2>4, <2>5, <2>6, KindAssumption DEF IdOK
  <2>8. NumOK'
    BY <1>0, <2>1, <2>2 DEF NumOK
  <2>9. QED
    BY <1>0, <1>1, <2>1, <2>2, <2>3, <2>7, <2>8
<1>2. CASE snd_ctl_find_id(i) = NULL
  <2>1. /\ numid' = [numid EXCEPT ![c] = elems + 1] /\ elems' = elems + Count[c]
        /\ list' = Append(list, c) /\ life' = [life EXCEPT ![c] = "listed"]
    BY <1>2 DEF snd_ctl_add
  <2>2. /\ Len(list) \in Nat /\ DOMAIN list = 1 .. Len(list) /\ \A j \in DOMAIN list : list[j] \in Listed
        /\ elems \in Nat /\ Count[c] \in Nat \ {0}
    BY <1>0, CountAssumption DEF ListOK, Listed
  <2>3. /\ list' \in Seq(Ctl) /\ Len(list') = Len(list) + 1 /\ DOMAIN list' = 1 .. Len(list) + 1
        /\ list'[Len(list) + 1] = c /\ \A j \in DOMAIN list : list'[j] = list[j]
    BY <1>0, <2>1, <2>2 DEF ListOK
  <2>4. \A j \in DOMAIN list' : j = Len(list) + 1 \/ j \in DOMAIN list
    BY <2>2, <2>3
  <2>5. Listed' = Listed \cup {c}
    <3>1. \A d \in Listed' : d \in Listed \cup {c}
      BY <2>3, <2>4 DEF Listed
    <3>2. c \in Listed'
      BY <2>2, <2>3 DEF Listed
    <3>3. \A d \in Listed : d \in Listed'
      BY <2>2, <2>3 DEF Listed
    <3>4. QED
      BY <3>1, <3>2, <3>3
  <2>6. \A j, k \in DOMAIN list' : list'[j] = list'[k] => j = k
    BY <1>0, <2>2, <2>3, <2>4 DEF ListOK
  <2>7. ListOK'
    BY <1>0, <2>1, <2>2, <2>3, <2>6 DEF ListOK
  <2>8. LifeOK' /\ RenamedOK'
    BY <1>0, <2>1, <2>5 DEF LifeOK, RenamedOK
  <2>9. \A d \in Listed : id[d] # i
    BY <1>0, <1>2, FindId
  <2>10. /\ id' \in [Ctl -> Id] /\ id'[c] = i
         /\ \A d \in Ctl \ {c} : id'[d] = id[d] /\ life'[d] = life[d]
    BY <1>0, <2>1 DEF IdOK, LifeOK
  <2>11. \A d, e \in Listed' : id'[d] = id'[e] /\ d # e => {d, e} \cap renamed' # {}
    BY <1>0, <2>5, <2>9, <2>10 DEF IdOK
  <2>12. \A d \in Chmap \ renamed' : life'[d] # "none" => id'[d] = [name |-> NameOf[d], index |-> 0]
    BY <1>0, <2>10, KindAssumption DEF IdOK
  <2>13. IdOK'
    BY <2>10, <2>11, <2>12 DEF IdOK
  <2>14. NumOK'
    <3>1. /\ numid' \in [Ctl -> Nat] /\ numid'[c] = elems + 1
          /\ \A d \in Ctl \ {c} : numid'[d] = numid[d]
      BY <1>0, <2>1, <2>2 DEF NumOK
    <3>2. \A d \in Ctl : Count[d] \in Nat
      BY CountAssumption
    <3>3. \A d \in Ctl : numid'[d] # 0 => numid'[d] + Count[d] <= elems' + 1
      BY <1>0, <2>1, <2>2, <3>1, <3>2 DEF NumOK
    <3>4. renumbered' = {} => \A d \in Listed' : numid'[d] # 0
      BY <1>0, <2>2, <2>5, <3>1 DEF NumOK
    <3>5. ASSUME renumbered' = {}, NEW d \in Ctl, NEW e \in Ctl, d # e, numid'[d] # 0, numid'[e] # 0
          PROVE  numid'[d] + Count[d] <= numid'[e] \/ numid'[e] + Count[e] <= numid'[d]
      BY <1>0, <2>2, <3>1, <3>2, <3>5 DEF NumOK
    <3>6. QED
      BY <3>1, <3>3, <3>4, <3>5 DEF NumOK
  <2>15. QED
    BY <1>0, <1>2, <2>1, <2>5, <2>7, <2>8, <2>13, <2>14
<1>3. QED
  BY <1>1, <1>2

(* A listed channel map that was not renamed is the only one.              *)
LEMMA OneChmap ==
  ASSUME IInv, renamed \cap Chmap = {}, NEW c \in Chmap \cap Listed, NEW d \in Chmap \cap Listed
  PROVE  c = d
<1>1. life[c] # "none" /\ life[d] # "none"
  BY KindAssumption DEF IInv, LifeOK
<1>2. id[c] = id[d]
  BY <1>1, ChmapAssumption DEF IInv, IdOK
<1>3. QED
  BY <1>2 DEF IInv, IdOK

(* Removing a control, also one with a copy of its id in the list or with  *)
(* the stream's channel map (snd_ctl_remove).                              *)
LEMMA RemoveKeeps ==
  ASSUME IInv, NEW c \in Ctl, snd_ctl_remove(c)
  PROVE  IInv'
<1>0. /\ ListOK /\ LifeOK /\ RenamedOK /\ IdOK /\ JackOK /\ NumOK /\ ChmapOK /\ TellOK
      /\ Listed \subseteq Ctl
  BY DEF IInv, ListOK, Listed
<1>1. /\ c \in Listed /\ list' = list_del(c) /\ life' = [life EXCEPT ![c] = "freed"]
      /\ chmap_kctl' = IF c \in Chmap THEN NULL ELSE chmap_kctl
      /\ UNCHANGED <<elems, id, numid, renamed, renumbered, status, told>>
  BY DEF snd_ctl_remove, private_free, identVars, jackVars
<1>2. ListOK' /\ Listed' = Listed \ {c}
  BY <1>0, <1>1, RemovesOne
<1>3. LifeOK' /\ RenamedOK' /\ JackOK'
  BY <1>0, <1>1, <1>2, KindAssumption DEF LifeOK, RenamedOK, JackOK
<1>4. \A d \in Ctl \ {c} : life'[d] = life[d]
  BY <1>0, <1>1 DEF LifeOK
<1>5. life[c] # "none"
  BY <1>0, <1>1 DEF LifeOK
<1>6. IdOK'
  BY <1>0, <1>1, <1>2, <1>4, <1>5, KindAssumption DEF IdOK
<1>7. NumOK'
  BY <1>0, <1>1, <1>2 DEF NumOK
<1>8. ChmapOK'
  <2>1. CASE c \notin Chmap
    BY <1>0, <1>1, <1>2, <2>1 DEF ChmapOK, ChmapLinked
  <2>2. CASE c \in Chmap
    <3>1. renamed \cap Chmap = {} => \A d \in Chmap : d \notin Listed'
      BY <1>1, <1>2, <2>2, OneChmap
    <3>2. \A d \in Chmap : chmap_kctl' # d
      BY <1>1, <2>2, KindAssumption, NullAssumption
    <3>3. QED
      BY <1>1, <2>2, <3>1, <3>2 DEF ChmapOK, ChmapLinked
  <2>3. QED
    BY <2>1, <2>2
<1>9. TellOK'
  BY <1>0, <1>1 DEF TellOK
<1>10. QED
  BY <1>2, <1>3, <1>6, <1>7, <1>8, <1>9 DEF IInv

(* A rename overwrites id and number of the control found, and of no other *)
(* (snd_ctl_rename_id).                                                    *)
LEMMA RenameKeeps ==
  ASSUME IInv, NEW src, NEW name \in Name, NEW copied \in BOOLEAN, snd_ctl_rename_id(src, name, copied)
  PROVE  IInv'
<1> DEFINE c == snd_ctl_find_id(src)
<1>0. /\ ListOK /\ LifeOK /\ RenamedOK /\ IdOK /\ JackOK /\ NumOK /\ ChmapOK /\ TellOK
      /\ Listed \subseteq Ctl
  BY DEF IInv, ListOK, Listed
<1>1. /\ c # NULL /\ id' = [id EXCEPT ![c].name = name]
      /\ numid' = IF copied THEN numid ELSE [numid EXCEPT ![c] = 0]
      /\ renamed' = renamed \cup {c}
      /\ renumbered' = IF copied THEN renumbered ELSE renumbered \cup {c}
      /\ UNCHANGED <<list, elems, life, status, told, chmap_kctl>>
  BY DEF snd_ctl_rename_id, jackVars
<1>2. c \in Listed /\ c \in Ctl
  BY <1>0, <1>1, FindId
<1> HIDE DEF c
<1>3. Listed' = Listed
  BY <1>1 DEF Listed
<1>4. ListOK' /\ LifeOK' /\ JackOK'
  BY <1>0, <1>1, <1>3 DEF ListOK, LifeOK, JackOK
<1>5. RenamedOK'
  BY <1>0, <1>1, <1>2 DEF RenamedOK, LifeOK
<1>6. IdOK'
  <2>1. id[c] = [name |-> id[c].name, index |-> id[c].index] /\ id[c].index \in Nat
    BY <1>0, <1>2 DEF IdOK, Id
  <2>2. [id[c] EXCEPT !.name = name] = [name |-> name, index |-> id[c].index]
    BY <2>1
  <2>3. [id[c] EXCEPT !.name = name] \in Id
    BY <2>1, <2>2 DEF Id
  <2>4. id' \in [Ctl -> Id] /\ \A d \in Ctl \ {c} : id'[d] = id[d]
    BY <1>0, <1>1, <1>2, <2>3 DEF IdOK
  <2>5. QED
    BY <1>0, <1>1, <1>2, <1>3, <2>4, KindAssumption DEF IdOK
<1>7. NumOK'
  <2>1. numid' \in [Ctl -> Nat] /\ \A d \in Ctl : numid'[d] = numid[d] \/ numid'[d] = 0
    BY <1>0, <1>1, <1>2 DEF NumOK
  <2>2. \A d \in Ctl : numid'[d] # 0 => numid'[d] + Count[d] <= elems' + 1
    BY <1>0, <1>1, <2>1 DEF NumOK
  <2>3. renumbered' = {} => renumbered = {} /\ numid' = numid
    BY <1>1
  <2>4. QED
    BY <1>0, <1>3, <2>1, <2>2, <2>3 DEF NumOK
<1>8. ChmapOK'
  BY <1>0, <1>1, <1>3 DEF ChmapOK, ChmapLinked
<1>9. TellOK'
  BY <1>0, <1>1 DEF TellOK
<1>10. QED
  BY <1>4, <1>5, <1>6, <1>7, <1>8, <1>9 DEF IInv

(* A report sets the status of one jack and tells whoever listens at its   *)
(* id (snd_kctl_jack_report).                                              *)
LEMMA ReportKeeps ==
  ASSUME IInv, NEW c \in Ctl, NEW val \in BOOLEAN, snd_jack_report(c, val)
  PROVE  IInv'
<1>0. /\ ListOK /\ LifeOK /\ RenamedOK /\ IdOK /\ JackOK /\ NumOK /\ ChmapOK /\ TellOK
  BY DEF IInv
<1>1. /\ c \in Jack \cap Listed /\ snd_kctl_jack_report(c, val)
      /\ UNCHANGED <<list, elems, id, numid, renamed, renumbered, life, chmap_kctl>>
  BY DEF snd_jack_report, identVars
<1>2. Listed' = Listed
  BY <1>1 DEF Listed
<1>3. ListOK' /\ LifeOK' /\ RenamedOK' /\ IdOK' /\ JackOK' /\ NumOK' /\ ChmapOK'
  BY <1>0, <1>1, <1>2 DEF ListOK, LifeOK, RenamedOK, IdOK, JackOK, NumOK, ChmapOK, ChmapLinked
<1>4. TellOK'
  <2>1. CASE status[c] = val
    BY <1>0, <1>1, <2>1 DEF snd_kctl_jack_report, jackVars, TellOK
  <2>2. CASE status[c] # val
    <3> DEFINE d == snd_ctl_find_id(id[c])
    <3>1. status' = [status EXCEPT ![c] = val] /\ snd_ctl_notify(id[c], status')
      BY <1>1, <2>2 DEF snd_kctl_jack_report
    <3>2. told' = IF d \in Jack THEN [told EXCEPT ![d] = status'[d]] ELSE told
      BY <3>1 DEF snd_ctl_notify
    <3>3. status' \in [Jack -> BOOLEAN]
      BY <1>0, <1>1, <3>1 DEF TellOK
    <3>4. renamed = {} => d = c
      <4>1. d \in Listed /\ id[d] = id[c]
        BY <1>0, <1>1, FindId
      <4>2. QED
        BY <1>0, <1>1, <4>1 DEF IdOK
    <3> HIDE DEF d
    <3>5. told' \in [Jack -> BOOLEAN]
      BY <1>0, <3>2, <3>3 DEF TellOK
    <3>6. renamed = {} => told' = status'
      BY <1>0, <1>1, <3>1, <3>2, <3>3, <3>4 DEF TellOK
    <3>7. QED
      BY <1>1, <3>3, <3>5, <3>6 DEF TellOK
  <2>3. QED
    BY <2>1, <2>2
<1>5. QED
  BY <1>3, <1>4 DEF IInv

(* The list is empty at the start and nothing is numbered.                 *)
LEMMA InitIInv == Init => IInv
<1> SUFFICES ASSUME Init PROVE IInv
  OBVIOUS
<1>1. ListOK /\ Listed = {}
  BY DEF Init, ListOK, Listed
<1>2. LifeOK /\ RenamedOK /\ JackOK /\ NumOK
  BY <1>1, KindAssumption DEF Init, LifeOK, RenamedOK, JackOK, NumOK
<1>3. IdOK
  BY <1>1, KindAssumption DEF Init, IdOK, Id, NoId
<1>4. ChmapOK
  BY <1>1, KindAssumption, NullAssumption DEF Init, ChmapOK, ChmapLinked
<1>5. TellOK
  BY DEF Init, TellOK
<1>6. QED
  BY <1>1, <1>2, <1>3, <1>4, <1>5 DEF IInv

(* Every call on the registry keeps the invariant.                         *)
LEMMA StepIInv == IInv /\ [Next]_vars => IInv'
<1> SUFFICES ASSUME IInv, [Next]_vars PROVE IInv'
  OBVIOUS
<1>0. ListOK /\ IdOK /\ JackOK /\ ChmapOK /\ TellOK /\ LifeOK
  BY DEF IInv
<1>1. ASSUME NEW c \in Ctl, NEW index \in Index, AddPlain(c, index) PROVE IInv'
  <2> DEFINE i == [name |-> NameOf[c], index |-> index]
  <2>1. i \in Id
    BY IndexAssumption DEF Id
  <2>2. c \notin Jack \cup Chmap /\ snd_ctl_add(c, i) /\ UNCHANGED <<status, told, chmap_kctl>>
    BY <1>1 DEF AddPlain, jackVars
  <2> HIDE DEF i
  <2>3. /\ ListOK' /\ LifeOK' /\ RenamedOK' /\ IdOK' /\ NumOK' /\ UNCHANGED renamed
        /\ \A d \in Ctl \ {c} : life'[d] = life[d] /\ (d \in Listed' <=> d \in Listed)
    BY <1>0, <2>1, <2>2, AddKeeps DEF LifeOK
  <2>4. JackOK'
    BY <1>0, <2>2, <2>3, KindAssumption DEF JackOK
  <2>5. ChmapOK' /\ TellOK'
    BY <1>0, <2>2, <2>3, KindAssumption DEF ChmapOK, ChmapLinked, TellOK
  <2>6. QED
    BY <2>3, <2>4, <2>5 DEF IInv
<1>2. ASSUME NEW c \in Ctl, snd_jack_new(c) PROVE IInv'
  <2> DEFINE i == [name |-> NameOf[c], index |-> get_available_index(NameOf[c])]
  <2>1. i \in Id /\ snd_ctl_find_id(i) = NULL
    BY <1>0, IndexIsFree DEF Id
  <2>2. c \in Jack /\ c \notin Chmap /\ snd_ctl_add(c, i) /\ UNCHANGED <<status, told, chmap_kctl>>
    BY <1>2, KindAssumption DEF snd_jack_new, jackVars
  <2> HIDE DEF i
  <2>3. /\ ListOK' /\ LifeOK' /\ RenamedOK' /\ IdOK' /\ NumOK' /\ UNCHANGED renamed
        /\ life' = [life EXCEPT ![c] = "listed"] /\ Listed' = Listed \cup {c}
    BY <1>0, <2>1, <2>2, AddKeeps
  <2>4. JackOK'
    BY <1>0, <2>2, <2>3, KindAssumption DEF JackOK, LifeOK
  <2>5. ChmapOK' /\ TellOK'
    BY <1>0, <2>2, <2>3 DEF ChmapOK, ChmapLinked, TellOK
  <2>6. QED
    BY <2>3, <2>4, <2>5 DEF IInv
<1>3. ASSUME NEW c \in Ctl, snd_pcm_add_chmap_ctls(c) PROVE IInv'
  <2> DEFINE i == [name |-> NameOf[c], index |-> 0]
  <2>1. i \in Id
    BY DEF Id
  <2>2. /\ c \in Chmap /\ c \notin Jack /\ snd_ctl_add(c, i) /\ UNCHANGED <<status, told>>
        /\ chmap_kctl' = IF life'[c] = "listed" THEN c ELSE chmap_kctl
    BY <1>3, KindAssumption DEF snd_pcm_add_chmap_ctls, jackVars
  <2>3. /\ ListOK' /\ LifeOK' /\ RenamedOK' /\ IdOK' /\ NumOK' /\ UNCHANGED renamed /\ c \notin Listed
        /\ \/ life' = [life EXCEPT ![c] = "refused"] /\ Listed' = Listed /\ snd_ctl_find_id(i) # NULL
           \/ life' = [life EXCEPT ![c] = "listed"] /\ Listed' = Listed \cup {c}
              /\ snd_ctl_find_id(i) = NULL
    BY <2>1, <2>2, AddKeeps
  <2>4. JackOK' /\ TellOK'
    BY <1>0, <2>2, <2>3, KindAssumption DEF JackOK, LifeOK, TellOK
  <2>5. ChmapOK'
    <3>1. CASE life' = [life EXCEPT ![c] = "refused"] /\ Listed' = Listed
      <4>1. chmap_kctl' = chmap_kctl
        BY <1>0, <2>2, <3>1 DEF LifeOK
      <4>2. QED
        BY <1>0, <2>3, <3>1, <4>1 DEF ChmapOK, ChmapLinked
    <3>2. CASE life' = [life EXCEPT ![c] = "listed"] /\ Listed' = Listed \cup {c} /\ snd_ctl_find_id(i) = NULL
      <4>1. chmap_kctl' = c
        BY <1>0, <2>2, <3>2 DEF LifeOK
      <4>2. \A d \in Listed : id[d] # i
        BY <1>0, <3>2, FindId
      <4>3. renamed \cap Chmap = {} => \A d \in Chmap : d \notin Listed
        <5> SUFFICES ASSUME renamed \cap Chmap = {}, NEW d \in Chmap, d \in Listed PROVE FALSE
          OBVIOUS
        <5>1. id[d] = [name |-> NameOf[d], index |-> 0]
          BY <1>0, KindAssumption DEF IdOK, LifeOK
        <5>2. QED
          BY <2>2, <4>2, <5>1, ChmapAssumption
      <4>4. QED
        BY <2>2, <2>3, <3>2, <4>1, <4>3 DEF ChmapOK, ChmapLinked
    <3>3. QED
      BY <2>3, <3>1, <3>2
  <2>6. QED
    BY <2>3, <2>4, <2>5 DEF IInv
<1>4. ASSUME NEW c \in Ctl, snd_ctl_remove(c) PROVE IInv'
  BY <1>4, RemoveKeeps
<1>5. ASSUME NEW c \in Ctl, NEW val \in BOOLEAN, snd_jack_report(c, val) PROVE IInv'
  BY <1>5, ReportKeeps
<1>6. ASSUME NEW i \in Ids, snd_ctl_remove_id(i) PROVE IInv'
  <2>1. snd_ctl_find_id(i) \in Listed /\ Listed \subseteq Ctl
    BY <1>0, <1>6, FindId DEF snd_ctl_remove_id, ListOK, Listed
  <2>2. QED
    BY <1>6, <2>1, RemoveKeeps DEF snd_ctl_remove_id
<1>7. ASSUME NEW i \in Ids, NEW name \in Name, NEW copied \in BOOLEAN, snd_ctl_rename_id(i, name, copied)
      PROVE  IInv'
  BY <1>7, RenameKeeps
<1>8. CASE UNCHANGED vars
  <2>1. UNCHANGED <<list, elems, id, numid, renamed, renumbered, life, status, told, chmap_kctl>>
    BY <1>8 DEF vars, identVars, jackVars
  <2>2. Listed' = Listed
    BY <2>1 DEF Listed
  <2>3. QED
    BY <2>1, <2>2 DEF IInv, ListOK, LifeOK, RenamedOK, IdOK, JackOK, NumOK, ChmapOK, ChmapLinked, TellOK
<1>9. QED
  BY <1>1, <1>2, <1>3, <1>4, <1>5, <1>6, <1>7, <1>8 DEF Next

(* The inductive invariant holds of every behaviour of the registry. *)
THEOREM ControlsInvariant == Spec => []IInv
BY InitIInv, StepIInv, PTL DEF Spec

(* The registry keeps its type: the list holds the controls that live, and *)
(* the counter is never behind it (snd_ctl_add, snd_ctl_remove).           *)
THEOREM TypeCorrect == Spec => []TypeOK
<1>1. IInv => TypeOK
  <2> SUFFICES ASSUME IInv PROVE TypeOK
    OBVIOUS
  <2>1. Listed \subseteq Ctl
    BY DEF IInv, ListOK, Listed
  <2>2. \A c \in Ctl : id[c].index \in Nat
    BY DEF IInv, IdOK, Id
  <2>3. QED
    BY <2>1, <2>2 DEF IInv, ListOK, LifeOK, RenamedOK, NumOK, ChmapOK, TellOK, TypeOK
<1>2. QED
  BY <1>1, ControlsInvariant, PTL

(* However controls are added, refused and removed, two have the same id   *)
(* only if one was renamed, and no jack is refused (get_available_index).  *)
THEOREM UniqueIds == Spec => []IdsUnique
<1>1. IInv => IdsUnique
  BY DEF IInv, IdOK, JackOK, IdsUnique
<1>2. QED
  BY <1>1, ControlsInvariant, PTL

(* The number once listed for an element finds it as long as its control   *)
(* lives and nothing after that, until a rename takes a control's number   *)
(* (snd_ctl_find_numid, get_ctl_numid).                                    *)
THEOREM NumbersNameElements == Spec => []NumbersKeepMeaning
<1>1. IInv => NumbersKeepMeaning
  <2> SUFFICES ASSUME IInv, renumbered = {}
               PROVE  /\ \A c \in Ctl : numid[c] # 0 =>
                           \A k \in 0 .. Count[c] - 1 :
                             snd_ctl_find_numid(numid[c] + k) = IF c \in Listed THEN c ELSE NULL
                      /\ \A c \in Listed : id[snd_ctl_find_numid(get_ctl_numid(id[c]))] = id[c]
    BY DEF NumbersKeepMeaning
  <2>0. ListOK /\ NumOK /\ Listed \subseteq Ctl /\ \A d \in Ctl : Count[d] \in Nat \ {0} /\ numid[d] \in Nat
    BY CountAssumption DEF IInv, ListOK, Listed, NumOK
  <2>1. ASSUME NEW c \in Ctl, numid[c] # 0, NEW k \in 0 .. Count[c] - 1
        PROVE  snd_ctl_find_numid(numid[c] + k) = IF c \in Listed THEN c ELSE NULL
    <3> DEFINE C == {d \in Ctl : numid[d] <= numid[c] + k /\ numid[c] + k < numid[d] + Count[d]}
    <3>1. c \in C
      BY <2>0, <2>1
    <3>2. ASSUME NEW d \in C \cap Listed, d # c PROVE FALSE
      <4>1. numid[d] # 0
        BY <2>0 DEF NumOK
      <4>2. numid[c] + Count[c] <= numid[d] \/ numid[d] + Count[d] <= numid[c]
        BY <2>0, <2>1, <3>2, <4>1 DEF NumOK
      <4>3. QED
        BY <2>0, <2>1, <4>2
    <3>3. snd_ctl_find_numid(numid[c] + k) = First(C)
      BY DEF snd_ctl_find_numid
    <3> HIDE DEF C
    <3>4. QED
      BY <2>0, <3>1, <3>2, <3>3, FirstFinds
  <2>2. ASSUME NEW c \in Listed PROVE id[snd_ctl_find_numid(get_ctl_numid(id[c]))] = id[c]
    <3> DEFINE d == snd_ctl_find_id(id[c])
    <3>1. d # NULL /\ d \in Listed /\ id[d] = id[c]
      BY <2>0, FindId
    <3>2. get_ctl_numid(id[c]) = numid[d]
      BY <3>1 DEF get_ctl_numid
    <3> HIDE DEF d
    <3>3. numid[d] # 0 /\ 0 \in 0 .. Count[d] - 1 /\ numid[d] + 0 = numid[d]
      BY <2>0, <3>1 DEF NumOK
    <3>4. snd_ctl_find_numid(numid[d] + 0) = d
      BY <2>0, <2>1, <3>1, <3>3
    <3>5. QED
      BY <3>1, <3>2, <3>3, <3>4
  <2>3. QED
    BY <2>1, <2>2
<1>2. QED
  BY <1>1, ControlsInvariant, PTL

(* The stream's channel-map control is the one in the list, whatever is    *)
(* added twice or removed (snd_pcm_add_chmap_ctls, private_free).          *)
THEOREM ChmapStaysLinked == Spec => []ChmapLinked
<1>1. IInv => ChmapLinked
  BY DEF IInv, ChmapOK
<1>2. QED
  BY <1>1, ControlsInvariant, PTL

(* Whoever follows the notifications knows every jack, until a control is  *)
(* renamed (snd_kctl_jack_report, snd_ctl_notify).                         *)
THEOREM ListenersKnowJacks == Spec => []JackTold
<1>1. IInv => JackTold
  BY DEF IInv, TellOK, JackTold
<1>2. QED
  BY <1>1, ControlsInvariant, PTL
=============================================================================
