-------------------------------- MODULE Coef --------------------------------
(***************************************************************************)
(* The processing coefficients of one widget as hda-int.c keeps them: a    *)
(* list of index/value pairs, newest first, searched with an index         *)
(* register that is wider than the indices stored in the list.             *)
(***************************************************************************)
EXTENDS Naturals, Sequences

CONSTANTS
  IdxSpace,   \* the number of values of tbl->idx, an unsigned short
  Value,      \* values of a coefficient, 0 among them
  MaxIdx,     \* bound on coef_idx, an unsigned int
  MaxEntries  \* bound on the length of the list

ASSUME IdxSpaceAssumption == IdxSpace \in Nat \ {0}
ASSUME ValueAssumption == 0 \in Value
ASSUME MaxIdxAssumption == MaxIdx \in Nat /\ IdxSpace - 1 <= MaxIdx

VARIABLES
  coef_tbl,  \* node->coef_tbl, head first
  coef_idx,  \* node->coef_idx
  coef_rc,   \* codec->rc
  req,       \* the last request: its verb and parameter
  past       \* a coefficient was written past the last index

vars == <<coef_tbl, coef_idx, coef_rc, req, past>>

Index == 0 .. IdxSpace - 1

Init == coef_tbl = <<>> /\ coef_idx = 0 /\ coef_rc = 0 /\ past = FALSE
        /\ req = <<"get_index", 0>>

(* find_proc_coef compares the whole index register with the stored index  *)
(* and takes the first entry that matches.                                 *)
Matches(idx) == {i \in DOMAIN coef_tbl : coef_tbl[i].idx = idx}

find_proc_coef(idx) == CHOOSE i \in Matches(idx) : \A j \in Matches(idx) : i <= j

ValueAt(idx) == IF Matches(idx) = {} THEN 0 ELSE coef_tbl[find_proc_coef(idx)].value

\* Mutant: the new entry goes to the tail of the list.
create_proc_coef_at_tail(idx, v) ==
  Append(coef_tbl, [idx |-> idx % IdxSpace, value |-> v])

(* Storing the index drops all but its low bits. *)
create_proc_coef(idx, v) ==
  <<[idx |-> idx % IdxSpace, value |-> v]>> \o coef_tbl

store_proc_coef(idx, v) ==
  IF Matches(idx) # {}
  THEN coef_tbl' = [coef_tbl EXCEPT ![find_proc_coef(idx)].value = v]
  ELSE /\ Len(coef_tbl) < MaxEntries
       /\ coef_tbl' = create_proc_coef(idx, v)

----------------------------------------------------------------------------
\* Mutant: the index is not cut to its width.
set_coef_index_unmasked(i) ==
  /\ req' = <<"set_index", i>>
  /\ coef_idx' = i + IdxSpace * MaxIdx
  /\ coef_rc' = 0
  /\ UNCHANGED <<coef_tbl, past>>

set_coef_index(i) ==
  /\ req' = <<"set_index", i>>
  /\ coef_idx' = i
  /\ coef_rc' = 0
  /\ UNCHANGED <<coef_tbl, past>>

get_coef_index ==
  /\ req' = <<"get_index", 0>>
  /\ coef_rc' = coef_idx
  /\ UNCHANGED <<coef_tbl, coef_idx, past>>

set_proc_coef(v) ==
  /\ req' = <<"set", v>>
  /\ coef_idx < MaxIdx
  /\ store_proc_coef(coef_idx, v)
  /\ coef_idx' = coef_idx + 1
  /\ coef_rc' = 0
  /\ past' = (past \/ coef_idx >= IdxSpace)

get_proc_coef ==
  /\ req' = <<"get", 0>>
  /\ coef_idx < MaxIdx
  /\ coef_rc' = ValueAt(coef_idx)
  /\ coef_idx' = coef_idx + 1
  /\ UNCHANGED <<coef_tbl, past>>

(* The parser stores the coefficients a proc file lists. *)
hda_set_proc_coef(idx, v) ==
  /\ req' = <<"load", v>>
  /\ store_proc_coef(idx, v)
  /\ UNCHANGED <<coef_idx, coef_rc, past>>

Next ==
  \/ \E i \in Index : set_coef_index(i)
  \/ get_coef_index
  \/ \E v \in Value : set_proc_coef(v)
  \/ get_proc_coef
  \/ \E idx \in Index, v \in Value : hda_set_proc_coef(idx, v)

Spec == Init /\ [][Next]_vars

----------------------------------------------------------------------------
(* The list holds one entry an index, so it cannot outgrow the index       *)
(* space, until a write goes past the last index.                          *)
TypeOK ==
  /\ coef_tbl \in Seq([idx : Index, value : Value])
  /\ coef_idx \in 0 .. MaxIdx
  /\ coef_rc \in Value \cup 0 .. MaxIdx
  /\ req[1] \in {"set_index", "get_index", "set", "get", "load"}
  /\ past \in BOOLEAN
  /\ ~past => \A i, j \in DOMAIN coef_tbl : coef_tbl[i].idx = coef_tbl[j].idx => i = j

(* The list is a memory: what a read responds with is the last value       *)
(* written at that index, by either interface, also where entries written  *)
(* past the last index have come to shadow older ones.                     *)
Memory == INSTANCE CoefMemory
            WITH mem <- [i \in Index |-> ValueAt(i)], idx <- coef_idx, out <- coef_rc

CoefsAreMemory == Memory!Spec
=============================================================================
