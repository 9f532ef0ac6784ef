------------------------------- MODULE Vector -------------------------------
(***************************************************************************)
(* toys::vector of klibc/vector.hpp as a sequence.  m_capacity is the      *)
(* number of elements; every change of it goes through resize, which       *)
(* copies the elements to a new array.  Elements of the new array that     *)
(* resize does not copy have no defined value.                             *)
(***************************************************************************)
EXTENDS Integers, Sequences

Undefined == "undefined"

Empty == <<>>
Size(v) == Len(v)

(* operator[] panics unless i < m_capacity; indices are the code's, from 0 *)
InBounds(v, i) == i >= 0 /\ i < Size(v)
At(v, i) == v[i + 1]
Put(v, i, x) == [v EXCEPT ![i + 1] = x]

resize(v, n) ==
  [i \in 1 .. n |-> IF i <= Size(v) THEN v[i] ELSE Undefined]

push_back(v, x) == Put(resize(v, Size(v) + 1), Size(v), x)
=============================================================================
