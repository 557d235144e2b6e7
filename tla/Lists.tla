------------------------------- MODULE Lists --------------------------------
(***************************************************************************)
(* Methods of arrays and objects of the plug-in: filter, sort and the      *)
(* assignment to a property.  What is kept, and what goes before what, are *)
(* sets and not operators, so that a theorem can be about all of them.     *)
(***************************************************************************)
EXTENDS Integers, Sequences, FiniteSets, SequencesExt

\* filter: the elements of s that are in S, in their order.
Kept(s, S) ==
    FoldLeft(LAMBDA kept, e : IF e \in S THEN Append(kept, e) ELSE kept, <<>>, s)

\* An element goes behind those that it does not precede.
Insert(sorted, e, Before) ==
    InsertAt(sorted, 1 + Cardinality({i \in DOMAIN sorted : <<e, sorted[i]>> \notin Before}), e)

\* sort, which is stable.
Sorted(s, Before) == FoldLeft(LAMBDA sorted, e : Insert(sorted, e, Before), <<>>, s)

\* object[key] = value, whether the key is new or known.
With(object, key, value) ==
    [k \in DOMAIN object \cup {key} |-> IF k = key THEN value ELSE object[k]]
=============================================================================
