----------------------------- MODULE IdMapIndex -----------------------------
(***************************************************************************)
(* The index FaissSearcher works on, an IndexIDMap around an IVF index, as *)
(* far as faiss_searcher.cpp relies on it: the IVF index keeps vectors     *)
(* under numbers of its own, IndexIDMap keeps the label of number n at     *)
(* position n of an array.  FAISS is not part of the repository: the       *)
(* module is external.  A vector is the person it shows; a label is the    *)
(* person its caller filed it under.                                       *)
(***************************************************************************)
EXTENDS Naturals, Sequences, FiniteSets

CONSTANTS
    People,
    Garbage    \* a label nobody is filed under

Fresh(kind, nlist, dim) ==
    [kind |-> kind, nlist |-> nlist, dim |-> dim,
     store |-> <<>>, labels |-> <<>>]

Holding(ix, store, labels) ==
    [kind |-> ix.kind, nlist |-> ix.nlist, dim |-> ix.dim,
     store |-> store, labels |-> labels]

(* No index, and what is in a file that was not written to its end.        *)
NoIndex == Fresh("none", 0, 0)
Torn == Fresh("torn", 0, 0)

ntotal(ix) == Len(ix.labels)

(* Numbers are handed out from the current count, whatever was removed.    *)
add_with_ids(ix, who) ==
    Holding(ix,
            ix.store \o [i \in 1..Len(who) |-> [num |-> Len(ix.store) + i, who |-> who[i]]],
            ix.labels \o who)

(* What a search may find at a vector's number: its label or, past the end *)
(* of the array, whatever lies there, an old label of anybody included.    *)
InArray(ix, v) == v.num \in 1..ntotal(ix)
Readings(ix, v) ==
    IF InArray(ix, v) THEN {ix.labels[v.num]} ELSE People \cup {Garbage}

(* The entries of s in these places, in their order and without gaps.      *)
Compacted(s, places) ==
    [n \in 1..Cardinality(places) |->
        s[CHOOSE i \in places : Cardinality({j \in places : j <= i}) = n]]

(* The IVF index drops the vectors whose label is selected and leaves the  *)
(* other numbers alone; IndexIDMap closes the gaps in its array.  A vector *)
(* whose number is past the end goes or stays by what is read there:       *)
(* "strays" are those that go.                                             *)
StrayPlaces(ix) == {i \in 1..Len(ix.store) : ~InArray(ix, ix.store[i])}
Staying(ix, selected, strays) ==
    {i \in 1..Len(ix.store) :
        IF InArray(ix, ix.store[i]) THEN ix.labels[ix.store[i].num] \notin selected
        ELSE i \notin strays}
Unselected(ix, selected) == {i \in 1..ntotal(ix) : ix.labels[i] \notin selected}

remove_ids(ix, selected, strays) ==
    Holding(ix,
            Compacted(ix.store, Staying(ix, selected, strays)),
            Compacted(ix.labels, Unselected(ix, selected)))

(* IndexIDMap asserts that both dropped as many.                           *)
Balanced(ix) == Len(ix.store) = Len(ix.labels)

(* A search for somebody enrolled finds their vector and returns its label. *)
Vectors(ix) == {ix.store[i] : i \in 1..Len(ix.store)}
Answers(ix) == UNION {{v.who} \X Readings(ix, v) : v \in Vectors(ix)}
Labels(ix) == {ix.labels[i] : i \in 1..ntotal(ix)}

(* Those selected were filed after everybody who stays.                    *)
FiledLast(ix, selected) ==
    \A i, j \in 1..ntotal(ix) :
        ix.labels[i] \in selected /\ i < j => ix.labels[j] \in selected
=============================================================================
