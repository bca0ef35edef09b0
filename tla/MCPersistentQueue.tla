-------------------------- MODULE MCPersistentQueue --------------------------
(* Instances of PersistentQueue for TLC. *)
EXTENDS PersistentQueue, TLC

CONSTANTS a, b

\* Two items that differ in both words.
MCItems == {<<a, a>>, <<b, b>>}

\* One item, where what is enqueued does not matter.
MCOneItem == {<<a, b>>}

\* Threads of one kind are interchangeable, and so are the words of the items.
Symmetry == Permutations(Producers) \cup Permutations(Consumers) \cup Permutations({a, b})
=============================================================================
