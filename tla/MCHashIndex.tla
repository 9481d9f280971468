---------------------------- MODULE MCHashIndex -----------------------------
(* The instances of HashIndex that TLC checks. *)
EXTENDS HashIndex, TLC

\* Three threads race for one tag in a chain of up to two buckets; two calls at
\* once for two tags, with deletion, in a chain of one-entry buckets.
RaceAndChain ==
  {[ops |-> {"read", "update", "clean"}, tags |-> {g}, calls |-> 3,
    entries |-> 2, overflow |-> 1] : g \in Tag}
    \cup {[ops |-> Ops, tags |-> Tag, calls |-> 2, entries |-> 1, overflow |-> 2]}

\* Three threads that also delete one tag: the plain store of InternalDelete
\* breaks OneFinalEntry, stated without its exemption (see the README).
DeleteRace ==
  {[ops |-> {"read", "update", "delete"}, tags |-> {g}, calls |-> 3,
    entries |-> 2, overflow |-> 0] : g \in Tag}

\* Threads and tags are interchangeable.
IndexSymmetry == Permutations(Thread) \cup Permutations(Tag)
=============================================================================
