--------------------------- MODULE SafeReclamation ---------------------------
(***************************************************************************)
(* What epoch protection promises its clients, with no epochs in it: an    *)
(* object that has been unlinked is reclaimed once, and only while no      *)
(* reader holds it.                                                        *)
(***************************************************************************)
CONSTANTS
  Reader,      \* the threads that take references
  Object

VARIABLES linked, held, freed

vars == <<linked, held, freed>>

Init ==
  /\ linked = Object
  /\ held = [r \in Reader |-> {}]
  /\ freed = {}

\* A reader reaches an object that is still linked.
Acquire(r, o) ==
  /\ o \in linked
  /\ held' = [held EXCEPT ![r] = @ \cup {o}]
  /\ UNCHANGED <<linked, freed>>

\* A reader passes a point where it holds nothing.
Quiesce(r) ==
  /\ held' = [held EXCEPT ![r] = {}]
  /\ UNCHANGED <<linked, freed>>

Unlink(o) ==
  /\ o \in linked
  /\ linked' = linked \ {o}
  /\ UNCHANGED <<held, freed>>

Reclaim(o) ==
  /\ o \in Object \ (linked \cup freed)
  /\ \A r \in Reader : o \notin held[r]
  /\ freed' = freed \cup {o}
  /\ UNCHANGED <<linked, held>>

Next ==
  \/ \E r \in Reader : Quiesce(r) \/ \E o \in Object : Acquire(r, o)
  \/ \E o \in Object : Unlink(o) \/ Reclaim(o)

Spec == Init /\ [][Next]_vars
=============================================================================
