---------------------------- MODULE MCHybridLog ----------------------------
(***************************************************************************)
(* Environments for HybridLog with a buffer of five pages.                 *)
(***************************************************************************)
EXTENDS HybridLog

Environment(ts, s, d, h, c, x, r, l) ==
  [threads |-> ts, start |-> s, disk |-> d, host |-> h, checkpoints |-> c, crashes |-> x,
   reads |-> r, last |-> l]
One == {CHOOSE t \in Thread : TRUE}

\* Two threads: a checkpoint and a crash; a restored log whose writes end in any
\* order, with readers and with a checkpoint; a checkpoint during which the host
\* goes on.  No slot is used for a second page here.
SharedEnvironments == {
  Environment(Thread, 0, "ordered", "waits", 1, 1, FALSE, 2),
  Environment(Thread, 8, "any", "waits", 0, 0, TRUE, 4),
  Environment(Thread, 8, "any", "waits", 1, 0, FALSE, 4),
  Environment(Thread, 8, "ordered", "runs", 1, 0, FALSE, 3) }

\* One thread: slots are used for a second page, on a new log and on a restored
\* one, with a checkpoint, a crash and readers.
AloneEnvironments == {
  Environment(One, 0, "ordered", "runs", 1, 1, TRUE, 5),
  Environment(One, 8, "any", "waits", 1, 1, TRUE, 6) }

MCEnvironments == SharedEnvironments \cup AloneEnvironments

\* A new log, up to the first page whose slot had another one.
ReusedEnvironments == {Environment(Thread, 0, "ordered", "waits", 0, 0, FALSE, 5)}

\* A new log whose writes end in any order, before any slot is used again.
AnyOrderEnvironments == {Environment(Thread, 0, "any", "waits", 0, 0, FALSE, 4)}
=============================================================================
