---------------------------- MODULE MCSystemPhases --------------------------
(* The hosts of SystemPhases that TLC checks. *)
EXTENDS SystemPhases

\* Any action, started when all threads rest; sessions that start and stop at
\* any moment; and log checkpoints started back to back.
WaitingHost ==
  [actions |-> Actions, sessions |-> {"stop"}, waits |-> TRUE, page_fills |-> FALSE]
SessionsHost ==
  [actions |-> {"CheckpointHybridLog", "GC", "GrowIndex"},
   sessions |-> {"start", "stop"}, waits |-> TRUE, page_fills |-> FALSE]
RepeatingHost ==
  [actions |-> {"CheckpointFull", "CheckpointHybridLog"},
   sessions |-> {}, waits |-> FALSE, page_fills |-> TRUE]
ThreeHosts == {WaitingHost, SessionsHost, RepeatingHost}

\* Any action, by sessions that stay.
StayingHost == {[WaitingHost EXCEPT !.sessions = {}]}

\* Two hosts the code is not made for (see the README): one that starts an
\* action before all threads have come back to rest from the last one, and one
\* that stops a session while an action starts.
MixingHost == {[WaitingHost EXCEPT !.sessions = {}, !.waits = FALSE]}
StoppingHost == {[WaitingHost EXCEPT !.actions = {"CheckpointIndex"}]}
=============================================================================
