-------------------------------- MODULE Drain --------------------------------
(***************************************************************************)
(* What Server.Stop promises to stopServers: a graceful stop.  It hides    *)
(* the WaitGroup, the channel, the deadlines and what a handler does.      *)
(***************************************************************************)
CONSTANT Conns
VARIABLES
  phase,      \* "up", "stopping", "stopped", or "crashed" by a panic
  accepting,  \* may a connection still become active?
  active      \* the connections that are being served

vars == <<phase, accepting, active>>

Running == phase \in {"up", "stopping"}

TypeOK ==
  /\ phase \in {"up", "stopping", "stopped", "crashed"}
  /\ accepting \in BOOLEAN
  /\ active \subseteq Conns

Init == phase = "up" /\ accepting = TRUE /\ active = {}

(* A connection may be accepted for as long as Serve runs, even while the  *)
(* server is stopping.                                                     *)
Open(c) ==
  /\ Running /\ accepting
  /\ c \notin active
  /\ active' = active \cup {c}
  /\ UNCHANGED <<phase, accepting>>

Finish(c) ==
  /\ Running
  /\ c \in active
  /\ active' = active \ {c}
  /\ UNCHANGED <<phase, accepting>>

RequestStop == phase = "up" /\ phase' = "stopping" /\ UNCHANGED <<accepting, active>>

StopAccepting ==
  /\ phase = "stopping" /\ accepting
  /\ accepting' = FALSE
  /\ UNCHANGED <<phase, active>>

Return ==
  /\ phase = "stopping" /\ ~accepting /\ active = {}
  /\ phase' = "stopped"
  /\ UNCHANGED <<accepting, active>>

(* A panic of any goroutine ends the process.                              *)
Crash == Running /\ phase' = "crashed" /\ UNCHANGED <<accepting, active>>

Next ==
  \/ \E c \in Conns : Open(c) \/ Finish(c)
  \/ RequestStop \/ StopAccepting \/ Return \/ Crash

Safety == Init /\ [][Next]_vars

(* A server that is stopping ends every connection in bounded time.        *)
Spec ==
  /\ Safety
  /\ WF_vars(StopAccepting)
  /\ \A c \in Conns : WF_vars(phase = "stopping" /\ Finish(c))
  /\ WF_vars(Return)
==============================================================================
