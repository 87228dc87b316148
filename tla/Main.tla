-------------------------------- MODULE Main --------------------------------
(***************************************************************************)
(* main: load the protocols of config.json one after the other, wait for   *)
(* SIGINT or SIGTERM, stop the servers one after the other.  Each server   *)
(* does here what Drain says, which Server implements; its index is that   *)
(* of its protocol in the configuration.                                   *)
(***************************************************************************)
EXTENDS Naturals, Sequences, FiniteSets

CONSTANTS
  Configs,    \* the sequences of protocols that config.json may list
  Names,      \* the names of protocols
  Loadable,   \* those that main has a handler for
  Ports,      \* the ports; 0 in a configuration is one that is empty, zero or no port at all
  Conns,      \* the connections of a server
  MaxServers, \* bound: the length of a configuration
  Env         \* the faults: "config" cannot be read, "stores" cannot be reached, a port is
              \* "taken", a decoder hangs ("hang"), a "panic"

Protocol == [name : Names, port : Ports \cup {0}, enabled : BOOLEAN]

ASSUME BoundAssumption == MaxServers \in Nat
ASSUME ConfigsAssumption == \A s \in Configs : s \in Seq(Protocol) /\ Len(s) <= MaxServers

VARIABLES
  config,    \* config.Protocols
  life,      \* where main is; "killed" and "exited" processes do nothing
  next,      \* the index of the protocol it loads
  out,       \* the server whose file the log is written to, 0 for stderr
  state,     \* per protocol: "none" or "up", "stopping", "stopped"
  listens,   \* per protocol: the port its server has, 0 for none
  file,      \* per protocol: is the server's log file open?
  accepting, \* per protocol: has Serve not returned?
  active,    \* per protocol: the connections being served
  hung       \* per protocol: those in a decoder that does not return

serverVars == <<state, listens, file, accepting, active, hung>>
vars == <<config, life, next, out, serverVars>>

Slots == 1..MaxServers
Servers == 1..Len(config)
Wanted(k) == k \in Servers /\ config[k].enabled /\ config[k].name \in Loadable
Running == life \notin {"killed", "exited"}

Init ==
  /\ config \in Configs
  /\ life = "start" /\ next = 1 /\ out = 0
  /\ state = [k \in Slots |-> "none"]
  /\ listens = [k \in Slots |-> 0]
  /\ file = [k \in Slots |-> FALSE]
  /\ accepting = [k \in Slots |-> FALSE]
  /\ active = [k \in Slots |-> {}]
  /\ hung = [k \in Slots |-> {}]

-----------------------------------------------------------------------------
(* main's loop *)

(* The whole process ends, with the servers that are up already.           *)
Fatal == life' = "killed" /\ UNCHANGED <<config, next, out, serverVars>>

(* config.json is opened and decoded, or the process ends.                 *)
Configure ==
  /\ life = "start"
  /\ \/ life' = "load" /\ UNCHANGED <<config, next, out, serverVars>>
     \/ "config" \in Env /\ Fatal

(* A protocol that is disabled, or that the switch does not know.          *)
SkipBreaks ==
  /\ life = "load" /\ next \in Servers
  /\ ~Wanted(next)
  /\ life' = "loaded"
  /\ UNCHANGED <<config, next, out, serverVars>>
Skip ==
  /\ life = "load" /\ next \in Servers
  /\ ~Wanted(next)
  /\ next' = next + 1
  /\ UNCHANGED <<config, life, out, serverVars>>

(* NewServer: stores that cannot be reached are fatal, and the log goes to *)
(* the file of the newest server from now on.                              *)
NewServer ==
  /\ life = "load" /\ next \in Servers
  /\ Wanted(next)
  /\ \/ /\ life' = "listen" /\ out' = next
        /\ file' = [file EXCEPT ![next] = TRUE]
        /\ UNCHANGED <<config, next, state, listens, accepting, active, hung>>
     \/ "stores" \in Env /\ Fatal

(* Start: Listen, whose failure is fatal, and `go s.Serve()`.  A port that *)
(* ResolveTCPAddr makes nothing of is not: its error is ignored, and as    *)
(* for port 0 the system chooses one.                                      *)
Free(port) == \A k \in Servers : state[k] # "none" => listens[k] # port
Choices(port) == IF port = 0 THEN Ports ELSE {port}

StartWith(port, step) ==
  /\ state' = [state EXCEPT ![next] = "up"]
  /\ listens' = [listens EXCEPT ![next] = port]
  /\ accepting' = [accepting EXCEPT ![next] = TRUE]
  /\ next' = next + step /\ life' = "load"
  /\ UNCHANGED <<config, out, file, active, hung>>

StartSkipsNext ==
  /\ life = "listen"
  /\ \/ \E port \in Choices(config[next].port) : Free(port) /\ StartWith(port, 2)
     \/ ("taken" \in Env \/ \A port \in Choices(config[next].port) : ~Free(port)) /\ Fatal
Start ==
  /\ life = "listen"
  /\ \/ \E port \in Choices(config[next].port) : Free(port) /\ StartWith(port, 1)
     \/ ("taken" \in Env \/ \A port \in Choices(config[next].port) : ~Free(port)) /\ Fatal

(* The rest of main, up to the signal: what follows the loop, Notify, and  *)
(* the receive.                                                            *)
Loaded ==
  /\ life = "load" /\ next \notin Servers
  /\ life' = "loaded"
  /\ UNCHANGED <<config, next, out, serverVars>>

Notify ==
  /\ life = "loaded" /\ life' = "notified"
  /\ UNCHANGED <<config, next, out, serverVars>>

Receive ==
  /\ life = "notified" /\ life' = "receiving"
  /\ UNCHANGED <<config, next, out, serverVars>>

(* A signal.  Before Notify it kills the process.  The channel has no      *)
(* buffer and the runtime does not wait: unless main is receiving, the     *)
(* signal is dropped, before the receive and again once it is over.        *)
SignalMissed ==
  \/ life \in {"start", "load", "listen", "loaded"} /\ Fatal
  \/ life \in {"notified", "receiving", "stop"} /\ UNCHANGED vars
Signal ==
  \/ life \in {"start", "load", "listen", "loaded"} /\ Fatal
  \/ life = "receiving" /\ life' = "stop" /\ UNCHANGED <<config, next, out, serverVars>>
  \/ life \in {"notified", "stop"} /\ UNCHANGED vars

-----------------------------------------------------------------------------
(* stopServers: Stop of the first server that is up, which begins with the *)
(* closing of its file, once those before it have returned.                *)
TurnReversed(k) == \A j \in Servers : j > k => state[j] \in {"none", "stopped"}
Turn(k) == \A j \in Servers : j < k => state[j] \in {"none", "stopped"}

Stop(k) ==
  /\ life = "stop" /\ state[k] = "up"
  /\ Turn(k)
  /\ state' = [state EXCEPT ![k] = "stopping"]
  /\ file' = [file EXCEPT ![k] = FALSE]
  /\ UNCHANGED <<config, life, next, out, listens, accepting, active, hung>>

StopReturnsEarly(k) ==
  /\ life = "stop" /\ state[k] = "stopping"
  /\ ~accepting[k]
  /\ state' = [state EXCEPT ![k] = "stopped"]
  /\ UNCHANGED <<config, life, next, out, listens, file, accepting, active, hung>>
StopReturns(k) ==
  /\ life = "stop" /\ state[k] = "stopping"
  /\ ~accepting[k] /\ active[k] = {}
  /\ state' = [state EXCEPT ![k] = "stopped"]
  /\ UNCHANGED <<config, life, next, out, listens, file, accepting, active, hung>>

(* The end of stopServers, and of main.                                    *)
AllAsked == \A k \in Servers : state[k] # "up"
AllConfigured == \A k \in Servers : state[k] = "stopped"
AllStopped == \A k \in Servers : state[k] \in {"none", "stopped"}

Exit ==
  /\ life = "stop" /\ AllStopped
  /\ life' = "exited"
  /\ UNCHANGED <<config, next, out, serverVars>>

-----------------------------------------------------------------------------
(* The servers' goroutines *)

Accept(k, c) ==
  /\ Running /\ accepting[k] /\ c \notin active[k]
  /\ active' = [active EXCEPT ![k] = @ \cup {c}]
  /\ UNCHANGED <<config, life, next, out, state, listens, file, accepting, hung>>

(* A decoder's loop that does not end, as those of egts.go:215,            *)
(* galileosky.go:400 and bce.go:337.                                       *)
Hang(k, c) ==
  /\ Running /\ "hang" \in Env
  /\ c \in active[k] \ hung[k]
  /\ hung' = [hung EXCEPT ![k] = @ \cup {c}]
  /\ UNCHANGED <<config, life, next, out, state, listens, file, accepting, active>>

Finish(k, c) ==
  /\ Running /\ c \in active[k] \ hung[k]
  /\ active' = [active EXCEPT ![k] = @ \ {c}]
  /\ UNCHANGED <<config, life, next, out, state, listens, file, accepting, hung>>

ServeReturns(k) ==
  /\ Running /\ state[k] = "stopping" /\ accepting[k]
  /\ accepting' = [accepting EXCEPT ![k] = FALSE]
  /\ UNCHANGED <<config, life, next, out, state, listens, file, active, hung>>

(* A panic of any goroutine ends the process with all its servers.         *)
Panic(k) ==
  /\ Running /\ "panic" \in Env
  /\ accepting[k] \/ active[k] # {}
  /\ Fatal

Serve(k) ==
  ServeReturns(k) \/ Panic(k) \/ \E c \in Conns : Accept(k, c) \/ Hang(k, c) \/ Finish(k, c)

Load == Configure \/ Skip \/ NewServer \/ Start \/ Loaded \/ Notify \/ Receive
StopServers == Exit \/ \E k \in Servers : Stop(k) \/ StopReturns(k)

Next == Load \/ Signal \/ StopServers \/ \E k \in Servers : Serve(k)

(* main runs on, and a server that is stopping ends its connections, but   *)
(* for those that hang.                                                    *)
Fairness ==
  /\ WF_vars(Load) /\ WF_vars(StopServers)
  /\ \A k \in Slots :
       /\ WF_vars(ServeReturns(k))
       /\ \A c \in Conns : WF_vars(state[k] = "stopping" /\ Finish(k, c))

Spec == Init /\ [][Next]_vars /\ Fairness

-----------------------------------------------------------------------------
(* Properties *)

(* Every variable holds a value of its type.                               *)
TypeOK ==
  /\ config \in Configs
  /\ life \in {"start", "load", "listen", "loaded", "notified", "receiving", "stop", "exited", "killed"}
  /\ next \in 1..(Len(config) + 1)
  /\ out \in 0..Len(config)
  /\ state \in [Slots -> {"none", "up", "stopping", "stopped"}]
  /\ listens \in [Slots -> Ports \cup {0}]
  /\ file \in [Slots -> BOOLEAN]
  /\ accepting \in [Slots -> BOOLEAN]
  /\ active \in [Slots -> SUBSET Conns]
  /\ hung \in [Slots -> SUBSET Conns]

(* Once main has left its loop and lives, every protocol that is enabled   *)
(* and known has its server, and no other has one: the loop has neither    *)
(* ended early nor gone on after a failure.                                *)
AllWantedServe ==
  life \notin {"start", "load", "listen", "killed"} =>
    \A k \in Slots : state[k] # "none" <=> Wanted(k)

(* Every server that is up has a port of its own, and the one that its     *)
(* protocol is configured for if that names one: a port that is used twice *)
(* is fatal, though one of them be chosen by the system.                   *)
PortsDistinct ==
  \A k \in Servers : state[k] # "none" =>
    /\ listens[k] \in Choices(config[k].port)
    /\ \A j \in Servers : j # k /\ state[j] # "none" => listens[j] # listens[k]

(* main returns only when no server has a connection left or may accept.   *)
ExitIsClean ==
  life = "exited" =>
    \A k \in Slots : state[k] \in {"none", "stopped"} /\ ~accepting[k] /\ active[k] = {}

(* All servers write one log, to the file of the newest one: while any of  *)
(* them has not been asked to stop, that file is open.                     *)
LogOpen == Running /\ (\E k \in Slots : state[k] = "up") => out \in Slots /\ file[out]

(* stopServers waits for a connection that does not end, with all servers  *)
(* before that one stopped.                                                *)
Stuck ==
  \E k \in Slots :
    /\ state[k] = "stopping" /\ hung[k] # {}
    /\ \A j \in 1..(k - 1) : state[j] \in {"none", "stopped"} /\ active[j] = {}

(* Once main has received a signal it returns, unless a panic ends it or a *)
(* decoder hangs: it then waits for that one's server, and for no other.   *)
StopEnds == (life = "stop") ~> (~Running \/ Stuck)

(* A signal that comes before main receives may be dropped.  Whoever sends *)
(* them again and again is heard, at any stage of the loading: the process *)
(* ends, or is stuck as above.                                             *)
RepeatedSignalEnds == WF_vars(Signal) => <>(~Running \/ Stuck)

-----------------------------------------------------------------------------
(* Each server within the process keeps to Drain, from before its start to *)
(* the end: a failure of any other server is a crash of this one.          *)
Phase(k) ==
  IF life # "killed" THEN IF state[k] = "none" THEN "up" ELSE state[k]
  ELSE IF state[k] = "stopped" THEN "stopped" ELSE "crashed"
Accepting(k) == state[k] = "none" \/ accepting[k]
Drain(k) == INSTANCE Drain WITH
              phase <- Phase(k), accepting <- Accepting(k), active <- active[k]

(* Drain's safety part, for each of them.                                  *)
ServersDrain ==
  /\ \A k \in Slots : Drain(k)!Init
  /\ [][\A k \in Slots : [Drain(k)!Next]_(Drain(k)!vars)]_vars
=============================================================================
