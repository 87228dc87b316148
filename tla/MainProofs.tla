----------------------------- MODULE MainProofs -----------------------------
(***************************************************************************)
(* What holds of Main for every set of configurations and connections: its *)
(* types, what runs after the loop, its ports and its log, that main       *)
(* leaves nothing behind, and that each server keeps to Drain.             *)
(***************************************************************************)
EXTENDS Main, TLAPS

(* The servers are those of the wanted protocols that the loop has passed. *)
LoopOK ==
  /\ \A k \in Slots : state[k] # "none" <=> Wanted(k) /\ k < next
  /\ life = "listen" => next \in Servers /\ Wanted(next) /\ out = next /\ file[next]
  /\ life \notin {"start", "load", "listen", "killed"} => next = Len(config) + 1
  /\ life = "start" => next = 1

(* Stops begin with stopServers and are all done when main returns; what   *)
(* does not run serves nothing.                                            *)
StopOK ==
  /\ life \notin {"stop", "exited", "killed"} => \A k \in Slots : state[k] \in {"none", "up"}
  /\ life = "exited" => \A k \in Slots : state[k] \in {"none", "stopped"}
  /\ \A k \in Slots : state[k] \in {"none", "stopped"} => ~accepting[k] /\ active[k] = {}

(* A server that was asked to stop comes after none that was not.          *)
StoppedInOrder ==
  \A j, k \in Slots :
    j < k /\ state[k] \in {"stopping", "stopped"} => state[j] \in {"none", "stopped"}

(* The log is the file of the newest server, whose files are open until    *)
(* they are asked to stop.                                                 *)
LogOK ==
  /\ \A k \in Slots : state[k] # "none" => k <= out
  /\ \A k \in Slots : state[k] = "up" => file[k]
  /\ Running /\ life # "listen" => out = 0 \/ state[out] # "none"

IInv == TypeOK /\ LoopOK /\ StopOK /\ LogOK /\ PortsDistinct /\ StoppedInOrder

-----------------------------------------------------------------------------
(* A configuration fits into the slots.                                    *)
LEMMA ConfigFits ==
  ASSUME NEW s \in Configs
  PROVE  Len(s) \in Nat /\ Len(s) <= MaxServers /\ 1..Len(s) \subseteq Slots
BY ConfigsAssumption, BoundAssumption DEF Slots

LEMMA InitIInv == Init => IInv
<1> SUFFICES ASSUME Init PROVE IInv
  OBVIOUS
<1>1. Len(config) \in Nat /\ Servers \subseteq Slots
  BY ConfigFits DEF Init, Servers
<1>2. TypeOK
  BY <1>1, BoundAssumption DEF Init, TypeOK
<1>3. LoopOK
  BY <1>1 DEF Init, LoopOK, Slots
<1>4. StopOK /\ LogOK
  BY DEF Init, StopOK, LogOK
<1>5. PortsDistinct /\ StoppedInOrder
  BY <1>1 DEF Init, PortsDistinct, StoppedInOrder
<1> QED BY <1>2, <1>3, <1>4, <1>5 DEF IInv

-----------------------------------------------------------------------------
(* What is unchanged by steps that touch neither the loop nor a server.    *)
LEMMA KeepIInv ==
  ASSUME IInv, UNCHANGED <<config, next, out, serverVars>>,
         \/ life' = life
         \/ life = "start" /\ life' = "load"
         \/ life' = "killed"
         \/ life = "load" /\ next \notin Servers /\ life' = "loaded"
         \/ life = "loaded" /\ life' = "notified"
         \/ life = "notified" /\ life' = "receiving"
         \/ life = "receiving" /\ life' = "stop"
         \/ life = "stop" /\ AllStopped /\ life' = "exited"
  PROVE  IInv'
<1>1. Len(config) \in Nat
  BY ConfigFits DEF IInv, TypeOK
<1>2. TypeOK'
  BY DEF IInv, TypeOK, serverVars
<1>3. PortsDistinct' /\ StoppedInOrder'
  BY DEF IInv, PortsDistinct, StoppedInOrder, serverVars, Servers
<1>4. LoopOK'
  BY <1>1 DEF IInv, LoopOK, TypeOK, serverVars, Servers, Wanted
<1>5. StopOK'
  <2>1. AllStopped => \A k \in Slots : state[k] \in {"none", "stopped"}
    BY DEF IInv, TypeOK, LoopOK, Wanted, AllStopped
  <2> QED BY <2>1 DEF IInv, StopOK, serverVars
<1>6. LogOK'
  BY DEF IInv, LogOK, serverVars, Running
<1> QED BY <1>2, <1>3, <1>4, <1>5, <1>6 DEF IInv

LEMMA LoadIInv == IInv /\ Load => IInv'
<1> SUFFICES ASSUME IInv, Load PROVE IInv'
  OBVIOUS
<1>0. Len(config) \in Nat /\ Servers \subseteq Slots /\ MaxServers \in Nat
  BY ConfigFits, BoundAssumption DEF IInv, TypeOK, Servers
<1>1. CASE Configure \/ Loaded \/ Notify \/ Receive \/ Fatal
  BY <1>1, KeepIInv DEF Configure, Loaded, Notify, Receive, Fatal
<1>2. CASE Skip
  <2>1. TypeOK'
    BY <1>0, <1>2 DEF IInv, TypeOK, Skip, Servers, serverVars
  <2>2. LoopOK'
    BY <1>0, <1>2 DEF IInv, TypeOK, LoopOK, Skip, Servers, serverVars, Wanted, Slots
  <2>3. StopOK' /\ LogOK' /\ PortsDistinct' /\ StoppedInOrder'
    BY <1>2 DEF IInv, StopOK, LogOK, PortsDistinct, StoppedInOrder, Skip, Running, Servers, serverVars
  <2> QED BY <2>1, <2>2, <2>3 DEF IInv
<1>3. CASE NewServer /\ ~Fatal
  <2>1. /\ life = "load" /\ next \in Servers /\ Wanted(next)
        /\ life' = "listen" /\ out' = next /\ file' = [file EXCEPT ![next] = TRUE]
        /\ UNCHANGED <<config, next, state, listens, accepting, active, hung>>
    BY <1>3 DEF NewServer
  <2>2. TypeOK'
    BY <1>0, <2>1 DEF IInv, TypeOK, Servers
  <2>3. LoopOK'
    BY <1>0, <2>1 DEF IInv, TypeOK, LoopOK, Wanted, Servers
  <2>4. StopOK' /\ PortsDistinct' /\ StoppedInOrder'
    BY <2>1 DEF IInv, StopOK, PortsDistinct, StoppedInOrder, Servers
  <2>5. LogOK'
    BY <1>0, <2>1 DEF IInv, TypeOK, LoopOK, LogOK, Slots, Servers
  <2> QED BY <2>2, <2>3, <2>4, <2>5 DEF IInv
<1>4. CASE Start /\ ~Fatal
  <2>0. life = "listen"
    BY <1>4 DEF Start
  <2>1. PICK port \in Choices(config[next].port) : Free(port) /\ StartWith(port, 1)
    BY <1>4 DEF Start
  <2>2. next \in Slots /\ next \in Servers /\ Wanted(next) /\ out = next /\ file[next]
    BY <1>0, <2>0 DEF IInv, LoopOK
  <2>a. port \in Ports \cup {0}
    <3>1. config \in Seq(Protocol) /\ next \in 1..Len(config)
      BY ConfigsAssumption, <2>2 DEF IInv, TypeOK, Servers
    <3>2. config[next] \in Protocol
      BY <3>1
    <3>3. config[next].port \in Ports \cup {0}
      BY <3>2 DEF Protocol
    <3> QED BY <2>1, <3>3 DEF Choices
  <2>b. /\ state' = [state EXCEPT ![next] = "up"]
        /\ listens' = [listens EXCEPT ![next] = port]
        /\ accepting' = [accepting EXCEPT ![next] = TRUE]
        /\ next' = next + 1 /\ life' = "load"
        /\ UNCHANGED <<config, out, file, active, hung>>
    BY <2>1 DEF StartWith
  <2>3. TypeOK'
    BY <1>0, <2>a, <2>b, <2>2 DEF IInv, TypeOK, Servers
  <2>4. LoopOK'
    BY <1>0, <2>b, <2>2 DEF IInv, TypeOK, LoopOK, Wanted, Servers, Slots
  <2>5. StopOK'
    BY <2>0, <2>b, <2>2 DEF IInv, TypeOK, StopOK
  <2>6. LogOK'
    BY <1>0, <2>0, <2>b, <2>2 DEF IInv, TypeOK, LoopOK, LogOK, Slots
  <2>7. PortsDistinct'
    <3>1. listens'[next] \in Choices(config[next].port)
      BY <2>1, <2>b, <2>2 DEF IInv, TypeOK
    <3>2. \A j \in Servers : j # next /\ state[j] # "none" => listens'[j] # listens'[next]
      BY <1>0, <2>1, <2>b, <2>2 DEF IInv, TypeOK, Free
    <3>3. \A j \in Servers \ {next} : state'[j] = state[j] /\ listens'[j] = listens[j]
      BY <1>0, <2>b DEF IInv, TypeOK
    <3>4. config' = config
      BY <2>b
    <3> SUFFICES ASSUME NEW k \in Servers, state'[k] # "none"
                 PROVE  /\ listens'[k] \in Choices(config[k].port)
                        /\ \A j \in Servers :
                             j # k /\ state'[j] # "none" => listens'[j] # listens'[k]
      BY <3>4 DEF PortsDistinct, Servers, Choices
    <3>5. CASE k = next
      BY <3>1, <3>2, <3>3, <3>5
    <3>6. CASE k # next
      BY <3>2, <3>3, <3>6 DEF IInv, PortsDistinct
    <3> QED BY <3>5, <3>6
  <2>8. StoppedInOrder'
    BY <2>0, <2>b, <2>2 DEF IInv, TypeOK, StoppedInOrder, StopOK
  <2> QED BY <2>3, <2>4, <2>5, <2>6, <2>7, <2>8 DEF IInv
<1> QED BY <1>1, <1>2, <1>3, <1>4 DEF Load

LEMMA StopIInv == IInv /\ StopServers => IInv'
<1> SUFFICES ASSUME IInv, StopServers PROVE IInv'
  OBVIOUS
<1>0. Len(config) \in Nat /\ Servers \subseteq Slots /\ MaxServers \in Nat
  BY ConfigFits, BoundAssumption DEF IInv, TypeOK, Servers
<1>1. CASE Exit
  BY <1>1, KeepIInv DEF Exit
<1>2. ASSUME NEW k \in Servers, Stop(k) PROVE IInv'
  <2>1. k \in Slots /\ state[k] = "up" /\ life = "stop" /\ life' = "stop"
    BY <1>0, <1>2 DEF Stop
  <2>2. TypeOK'
    BY <1>2, <2>1 DEF Stop, IInv, TypeOK
  <2>3. LoopOK'
    BY <1>2, <2>1 DEF Stop, IInv, TypeOK, LoopOK, Wanted, Servers
  <2>4. StopOK'
    BY <1>2, <2>1 DEF Stop, IInv, TypeOK, StopOK
  <2>5. LogOK'
    BY <1>2, <2>1 DEF Stop, IInv, TypeOK, LogOK, Running
  <2>6. PortsDistinct'
    BY <1>0, <1>2, <2>1 DEF Stop, IInv, TypeOK, PortsDistinct, Servers
  <2>7. StoppedInOrder'
    <3>1. \A j \in Slots : j < k => state[j] \in {"none", "stopped"}
      BY <1>2 DEF Stop, Turn, IInv, TypeOK, LoopOK, Wanted
    <3> QED BY <1>2, <2>1, <3>1 DEF Stop, IInv, TypeOK, StoppedInOrder, Slots
  <2> QED BY <2>2, <2>3, <2>4, <2>5, <2>6, <2>7 DEF IInv
<1>3. ASSUME NEW k \in Servers, StopReturns(k) PROVE IInv'
  <2>1. k \in Slots /\ state[k] = "stopping" /\ life = "stop" /\ life' = "stop"
    BY <1>0, <1>3 DEF StopReturns
  <2>2. TypeOK'
    BY <1>3, <2>1 DEF StopReturns, IInv, TypeOK
  <2>3. LoopOK'
    BY <1>3, <2>1 DEF StopReturns, IInv, TypeOK, LoopOK, Wanted, Servers
  <2>4. StopOK'
    BY <1>3, <2>1 DEF StopReturns, IInv, TypeOK, StopOK
  <2>5. LogOK'
    BY <1>3, <2>1 DEF StopReturns, IInv, TypeOK, LogOK, Running
  <2>6. PortsDistinct'
    BY <1>0, <1>3, <2>1 DEF StopReturns, IInv, TypeOK, PortsDistinct, Servers
  <2>7. StoppedInOrder'
    BY <1>3, <2>1 DEF StopReturns, IInv, TypeOK, StoppedInOrder, Slots
  <2> QED BY <2>2, <2>3, <2>4, <2>5, <2>6, <2>7 DEF IInv
<1> QED BY <1>1, <1>2, <1>3 DEF StopServers

LEMMA ServeIInv ==
  ASSUME IInv, NEW k \in Servers, Serve(k)
  PROVE  IInv'
<1>0. k \in Slots
  BY ConfigFits DEF IInv, TypeOK, Servers
<1>1. CASE Panic(k)
  BY <1>1, KeepIInv DEF Panic, Fatal
<1>2. CASE ServeReturns(k) \/ \E c \in Conns : Accept(k, c) \/ Hang(k, c) \/ Finish(k, c)
  <2> DEFINE Keeps ==
        /\ state[k] \notin {"none", "stopped"}
        /\ UNCHANGED <<config, life, next, out, state, listens, file>>
        /\ \A j \in Slots \ {k} : accepting'[j] = accepting[j] /\ active'[j] = active[j]
        /\ accepting' \in [Slots -> BOOLEAN] /\ active' \in [Slots -> SUBSET Conns]
        /\ hung' \in [Slots -> SUBSET Conns]
  <2>1. Keeps
    <3>1. CASE ServeReturns(k)
      BY <1>0, <3>1 DEF ServeReturns, IInv, TypeOK
    <3>2. ASSUME NEW c \in Conns, Accept(k, c) \/ Hang(k, c) \/ Finish(k, c) PROVE Keeps
      <4>1. state[k] \notin {"none", "stopped"}
        BY <1>0, <3>2 DEF Accept, Hang, Finish, IInv, StopOK
      <4> QED BY <1>0, <3>2, <4>1 DEF Accept, Hang, Finish, IInv, TypeOK
    <3> QED BY <1>2, <3>1, <3>2
  <2>2. TypeOK' /\ LoopOK' /\ LogOK' /\ PortsDistinct' /\ StoppedInOrder'
    BY <2>1 DEF IInv, TypeOK, LoopOK, LogOK, Wanted, Servers, Running, PortsDistinct, StoppedInOrder
  <2>3. StopOK'
    BY <2>1 DEF IInv, StopOK
  <2> QED BY <2>2, <2>3 DEF IInv
<1> QED BY <1>1, <1>2 DEF Serve

(* The inductive invariant behind the theorems that follow.                *)
THEOREM Inductive == Spec => []IInv
<1>1. IInv /\ Signal => IInv'
  BY KeepIInv DEF Signal, Fatal, vars
<1>2. IInv /\ UNCHANGED vars => IInv'
  BY KeepIInv DEF vars
<1>3. IInv /\ [Next]_vars => IInv'
  BY <1>1, <1>2, LoadIInv, StopIInv, ServeIInv DEF Next
<1> QED BY <1>3, InitIInv, PTL DEF Spec

-----------------------------------------------------------------------------
(* Types, for every instance.                                              *)
THEOREM TypeCorrect == Spec => []TypeOK
BY Inductive, PTL DEF IInv

(* After the loop every wanted protocol has its server, and no other.      *)
THEOREM AllServe == Spec => []AllWantedServe
<1>1. IInv => AllWantedServe
  BY ConfigFits DEF IInv, TypeOK, LoopOK, AllWantedServe, Wanted, Servers
<1> QED BY <1>1, Inductive, PTL

(* Two servers never share a port, and a server has the port its protocol  *)
(* is configured for, if that is one.                                      *)
THEOREM DistinctPorts == Spec => []PortsDistinct
BY Inductive, PTL DEF IInv

(* When main returns, nothing is left running.                             *)
THEOREM CleanExit == Spec => []ExitIsClean
<1>1. IInv => ExitIsClean
  BY DEF IInv, StopOK, ExitIsClean
<1> QED BY <1>1, Inductive, PTL

(* The log is open for as long as a server is up: the one whose file it is *)
(* comes after all others, so it is the last one to be asked to stop.      *)
THEOREM OpenLog == Spec => []LogOpen
<1>1. IInv => LogOpen
  <2> SUFFICES ASSUME IInv, Running, NEW k \in Slots, state[k] = "up"
               PROVE  out \in Slots /\ file[out]
    BY DEF LogOpen
  <2>1. k <= out /\ out \in Slots
    <3>1. k <= out
      BY DEF IInv, LogOK
    <3>2. Len(config) \in Nat /\ Len(config) <= MaxServers /\ out \in 0..Len(config)
      BY ConfigFits DEF IInv, TypeOK
    <3> QED BY <3>1, <3>2, BoundAssumption DEF Slots
  <2>2. CASE life = "listen"
    BY <2>1, <2>2 DEF IInv, LoopOK
  <2>3. CASE life # "listen"
    <3>1. state[out] # "none"
      BY <2>1, <2>3 DEF IInv, LogOK, Slots
    <3>2. state[out] \notin {"stopping", "stopped"}
      BY <2>1 DEF IInv, StoppedInOrder, Slots
    <3>3. state[out] = "up"
      BY <2>1, <3>1, <3>2 DEF IInv, TypeOK
    <3> QED BY <2>1, <3>3 DEF IInv, LogOK
  <2> QED BY <2>2, <2>3
<1> QED BY <1>1, Inductive, PTL

-----------------------------------------------------------------------------
(* A step of the process is one of Drain, or none, for each server.        *)
LEMMA DrainInit ==
  ASSUME Init, NEW k \in Slots
  PROVE  Drain(k)!Init
BY DEF Init, Drain!Init, Phase, Accepting

LEMMA DrainFatal ==
  ASSUME IInv, Running, Fatal, NEW k \in Slots
  PROVE  [Drain(k)!Next]_(Drain(k)!vars)
BY DEF IInv, TypeOK, Running, Fatal, serverVars, Phase, Accepting,
       Drain!Next, Drain!Crash, Drain!Running, Drain!vars

LEMMA DrainKeeps ==
  ASSUME NEW k \in Slots, UNCHANGED <<Phase(k), Accepting(k), active[k]>>
  PROVE  [Drain(k)!Next]_(Drain(k)!vars)
BY DEF Drain!vars

LEMMA DrainLoad ==
  ASSUME IInv, Load, NEW k \in Slots
  PROVE  [Drain(k)!Next]_(Drain(k)!vars)
<1>1. Running /\ life \in {"start", "load", "listen", "loaded", "notified"}
  BY DEF Load, Configure, Skip, NewServer, Start, Loaded, Notify, Receive, Running
<1>2. CASE Fatal
  BY <1>1, <1>2, DrainFatal
<1>3. CASE Start /\ ~Fatal
  <2>1. next \in Slots /\ state[next] = "none" /\ ~accepting[next]
    <3>1. next \in Servers /\ next \in Nat /\ next \in Slots
      BY ConfigFits, <1>3 DEF Start, IInv, TypeOK, LoopOK, Servers
    <3>2. ~(next < next)
      BY <3>1
    <3>3. state[next] = "none"
      BY <3>1, <3>2 DEF IInv, LoopOK
    <3> QED BY <3>1, <3>3 DEF IInv, StopOK
  <2>2. /\ state' = [state EXCEPT ![next] = "up"]
        /\ accepting' = [accepting EXCEPT ![next] = TRUE]
        /\ life' = "load" /\ life = "listen" /\ UNCHANGED active
    BY <1>3 DEF Start, StartWith
  <2>3. UNCHANGED <<Phase(k), Accepting(k), active[k]>>
    BY <2>1, <2>2 DEF Phase, Accepting, IInv, TypeOK
  <2> QED BY <2>3, DrainKeeps
<1>4. CASE ~Fatal /\ ~Start
  <2>1. UNCHANGED <<state, accepting, active>> /\ life' # "killed"
    BY <1>1, <1>4 DEF Load, Configure, Skip, NewServer, Loaded, Notify, Receive, serverVars
  <2>2. UNCHANGED <<Phase(k), Accepting(k), active[k]>>
    BY <1>1, <2>1 DEF Phase, Accepting
  <2> QED BY <2>2, DrainKeeps
<1> QED BY <1>2, <1>3, <1>4

LEMMA DrainSignal ==
  ASSUME IInv, Signal, NEW k \in Slots
  PROVE  [Drain(k)!Next]_(Drain(k)!vars)
<1>1. CASE Fatal
  BY <1>1, DrainFatal DEF Signal, Running
<1>2. CASE ~Fatal
  <2>1. UNCHANGED <<state, accepting, active>> /\ life # "killed" /\ life' # "killed"
    BY <1>2 DEF Signal, vars, serverVars
  <2>2. UNCHANGED <<Phase(k), Accepting(k), active[k]>>
    BY <2>1 DEF Phase, Accepting
  <2> QED BY <2>2, DrainKeeps
<1> QED BY <1>1, <1>2

LEMMA DrainStop ==
  ASSUME IInv, StopServers, NEW k \in Slots
  PROVE  [Drain(k)!Next]_(Drain(k)!vars)
<1>1. life = "stop" /\ life' # "killed" /\ UNCHANGED <<accepting, active>>
  BY DEF StopServers, Exit, Stop, StopReturns, serverVars
<1>2. CASE state'[k] = state[k]
  <2>1. UNCHANGED <<Phase(k), Accepting(k), active[k]>>
    BY <1>1, <1>2 DEF Phase, Accepting
  <2> QED BY <2>1, DrainKeeps
<1>3. ASSUME NEW j \in Servers, Stop(j), state'[k] # state[k]
      PROVE  Drain(k)!RequestStop
  <2>1. j = k /\ state[k] = "up" /\ state'[k] = "stopping"
    BY <1>3 DEF Stop, IInv, TypeOK
  <2> QED BY <1>1, <2>1 DEF Drain!RequestStop, Phase, Accepting
<1>4. ASSUME NEW j \in Servers, StopReturns(j), state'[k] # state[k]
      PROVE  Drain(k)!Return
  <2>1. /\ j = k /\ state[k] = "stopping" /\ state'[k] = "stopped"
        /\ ~accepting[k] /\ active[k] = {}
    BY <1>4 DEF StopReturns, IInv, TypeOK
  <2> QED BY <1>1, <2>1 DEF Drain!Return, Phase, Accepting
<1>5. CASE Exit
  BY <1>2, <1>5 DEF Exit, serverVars
<1> QED BY <1>2, <1>3, <1>4, <1>5 DEF StopServers, Drain!Next

LEMMA DrainServe ==
  ASSUME IInv, NEW j \in Servers, Serve(j), NEW k \in Slots
  PROVE  [Drain(k)!Next]_(Drain(k)!vars)
<1>0. j \in Slots
  BY ConfigFits DEF IInv, TypeOK, Servers
<1>1. CASE Panic(j)
  BY <1>1, DrainFatal DEF Panic
<1>2. CASE ServeReturns(j)
  <2>1. /\ life # "killed" /\ state[j] = "stopping" /\ accepting[j]
        /\ accepting' = [accepting EXCEPT ![j] = FALSE]
        /\ UNCHANGED <<life, state, active>>
    BY <1>2 DEF ServeReturns, Running
  <2>2. CASE j = k
    <3>1. Drain(k)!StopAccepting
      BY <2>1, <2>2 DEF Drain!StopAccepting, Phase, Accepting, IInv, TypeOK
    <3> QED BY <3>1 DEF Drain!Next
  <2>3. CASE j # k
    <3>1. UNCHANGED <<Phase(k), Accepting(k), active[k]>>
      BY <2>1, <2>3 DEF Phase, Accepting, IInv, TypeOK
    <3> QED BY <3>1, DrainKeeps
  <2> QED BY <2>2, <2>3
<1>3. ASSUME NEW c \in Conns, Accept(j, c) \/ Finish(j, c)
      PROVE  [Drain(k)!Next]_(Drain(k)!vars)
  <2>1. life \notin {"killed", "exited"} /\ UNCHANGED <<life, state, accepting>>
    BY <1>3 DEF Accept, Finish, Running
  <2>2. UNCHANGED <<Phase(k), Accepting(k)>>
    BY <2>1 DEF Phase, Accepting
  <2>3. CASE j # k
    <3>1. active'[k] = active[k]
      BY <1>3, <2>3 DEF Accept, Finish, IInv, TypeOK
    <3> QED BY <2>2, <3>1, DrainKeeps
  <2>4. CASE j = k
    <3>1. state[k] \in {"up", "stopping"}
      BY <1>0, <1>3, <2>4 DEF Accept, Finish, IInv, TypeOK, StopOK
    <3>2. Drain(k)!Running
      BY <2>1, <3>1 DEF Drain!Running, Phase
    <3>3. CASE Accept(j, c)
      <4>1. Accepting(k) /\ c \notin active[k] /\ active'[k] = active[k] \cup {c}
        BY <2>4, <3>3 DEF Accept, Accepting, IInv, TypeOK
      <4>2. Drain(k)!Open(c)
        BY <2>2, <3>2, <4>1 DEF Drain!Open
      <4> QED BY <4>2 DEF Drain!Next
    <3>4. CASE Finish(j, c)
      <4>1. c \in active[k] /\ active'[k] = active[k] \ {c}
        BY <2>4, <3>4 DEF Finish, IInv, TypeOK
      <4>2. Drain(k)!Finish(c)
        BY <2>2, <3>2, <4>1 DEF Drain!Finish
      <4> QED BY <4>2 DEF Drain!Next
    <3> QED BY <1>3, <3>3, <3>4
  <2> QED BY <2>3, <2>4
<1>4. ASSUME NEW c \in Conns, Hang(j, c)
      PROVE  [Drain(k)!Next]_(Drain(k)!vars)
  <2>1. UNCHANGED <<Phase(k), Accepting(k), active[k]>>
    BY <1>4 DEF Hang, Phase, Accepting
  <2> QED BY <2>1, DrainKeeps
<1> QED BY <1>1, <1>2, <1>3, <1>4 DEF Serve

(* Each server of the process keeps to Drain's safety part, whatever       *)
(* happens to the others.                                                  *)
THEOREM EachDrains == Spec => ServersDrain
<1>1. Init => \A k \in Slots : Drain(k)!Init
  BY DrainInit
<1>2. IInv /\ [Next]_vars => [\A k \in Slots : [Drain(k)!Next]_(Drain(k)!vars)]_vars
  <2> SUFFICES ASSUME IInv, [Next]_vars, NEW k \in Slots
               PROVE  [Drain(k)!Next]_(Drain(k)!vars)
    OBVIOUS
  <2>1. CASE UNCHANGED vars
    <3>1. UNCHANGED <<Phase(k), Accepting(k), active[k]>>
      BY <2>1 DEF vars, serverVars, Phase, Accepting
    <3> QED BY <3>1, DrainKeeps
  <2> QED BY <2>1, DrainLoad, DrainSignal, DrainStop, DrainServe DEF Next
<1> QED BY <1>1, <1>2, Inductive, PTL DEF Spec, ServersDrain
=============================================================================
