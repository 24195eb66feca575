---------------------------- MODULE Process_proofs ----------------------------
(***************************************************************************)
(* For any number of agents and any width of their ids: who has a          *)
(* listening socket is served, agents stop before the network does, and    *)
(* the container finds the agent that is meant.  For any ids of two bytes  *)
(* and any locations: a packet is read as it was written.                  *)
(***************************************************************************)
EXTENDS MCProcess, Loops_proofs

-----------------------------------------------------------------------------
(* The modules of a process.                                               *)

Places == 1..8

LEMMA ModulesAre ==
  /\ Len(Modules) = 8
  /\ Range(Modules) = {Modules[i] : i \in Places}
  /\ Service \subseteq Range(Modules)
  /\ \A i \in Places : Modules[i] \in Range(Modules)
  /\ Range(Loops) = {"preUpdate", "update", "updateGUI", "postUpdate"}
<1>1. Len(Modules) = 8 /\ DOMAIN Modules = Places
  BY DEF Modules, Places
<1>2. Range(Modules) = {Modules[i] : i \in Places}
  BY <1>1 DEF Range
<1>3. "nodeCluster" \in Range(Modules) /\ "yellowPages" \in Range(Modules)
  <2>1. Modules[7] = "nodeCluster" /\ Modules[8] = "yellowPages"
    BY DEF Modules
  <2> QED BY <1>2, <2>1 DEF Places
<1>4. Range(Loops) = {"preUpdate", "update", "updateGUI", "postUpdate"}
  <2>1. DOMAIN Loops = 1..4
    BY DEF Loops
  <2>2. /\ Loops[1] = "preUpdate" /\ Loops[2] = "update"
        /\ Loops[3] = "updateGUI" /\ Loops[4] = "postUpdate"
    BY DEF Loops
  <2>3. 1..4 = {1, 2, 3, 4}
    OBVIOUS
  <2> QED BY <2>1, <2>2, <2>3 DEF Range
<1> QED BY <1>1, <1>2, <1>3, <1>4 DEF Service

(* At most one service was ever chosen, and none while the menu is there.  *)
Chosen(s) == active[s] \/ state[s] # "STOPPED" \/ s \in mSockets

OneService ==
  /\ \A s, t \in Service : Chosen(s) /\ Chosen(t) => s = t
  /\ active["mainMenu"] => \A s \in Service : ~Chosen(s)

(* cleanUp() goes down the list: what is behind its place is disabled.     *)
StoppedBehind ==
  /\ main = "stop" => \A i \in Places : i > at => ~active[Modules[i]]
  /\ main \in {"stop", "cleanUp"} => at \in Places

AppType ==
  /\ at \in Nat
  /\ active \in [Range(Modules) -> BOOLEAN]
  /\ state \in [Service -> {"STOPPED", "STARTING", "RUNNING", "STOPPING"}]
  /\ mSockets \subseteq Service

AppInv == AppType /\ OneService /\ StoppedBehind /\ SocketsServed

LEMMA MenuIsModule == "mainMenu" \in Range(Modules) /\ "agentContainer" \in Range(Modules)
                        /\ "networkManager" \in Range(Modules)
<1>1. Modules[4] = "networkManager" /\ Modules[5] = "agentContainer" /\ Modules[6] = "mainMenu"
  BY DEF Modules
<1> QED BY <1>1, ModulesAre DEF Places

LEMMA AppInitInv == AppInit => AppInv
<1> SUFFICES ASSUME AppInit PROVE AppInv
  OBVIOUS
<1>1. AppType
  BY ModulesAre DEF AppInit, AppType
<1>2. \A s \in Service : ~Chosen(s)
  BY ModulesAre DEF AppInit, Chosen, Service
<1>3. StoppedBehind /\ SocketsServed
  BY DEF AppInit, StoppedBehind, SocketsServed
<1> QED BY <1>1, <1>2, <1>3 DEF AppInv, OneService

LEMMA AppNextInv == AppInv /\ [AppNext]_appVars => AppInv'
<1> SUFFICES ASSUME AppInv, [AppNext]_appVars
             PROVE  AppInv'
  OBVIOUS
<1> USE ModulesAre, MenuIsModule
    DEF AppInv, AppType, OneService, Chosen, StoppedBehind, SocketsServed
<1>1. CASE Pass
  BY <1>1 DEF Pass
<1>2. CASE LoopEnds
  BY <1>2 DEF LoopEnds, Loops, Places
<1>3. CASE StopModule
  <2> DEFINE m == Modules[at]
  <2>1. at \in Places /\ m \in Range(Modules)
    BY <1>3 DEF StopModule
  <2>2. active' = [active EXCEPT ![m] = FALSE] /\ mSockets' \subseteq mSockets
          /\ UNCHANGED delegate
    BY <1>3 DEF StopModule, Disable
  <2>3. state' = IF m \in Service /\ active[m]
                 THEN [state EXCEPT ![m] = "STOPPING"] ELSE state
    BY <1>3 DEF StopModule, Disable
  <2>4. /\ at' \in Places
        /\ \/ main' = "stop" /\ at' = at - 1
           \/ main' = "cleanUp" /\ at' = 8
    BY <1>3, <2>1 DEF StopModule, Places
  <2>5. main' = "stop" => \A i \in Places : i > at' => ~active'[Modules[i]]
    BY <1>3, <2>1, <2>2, <2>4 DEF StopModule, Places
  <2> HIDE DEF m
  <2>6. AppType'
    BY <2>1, <2>2, <2>3, <2>4 DEF Places
  <2>7. \A s \in Service : Chosen(s)' => Chosen(s)
    BY <2>1, <2>2, <2>3
  <2> QED BY <2>1, <2>2, <2>4, <2>5, <2>6, <2>7
<1>4. CASE CleanUpModule
  BY <1>4 DEF CleanUpModule, Places
<1>5. ASSUME NEW s \in Service, StartService(s) PROVE AppInv'
  BY <1>5 DEF StartService, Visiting
<1>6. ASSUME NEW s \in Service, StartFails(s) PROVE AppInv'
  BY <1>6 DEF StartFails, Visiting
<1>7. CASE Quit
  BY <1>7 DEF Quit, Visiting
<1>8. ASSUME NEW s \in Service, Choose(s) PROVE AppInv'
  BY <1>8 DEF Choose, Visiting, Enable, Part, Start, Service
<1>9. CASE UNCHANGED appVars
  BY <1>9 DEF appVars
<1> QED
  BY <1>1, <1>2, <1>3, <1>4, <1>5, <1>6, <1>7, <1>8, <1>9 DEF AppNext, Step

LEMMA SpecApp == Spec => AppInit /\ [][AppNext]_appVars
<1>1. Init => AppInit
  BY DEF Init
<1>2. [Next]_<< appVars, idVars, packetVars >> => [AppNext]_appVars
  BY DEF Next
<1> QED BY <1>1, <1>2, PTL DEF Spec

(* Whichever button of the menu is pressed, whoever has a listening socket *)
(* in the network manager is its delegate: the menu is gone by the time a  *)
(* second service could take the packets of the first (updateGUI() of the  *)
(* menu, SetDelegate()).                                                   *)
THEOREM Served == Spec => []SocketsServed
<1>1. AppInv => SocketsServed
  BY DEF AppInv
<1> QED BY SpecApp, AppInitInv, AppNextInv, <1>1, PTL

LEMMA StopStep ==
  ASSUME AppInv, [AppNext]_appVars, active["networkManager"], ~active'["networkManager"]
  PROVE  ~active'["agentContainer"]
<1> USE ModulesAre, MenuIsModule DEF AppInv, AppType
<1>1. CASE StopModule
  <2>1. at \in Places /\ active' = [active EXCEPT ![Modules[at]] = FALSE]
    BY <1>1 DEF StopModule, Disable, StoppedBehind
  <2>2. Modules[at] = "networkManager"
    BY <2>1
  <2>3. at = 4
    BY <2>1, <2>2 DEF Modules, Places
  <2>4. Modules[5] = "agentContainer"
    BY DEF Modules
  <2>5. ~active["agentContainer"]
    BY <1>1, <2>3, <2>4 DEF StopModule, StoppedBehind, Places
  <2> QED BY <2>1, <2>2, <2>5
<1>2. ASSUME NEW s \in Service, Choose(s) PROVE FALSE
  <2>1. "networkManager" # "mainMenu"
    OBVIOUS
  <2> QED BY <1>2, <2>1 DEF Choose, Enable
<1>3. active' = active => FALSE
  OBVIOUS
<1> QED
  BY <1>1, <1>2, <1>3
     DEF AppNext, Step, Pass, LoopEnds, CleanUpModule, StartService, StartFails, Quit, appVars

(* The network manager is finalized only when the container of agents has  *)
(* stopped them, in whatever frame the window is closed: stop() of an MCC  *)
(* still sends (cleanUp() of Application.cpp).                             *)
THEOREM StopInOrder == Spec => AgentsStopFirst
<1>1. AppInv /\ [AppNext]_appVars
        => [ active["networkManager"] /\ ~active'["networkManager"]
               => ~active'["agentContainer"] ]_appVars
  BY StopStep
<1> QED BY SpecApp, AppInitInv, AppNextInv, <1>1, PTL DEF AgentsStopFirst

-----------------------------------------------------------------------------
(* The ids of agents.                                                      *)

(* A nonempty set of numbers has a smallest one.                           *)
LEMMA SmallestIn ==
  ASSUME NEW T \in SUBSET Nat, T # {},
         NEW R, IsWellFoundedOn(R, Nat), \A x, y \in Nat : y < x => << y, x >> \in R
  PROVE  \E x \in T : \A y \in T : x <= y
<1>1. PICK x \in T : \A y \in T : ~ (<< y, x >> \in R)
  BY WFMin
<1>2. ASSUME NEW y \in T PROVE x <= y
  <2>1. x \in Nat /\ y \in Nat
    OBVIOUS
  <2>2. ~ (y < x)
    BY <1>1, <2>1
  <2> QED BY <2>1, <2>2
<1> QED BY <1>2

LEMMA Smallest ==
  ASSUME NEW T \in SUBSET Nat, T # {}
  PROVE  \E x \in T : \A y \in T : x <= y
<1>1. \A x, y \in Nat : y < x => << y, x >> \in OpToRel(<, Nat)
  BY DEF OpToRel
<1> QED BY <1>1, SmallestIn, NatLessThanWellFounded

Record == [number : Nat, id : Nat, valid : BOOLEAN]

(* First() returns the number of an agent of the list, the smallest there. *)
LEMMA FirstIs ==
  ASSUME NEW agents \in SUBSET Record, agents # {}
  PROVE  \E a \in agents : First(agents) = a.number /\ \A b \in agents : a.number <= b.number
<1> DEFINE numbers == {a.number : a \in agents}
<1>1. numbers \in SUBSET Nat /\ numbers # {}
  BY DEF Record
<1>2. PICK n \in numbers : \A m \in numbers : n <= m
  BY <1>1, Smallest
<1>3. \E a \in agents : \A b \in agents : a.number <= b.number
  BY <1>2
<1> QED BY <1>3 DEF First

(* An id is the number of its agent, less some turns of the counter.       *)
Counted(n, id) == \E k \in Nat : n = id + k * Wrap

IdsType ==
  /\ g_IdCounter \in 0..(Wrap - 1)
  /\ given \in Seq(0..(Wrap - 1))
  /\ _agents \subseteq Record /\ _agentsToAdd \subseteq Record

IdsCounted ==
  /\ Counted(Len(given) + 1, g_IdCounter)
  /\ \A n \in DOMAIN given : Counted(n, given[n])

(* Who is held has the id that was given for it, no other agent has its    *)
(* number, and who waits to be added is younger than who does not.         *)
HeldInOrder ==
  /\ \A a \in Held : a.number \in DOMAIN given /\ a.id = given[a.number]
  /\ \A a, b \in Held : a.number = b.number => a = b
  /\ \A a \in _agents, b \in _agentsToAdd : a.number < b.number

IdsInv == IdsType /\ IdsCounted /\ HeldInOrder

LEMMA IdsInitInv == IdsInit => IdsInv
<1> SUFFICES ASSUME IdsInit PROVE IdsInv
  OBVIOUS
<1>1. IdsType
  BY IdsAssumption DEF IdsInit, IdsType
<1>2. Counted(1, 1)
  <2>1. 1 = 1 + 0 * Wrap
    BY IdsAssumption
  <2> QED BY <2>1 DEF Counted
<1>3. IdsCounted
  BY <1>2 DEF IdsInit, IdsCounted
<1> QED BY <1>1, <1>3 DEF IdsInit, IdsInv, HeldInOrder, Held

LEMMA CounterTurns ==
  ASSUME NEW x \in 0..(Wrap - 1)
  PROVE  (x + 1) % Wrap = IF x + 1 = Wrap THEN 0 ELSE x + 1
<1>1. CASE x + 1 = Wrap
  BY <1>1, IdsAssumption
<1>2. CASE x + 1 < Wrap
  BY <1>2, IdsAssumption
<1> QED BY <1>1, <1>2, IdsAssumption

LEMMA CreateInv == ASSUME IdsInv, Create PROVE IdsInv'
<1> DEFINE n == Len(given) + 1
           x == g_IdCounter
           e == [number |-> n, id |-> x, valid |-> TRUE]
<1> USE IdsAssumption
<1>1. /\ _agentsToAdd' = _agentsToAdd \cup {e} /\ _agents' = _agents
      /\ given' = Append(given, x)
      /\ g_IdCounter' = (x + 1) % Wrap
  BY DEF Create, Agent
<1>2. /\ x \in 0..(Wrap - 1) /\ given \in Seq(0..(Wrap - 1))
      /\ _agents \subseteq Record /\ _agentsToAdd \subseteq Record
  BY DEF IdsInv, IdsType
<1>3. n \in Nat /\ n > 0 /\ DOMAIN given = 1..(n - 1) /\ e \in Record
  BY <1>2 DEF Record
<1>4. /\ given' \in Seq(0..(Wrap - 1)) /\ DOMAIN given' = 1..n /\ Len(given') = n
      /\ given'[n] = x /\ \A i \in 1..(n - 1) : given'[i] = given[i]
  BY <1>1, <1>2, <1>3
<1>5. g_IdCounter' = IF x + 1 = Wrap THEN 0 ELSE x + 1
  BY <1>1, <1>2, CounterTurns
<1>6. IdsType'
  <2>1. g_IdCounter' \in 0..(Wrap - 1)
    BY <1>2, <1>5
  <2>2. _agentsToAdd' \subseteq Record
    BY <1>1, <1>2, <1>3
  <2> QED BY <1>1, <1>2, <1>4, <2>1, <2>2 DEF IdsType
<1>7. IdsCounted'
  <2>1. PICK k \in Nat : n = x + k * Wrap
    BY DEF IdsInv, IdsCounted, Counted
  <2>2. n + 1 = IF x + 1 = Wrap THEN 0 + (k + 1) * Wrap ELSE (x + 1) + k * Wrap
    BY <1>2, <1>3, <2>1
  <2>3. \E j \in Nat : n + 1 = (IF x + 1 = Wrap THEN 0 ELSE x + 1) + j * Wrap
    <3>1. CASE x + 1 = Wrap
      <4>1. k + 1 \in Nat /\ n + 1 = 0 + (k + 1) * Wrap
        BY <2>2, <3>1
      <4> QED BY <3>1, <4>1
    <3>2. CASE x + 1 # Wrap
      BY <2>2, <3>2
    <3> QED BY <3>1, <3>2
  <2>4. \A i \in 1..n : \E j \in Nat : i = given'[i] + j * Wrap
    <3> TAKE i \in 1..n
    <3>1. CASE i = n
      BY <1>4, <2>1, <3>1
    <3>2. CASE i # n
      <4>1. i \in 1..(n - 1)
        BY <1>3, <3>2
      <4>2. \E j \in Nat : i = given[i] + j * Wrap
        BY <1>3, <4>1 DEF IdsInv, IdsCounted, Counted
      <4> QED BY <1>4, <4>1, <4>2
    <3> QED BY <3>1, <3>2
  <2> HIDE DEF n, x
  <2> QED BY <1>4, <1>5, <2>3, <2>4 DEF IdsCounted, Counted
<1> HIDE DEF n, x
<1>8. Held' = Held \cup {e}
  BY <1>1 DEF Held
<1>9. \A a \in Held : a.number \in 1..(n - 1) /\ a.id = given[a.number]
  BY <1>3 DEF IdsInv, HeldInOrder
<1>10. /\ e.number = n /\ e.id = x
       /\ n \in 1..n /\ n \notin 1..(n - 1) /\ 1..(n - 1) \subseteq 1..n
  <2>1. e.number = n /\ e.id = x
    OBVIOUS
  <2> QED BY <1>3, <2>1
<1> HIDE DEF e
<1>11. HeldInOrder'
  <2>1. \A a \in Held' : a.number \in DOMAIN given' /\ a.id = given'[a.number]
    BY <1>4, <1>8, <1>9, <1>10
  <2>2. \A a, b \in Held' : a.number = b.number => a = b
    BY <1>8, <1>9, <1>10 DEF IdsInv, HeldInOrder
  <2>3. \A a \in _agents : a.number < e.number
    BY <1>3, <1>9, <1>10 DEF Held
  <2>4. \A a \in _agents', b \in _agentsToAdd' : a.number < b.number
    BY <1>1, <2>3 DEF IdsInv, HeldInOrder
  <2> QED BY <2>1, <2>2, <2>4 DEF HeldInOrder
<1> QED BY <1>6, <1>7, <1>11 DEF IdsInv

(* Destroying an agent leaves its number and its id.                       *)
LEMMA DestroyInv == ASSUME IdsInv, Destroy PROVE IdsInv'
<1>1. g_IdCounter' = g_IdCounter /\ given' = given
  BY DEF Destroy
<1>2. IdsCounted'
  BY <1>1 DEF IdsInv, IdsCounted, Counted
<1>3. ASSUME NEW a \in Record
      PROVE  Destroyed(a) \in Record /\ Destroyed(a).number = a.number /\ Destroyed(a).id = a.id
  BY DEF Destroyed, Record
<1>4. CASE /\ \E a \in _agents : _agents' = (_agents \ {a}) \cup {Destroyed(a)}
           /\ _agentsToAdd' = _agentsToAdd
  <2>1. PICK a \in _agents : _agents' = (_agents \ {a}) \cup {Destroyed(a)}
    BY <1>4
  <2>2. a \in Record
    BY DEF IdsInv, IdsType
  <2> QED BY <1>1, <1>2, <1>3, <1>4, <2>1, <2>2 DEF IdsInv, IdsType, HeldInOrder, Held
<1>5. CASE /\ \E a \in _agentsToAdd : _agentsToAdd' = (_agentsToAdd \ {a}) \cup {Destroyed(a)}
           /\ _agents' = _agents
  <2>1. PICK a \in _agentsToAdd : _agentsToAdd' = (_agentsToAdd \ {a}) \cup {Destroyed(a)}
    BY <1>5
  <2>2. a \in Record
    BY DEF IdsInv, IdsType
  <2> QED BY <1>1, <1>2, <1>3, <1>5, <2>1, <2>2 DEF IdsInv, IdsType, HeldInOrder, Held
<1> QED BY <1>4, <1>5 DEF Destroy

LEMMA PostUpdateInv == ASSUME IdsInv, PostUpdate PROVE IdsInv'
<1>1. /\ g_IdCounter' = g_IdCounter /\ given' = given
      /\ _agents' \subseteq Held /\ _agentsToAdd' = {} /\ Held' \subseteq Held
  BY DEF PostUpdate, Held
<1>2. IdsCounted'
  BY <1>1 DEF IdsInv, IdsCounted, Counted
<1>3. Held \subseteq Record
  BY DEF IdsInv, IdsType, Held
<1> QED BY <1>1, <1>2, <1>3 DEF IdsInv, IdsType, HeldInOrder

LEMMA IdsNextInv == IdsInv /\ [IdsNext]_idVars => IdsInv'
<1>1. ASSUME IdsInv, UNCHANGED idVars PROVE IdsInv'
  BY <1>1 DEF idVars, IdsInv, IdsType, IdsCounted, Counted, HeldInOrder, Held
<1> QED BY <1>1, CreateInv, DestroyInv, PostUpdateInv DEF IdsNext

-----------------------------------------------------------------------------
(* Who is found.                                                           *)

LEMMA FoundIsHeld ==
  ASSUME IdsInv, NEW id
  PROVE  getAgent(id) # Nobody
           => \E a \in Held : a.id = id /\ a.number = getAgent(id)
<1> HAVE getAgent(id) # Nobody
<1>1. Called(_agents, id) \in SUBSET Record /\ Called(_agentsToAdd, id) \in SUBSET Record
  BY DEF Called, IdsInv, IdsType
<1>2. CASE Called(_agents, id) # {}
  <2>1. PICK a \in Called(_agents, id) : First(Called(_agents, id)) = a.number
    BY <1>1, <1>2, FirstIs
  <2> QED BY <1>2, <2>1 DEF getAgent, Called, Held
<1>3. CASE Called(_agents, id) = {} /\ Called(_agentsToAdd, id) # {}
  <2>1. PICK a \in Called(_agentsToAdd, id) : First(Called(_agentsToAdd, id)) = a.number
    BY <1>1, <1>3, FirstIs
  <2> QED BY <1>3, <2>1 DEF getAgent, Called, Held
<1> QED BY <1>2, <1>3 DEF getAgent

(* Numbers with the same id are some turns of the counter apart.           *)
LEMMA TurnsApart ==
  ASSUME NEW m \in Nat, NEW n \in Nat, NEW id \in Nat, Counted(m, id), Counted(n, id), m < n
  PROVE  n - m >= Wrap
<1> USE IdsAssumption
<1>1. PICK k \in Nat : m = id + k * Wrap
  BY DEF Counted
<1>2. PICK j \in Nat : n = id + j * Wrap
  BY DEF Counted
<1>3. j > k
  <2>1. j <= k => j * Wrap <= k * Wrap
    OBVIOUS
  <2> QED BY <1>1, <1>2, <2>1
<1>4. j * Wrap >= k * Wrap + Wrap
  BY <1>3
<1> QED BY <1>1, <1>2, <1>4

LEMMA FoundMeant == IdsInv => FoundIsMeant
<1> SUFFICES ASSUME IdsInv, NEW n \in DOMAIN given, getAgent(given[n]) \notin {Nobody, n}
             PROVE  getAgent(given[n]) - n >= Wrap \/ n - getAgent(given[n]) >= Wrap
  BY DEF FoundIsMeant
<1>1. PICK a \in Held : a.id = given[n] /\ a.number = getAgent(given[n])
  BY FoundIsHeld
<1>2. a.number \in DOMAIN given /\ given[a.number] = given[n]
  BY <1>1 DEF IdsInv, HeldInOrder
<1>3. n \in Nat /\ a.number \in Nat /\ given[n] \in Nat
  BY <1>2, IdsAssumption DEF IdsInv, IdsType
<1>4. Counted(n, given[n]) /\ Counted(a.number, given[n])
  BY <1>2 DEF IdsInv, IdsCounted
<1>5. n < a.number \/ a.number < n
  BY <1>1, <1>3
<1> QED BY <1>1, <1>3, <1>4, <1>5, TurnsApart

(* The lists are searched in the order of the numbers: who is found is the *)
(* oldest agent with the id.                                               *)
LEMMA OldestIsFound ==
  ASSUME IdsInv, NEW id, \E a \in Held : a.id = id
  PROVE  \E c \in Held : /\ c.id = id /\ c.number = getAgent(id)
                         /\ \A b \in Held : b.id = id => c.number <= b.number
<1> DEFINE old == Called(_agents, id)
           new == Called(_agentsToAdd, id)
<1>1. old \in SUBSET Record /\ new \in SUBSET Record
  BY DEF Called, IdsInv, IdsType
<1>2. CASE old # {}
  <2>1. PICK c \in old : First(old) = c.number /\ \A b \in old : c.number <= b.number
    BY <1>1, <1>2, FirstIs
  <2>2. c \in Held /\ c.id = id /\ c.number = getAgent(id)
    BY <1>2, <2>1 DEF getAgent, Called, Held
  <2>3. ASSUME NEW b \in Held, b.id = id PROVE c.number <= b.number
    <3>1. CASE b \in _agents
      BY <2>1, <2>3, <3>1 DEF Called
    <3>2. CASE b \in _agentsToAdd
      <4>1. c \in _agents /\ c \in Record /\ b \in Record
        BY <1>1, <3>2 DEF Called, IdsInv, IdsType
      <4>2. c.number < b.number
        BY <3>2, <4>1 DEF IdsInv, HeldInOrder
      <4> QED BY <4>1, <4>2 DEF Record
    <3> QED BY <3>1, <3>2 DEF Held
  <2> QED BY <2>2, <2>3
<1>3. CASE old = {}
  <2>1. new # {}
    BY <1>3 DEF Called, Held
  <2>2. PICK c \in new : First(new) = c.number /\ \A b \in new : c.number <= b.number
    BY <1>1, <2>1, FirstIs
  <2> QED BY <1>3, <2>1, <2>2 DEF getAgent, Called, Held
<1> QED BY <1>2, <1>3

OldestFound ==
  \A n \in DOMAIN given :
    (\E a \in Held : a.id = given[n])
      => \E c \in Held : /\ c.id = given[n] /\ c.number = getAgent(given[n])
                       /\ \A b \in Held : b.id = given[n] => c.number <= b.number

LEMMA OldestFoundAlways == IdsInv => OldestFound
BY OldestIsFound DEF OldestFound

(* A step keeps the numbers and ids of who is held, or drops who is not    *)
(* valid; who comes is the youngest.                                       *)
LEMMA HeldStep ==
  ASSUME IdsInv, [IdsNext]_idVars
  PROVE  /\ \A n \in DOMAIN given : n \in DOMAIN given' /\ given'[n] = given[n]
         /\ \A a \in Held : a.valid => \E b \in Held' : b.number = a.number /\ b.id = a.id
         /\ \A b \in Held' : \/ b.number = Len(given) + 1
                             \/ \E a \in Held : b.number = a.number /\ b.id = a.id
<1>1. CASE Create
  <2>1. given' = Append(given, g_IdCounter) /\ given \in Seq(0..(Wrap - 1))
          /\ g_IdCounter \in 0..(Wrap - 1)
    BY <1>1 DEF Create, IdsInv, IdsType
  <2>2. Held' = Held \cup {Agent(g_IdCounter)} /\ Agent(g_IdCounter).number = Len(given) + 1
    BY <1>1 DEF Create, Held, Agent
  <2>3. \A n \in DOMAIN given : n \in DOMAIN given' /\ given'[n] = given[n]
    BY <2>1
  <2> QED BY <2>2, <2>3
<1>2. CASE Destroy
  <2>1. given' = given
    BY <1>2 DEF Destroy
  <2>2. PICK a \in Held :
          /\ Held \ {a} \subseteq Held' /\ Destroyed(a) \in Held'
          /\ Held' \subseteq Held \cup {Destroyed(a)}
    BY <1>2 DEF Destroy, Held
  <2>3. a \in Record
    BY DEF IdsInv, IdsType, Held
  <2>4. Destroyed(a).number = a.number /\ Destroyed(a).id = a.id
    BY <2>3 DEF Destroyed, Record
  <2> QED BY <2>1, <2>2, <2>4
<1>3. CASE PostUpdate
  BY <1>3 DEF PostUpdate, Held
<1>4. CASE UNCHANGED idVars
  BY <1>4 DEF idVars, Held
<1> QED BY <1>1, <1>2, <1>3, <1>4 DEF IdsNext

LEMMA StaysStep ==
  ASSUME IdsInv, IdsInv', [IdsNext]_idVars,
         NEW n \in DOMAIN given, getAgent(given[n]) = n,
         ~ \E a \in Held : a.number = n /\ ~a.valid
  PROVE  getAgent(given[n])' = n
<1> DEFINE id == given[n]
<1>1. n \in Nat /\ n # Nobody /\ n < Len(given) + 1
  BY DEF IdsInv, IdsType, Nobody
<1>2. PICK d \in Held : d.id = id /\ d.number = getAgent(id)
  BY <1>1, FoundIsHeld
<1>3. PICK a \in Held : /\ a.id = id /\ a.number = n
                        /\ \A b \in Held : b.id = id => a.number <= b.number
  BY <1>2, OldestIsFound
<1>4. \E b \in Held' : b.id = id /\ b.number = n
  BY <1>3, HeldStep
<1>5. \A b \in Held' : b.id = id => n <= b.number
  BY <1>1, <1>3, HeldStep
<1>6. id' = id
  BY HeldStep
<1>7. \E c \in Held' : /\ c.id = id' /\ c.number = getAgent(id)'
                       /\ \A b \in Held' : b.id = id' => c.number <= b.number
  <2>1. OldestFound'
    BY OldestFoundAlways, PTL
  <2>2. n \in DOMAIN given' /\ \E b \in Held' : b.id = given'[n]
    BY <1>4, <1>6, HeldStep
  <2> QED BY <2>1, <2>2 DEF OldestFound
<1>8. Held' \subseteq Record
  BY DEF IdsInv, IdsType, Held
<1> QED BY <1>1, <1>4, <1>5, <1>6, <1>7, <1>8 DEF Record

LEMMA SpecIds == Spec => IdsInit /\ [][IdsNext]_idVars
<1>1. Init => IdsInit
  BY DEF Init
<1>2. [Next]_<< appVars, idVars, packetVars >> => [IdsNext]_idVars
  BY DEF Next
<1> QED BY <1>1, <1>2, PTL DEF Spec

(* For any width of an id and any number of agents: a location that was    *)
(* given out leads to the agent it was given out for, or to nobody, as     *)
(* long as the counter has not gone round between that agent and the one   *)
(* that is found (getAgent(), g_IdCounter).                                *)
THEOREM FoundMeantAlways == Spec => []FoundIsMeant
BY SpecIds, IdsInitInv, IdsNextInv, FoundMeant, PTL

(* For any width of an id and any number of agents: who can be found by    *)
(* its id can be found until it is dropped, whoever else is given the same *)
(* id in the meantime (getAgent(), postUpdate() of the container).         *)
THEOREM FoundStays == Spec => StaysFound
<1>1. ASSUME IdsInv, IdsInv', [IdsNext]_idVars
      PROVE  [ \A n \in DOMAIN given :
                 getAgent(given[n]) = n =>
                   \/ getAgent(given[n])' = n
                   \/ \E a \in Held : a.number = n /\ ~a.valid ]_idVars
  BY <1>1, StaysStep
<1> QED BY SpecIds, IdsInitInv, IdsNextInv, <1>1, PTL DEF StaysFound

-----------------------------------------------------------------------------
(* Packets.                                                                *)

(* The types of packets (PacketType).                                      *)
Kinds == {"RegisterMCC", "RegisterMCCAck", "UnregisterMCC",
     "QueryMCCsForItem", "ReturnMCCsForItem",
     "NegotiationRequest", "NegotiationRequestResult",
     "ItemRequest", "ConstraintRequest", "ConstraintAcceptance" }

(* The number of a type is its place in PacketType, and gives it back.     *)
LEMMA CodeOf ==
  ASSUME NEW t \in Kinds
  PROVE  Code(t) \in 0..9 /\ PacketTypes[Code(t) + 1] = t
<1>1. PICK types : types = PacketTypes
  OBVIOUS
<1>2. /\ Len(types) = 10
      /\ types[1] = "RegisterMCC" /\ types[2] = "RegisterMCCAck" /\ types[3] = "UnregisterMCC"
      /\ types[4] = "QueryMCCsForItem" /\ types[5] = "ReturnMCCsForItem"
      /\ types[6] = "NegotiationRequest" /\ types[7] = "NegotiationRequestResult"
      /\ types[8] = "ItemRequest" /\ types[9] = "ConstraintRequest"
      /\ types[10] = "ConstraintAcceptance"
  BY <1>1 DEF PacketTypes
<1>3. \E i \in 1..10 : types[i] = t
  <2>1. /\ 1 \in 1..10 /\ 2 \in 1..10 /\ 3 \in 1..10 /\ 4 \in 1..10 /\ 5 \in 1..10
        /\ 6 \in 1..10 /\ 7 \in 1..10 /\ 8 \in 1..10 /\ 9 \in 1..10 /\ 10 \in 1..10
    OBVIOUS
  <2> QED
    BY <1>2, <2>1 DEF Kinds
<1>4. PICK i \in 1..10 : types[i] = t /\ i = CHOOSE j \in 1..10 : types[j] = t
  BY ONLY <1>3
<1>5. Code(t) = i - 1
  BY ONLY <1>1, <1>2, <1>4 DEF Code
<1>6. i - 1 \in 0..9 /\ (i - 1) + 1 = i
  OBVIOUS
<1> QED
  BY ONLY <1>1, <1>4, <1>5, <1>6

(* The fields of a packet.                                                 *)
PacketHead(p) ==
  /\ p = [packetType |-> p.packetType, srcAgentId |-> p.srcAgentId,
          dstAgentId |-> p.dstAgentId, data |-> p.data]
  /\ p.packetType \in Kinds
  /\ p.srcAgentId \in Word /\ p.dstAgentId \in Word

(* A location that is sent, written by an agent or not.                    *)
Place == Location \cup NotSet

(* The fields behind the header, by type.                                  *)
PacketBody(p) ==
  /\ p.packetType \in ItemTypes =>
       p.data = [itemId |-> p.data.itemId] /\ p.data.itemId \in Word
  /\ p.packetType = "ReturnMCCsForItem" =>
       /\ p.data = [mccAddresses |-> p.data.mccAddresses]
       /\ Len(p.data.mccAddresses) \in Word
       /\ p.data.mccAddresses \in Seq(Place)
  /\ p.packetType = "NegotiationRequestResult" =>
       /\ p.data = [availableNegotiation |-> p.data.availableNegotiation,
                    location |-> p.data.location]
       /\ p.data.availableNegotiation \in BOOLEAN
       /\ p.data.location \in Place
  /\ p.packetType = "ConstraintAcceptance" =>
       /\ p.data = [negotiationAccepted |-> p.data.negotiationAccepted]
       /\ p.data.negotiationAccepted \in BOOLEAN
  /\ p.packetType \in {"RegisterMCCAck", "NegotiationRequest", "ItemRequest"} => p.data = NoData

(* All that is sent as an id has two bytes.                                *)
LEMMA IdsAreWords ==
  /\ AgentId \subseteq Word /\ ItemId \subseteq Word
  /\ NULL_AGENT_ID \in Word /\ YellowPagesId \in Word
<1>1. NULL_AGENT_ID \in Word /\ YellowPagesId \in Word
  BY ONLY SMT DEF NULL_AGENT_ID, YellowPagesId, Word, MaxWord
<1> QED
  BY <1>1, FormatsAssumption

(* The length of a list of contributors fits its count of two bytes.       *)
LEMMA ListsFit ==
  ASSUME NEW list \in SeqOf(Location, MaxListed)
  PROVE  Len(list) \in Word /\ list \in Seq(Place)
<1>1. MaxListed \in Nat /\ MaxListed < 65536
  BY FormatsAssumption, ByteNumbers
<1>2. PICK n \in 0..MaxListed : list \in [1..n -> Location]
  BY <1>1 DEF SeqOf
<1>3. n \in Nat /\ n < 65536
  BY ONLY SMT, <1>1, n \in 0..MaxListed
<1>4. n \in Word
  BY ONLY WordNumbers, <1>3
<1>5. list \in [1..n -> Place]
  BY <1>2 DEF Place
<1>6. list \in Seq(Place) /\ Len(list) = n
  BY ONLY <1>3, <1>5
<1> QED
  BY ONLY <1>4, <1>6

(* Every packet an agent sends has these fields.                           *)
LEMMA PacketIs ==
  ASSUME NEW p \in Packet
  PROVE  PacketHead(p) /\ PacketBody(p)
<1> USE DEF PacketOf, Kinds, PacketHead, PacketBody
<1>1. CASE p \in PacketOf(ItemTypes \ {"ConstraintRequest"}, AgentId, {YellowPagesId}, [itemId : ItemId])
  BY <1>1, IdsAreWords DEF ItemTypes
<1>2. CASE p \in PacketOf({"RegisterMCCAck"}, {NULL_AGENT_ID}, AgentId, {NoData})
  BY <1>2, IdsAreWords DEF ItemTypes
<1>3. CASE p \in PacketOf({"ReturnMCCsForItem"}, {NULL_AGENT_ID}, AgentId,
             [mccAddresses : SeqOf(Location, MaxListed)])
  BY <1>3, IdsAreWords, ListsFit DEF ItemTypes
<1>4. CASE p \in PacketOf({"NegotiationRequest", "ItemRequest"}, AgentId, AgentId, {NoData})
  BY <1>4, IdsAreWords DEF ItemTypes
<1>5. CASE p \in PacketOf({"NegotiationRequestResult"}, AgentId, AgentId,
             [availableNegotiation : {TRUE}, location : Location]
               \cup [availableNegotiation : BOOLEAN, location : NotSet])
  <2>1. /\ PacketHead(p) /\ p.packetType = "NegotiationRequestResult"
        /\ p.data \in [availableNegotiation : {TRUE}, location : Location]
             \/ p.data \in [availableNegotiation : BOOLEAN, location : NotSet]
    BY <1>5, IdsAreWords
  <2>2. p.data \in [availableNegotiation : BOOLEAN, location : Place]
    BY ONLY <2>1 DEF Place
  <2> QED
    BY ONLY <2>1, <2>2 DEF PacketBody, ItemTypes
<1>6. CASE p \in PacketOf({"ConstraintRequest"}, AgentId, AgentId, [itemId : ItemId])
  BY <1>6, IdsAreWords DEF ItemTypes
<1>7. CASE p \in PacketOf({"ConstraintAcceptance"}, AgentId, AgentId,
             [negotiationAccepted : BOOLEAN])
  BY <1>7, IdsAreWords DEF ItemTypes
<1> QED
  BY <1>1, <1>2, <1>3, <1>4, <1>5, <1>6, <1>7 DEF Packet

(* What stands in a place of two sequences stands there one after the other. *)
LEMMA HeldBoth ==
  ASSUME NEW T, NEW bytes \in Seq(T), NEW a \in Seq(T), NEW b \in Seq(T), NEW i \in Nat,
         Holds(bytes, i, a \o b)
  PROVE  /\ a \o b \in Seq(T) /\ Len(a \o b) = Len(a) + Len(b)
         /\ Holds(bytes, i, a) /\ Holds(bytes, i + Len(a), b)
<1>1. PICK c : c = a \o b
  OBVIOUS
<1>2. c \in Seq(T) /\ Len(c) = Len(a) + Len(b) /\ Holds(c, 0, a) /\ Holds(c, Len(a), b)
  BY <1>1, HeldJoined
<1>3. Holds(bytes, i, c)
  BY <1>1
<1>4. PICK n \in Nat : n = Len(a)
  OBVIOUS
<1>5. Holds(bytes, i + 0, a)
  BY ONLY <1>2, <1>3, HeldWithin, bytes \in Seq(T), a \in Seq(T), i \in Nat, 0 \in Nat
<1>6. Holds(c, n, b)
  BY <1>2, <1>4
<1>7. Holds(bytes, i + n, b)
  BY ONLY <1>2, <1>3, <1>6, HeldWithin, bytes \in Seq(T), b \in Seq(T), i \in Nat, n \in Nat
<1>8. i + 0 = i
  OBVIOUS
<1> QED
  BY ONLY <1>1, <1>2, <1>4, <1>5, <1>7, <1>8

(* A word is found where it stands.                                        *)
LEMMA WordAt ==
  ASSUME stream \in Seq(Byte), NEW i \in Nat, NEW w \in Word
  PROVE  /\ Holds(stream, i, WriteWord(w, 2)) => ReadWordAt(i, 2) = At(w, i + 2)
         /\ Holds(stream, i, WriteWord(w, 4)) => ReadWordAt(i, 4) = At(w, i + 4)
<1>1. ASSUME Holds(stream, i, WriteWord(w, 2)) PROVE ReadWordAt(i, 2) = At(w, i + 2)
  <2>1. PICK b : b = WriteWord(w, 2)
    OBVIOUS
  <2>2. b \in Seq(Byte) /\ Len(b) = 2 /\ ReadWord(b, 2) = w
    BY ONLY <2>1, WordRead, w \in Word
  <2>3. SubSeq(stream, i + 1, i + 2) = b
    <3>1. Holds(stream, i, b)
      BY <1>1, <2>1
    <3>2. SubSeq(stream, i + 1, i + Len(b)) = b
      BY ONLY <2>2, <3>1, HeldRead, stream \in Seq(Byte), i \in Nat
    <3> QED
      BY ONLY <2>2, <3>2
  <2> QED
    BY ONLY <2>2, <2>3 DEF ReadWordAt
<1>2. ASSUME Holds(stream, i, WriteWord(w, 4)) PROVE ReadWordAt(i, 4) = At(w, i + 4)
  <2>1. PICK b : b = WriteWord(w, 4)
    OBVIOUS
  <2>2. b \in Seq(Byte) /\ Len(b) = 4 /\ ReadWord(b, 4) = w
    <3>1. w \in LongWord
      BY LongWords
    <3> QED
      BY ONLY <2>1, <3>1, WordRead
  <2>3. SubSeq(stream, i + 1, i + 4) = b
    <3>1. Holds(stream, i, b)
      BY <1>2, <2>1
    <3>2. SubSeq(stream, i + 1, i + Len(b)) = b
      BY ONLY <2>2, <3>1, HeldRead, stream \in Seq(Byte), i \in Nat
    <3> QED
      BY ONLY <2>2, <3>2
  <2> QED
    BY ONLY <2>2, <2>3 DEF ReadWordAt
<1> QED
  BY <1>1, <1>2

(* A word is written as two bytes.                                         *)
LEMMA WrittenWord ==
  ASSUME NEW w \in Word
  PROVE  /\ WriteWord(w, 2) \in Seq(Byte) /\ Len(WriteWord(w, 2)) = 2
         /\ WriteWord(w, 4) \in Seq(Byte) /\ Len(WriteWord(w, 4)) = 4
  BY ONLY WordRead, LongWords, w \in Word

(* A string is found with its length before it.                            *)
LEMMA WrittenString ==
  ASSUME NEW s \in Seq(Byte), Len(s) \in Word
  PROVE  WriteString(s) \in Seq(Byte) /\ Len(WriteString(s)) = 4 + Len(s)
<1>1. PICK b : b = WriteWord(Len(s), 4)
  OBVIOUS
<1>2. b \in Seq(Byte) /\ Len(b) = 4
  BY <1>1, WrittenWord
<1>3. b \o s \in Seq(Byte) /\ Len(b \o s) = Len(b) + Len(s)
  BY <1>2, ConcatProperties
<1> QED
  BY ONLY <1>1, <1>2, <1>3 DEF WriteString

(* A string that stands at a place is read there, its count of four bytes  *)
(* first, and the place moves behind it.                                   *)
LEMMA StringAt ==
  ASSUME stream \in Seq(Byte), NEW i \in Nat, NEW s \in Seq(Byte), Len(s) \in Word,
         Holds(stream, i, WriteString(s))
  PROVE  ReadString(i) = At(s, i + (4 + Len(s)))
<1>1. PICK b : b = WriteWord(Len(s), 4)
  OBVIOUS
<1>2. b \in Seq(Byte) /\ Len(b) = 4
  BY <1>1, WrittenWord
<1>3. Holds(stream, i, b \o s)
  BY <1>1 DEF WriteString
<1>4. Holds(stream, i, b) /\ Holds(stream, i + Len(b), s)
  BY ONLY <1>2, <1>3, HeldBoth, stream \in Seq(Byte), s \in Seq(Byte), i \in Nat
<1>5. ReadWordAt(i, 4) = At(Len(s), i + 4)
  BY <1>1, <1>4, WordAt
<1>6. PICK n \in Nat : n = Len(s)
  OBVIOUS
<1>7. PICK j \in Nat : j = i + 4
  OBVIOUS
<1>8. Holds(stream, j, s)
  BY <1>2, <1>4, <1>7
<1>9. SubSeq(stream, j + 1, j + Len(s)) = s
  BY ONLY <1>8, HeldRead, stream \in Seq(Byte), s \in Seq(Byte), j \in Nat
<1>10. j + n = i + (4 + n)
  BY <1>7
<1>11. ReadWordAt(i, 4).next = j /\ ReadWordAt(i, 4).value = n
  BY ONLY <1>5, <1>6, <1>7 DEF At
<1>12. ReadString(i) = At(SubSeq(stream, j + 1, j + n), j + n)
  BY ONLY <1>11 DEF ReadString
<1> QED
  BY ONLY <1>6, <1>9, <1>10, <1>12

(* A location is found as it was written, its address first.               *)
LEMMA Located ==
  ASSUME NEW l \in Place
  PROVE  /\ l = [hostIP |-> l.hostIP, hostPort |-> l.hostPort, agentId |-> l.agentId]
         /\ l.hostIP \in Seq(Byte) /\ Len(l.hostIP) \in Word
         /\ l.hostPort \in Word /\ l.agentId \in Word
  BY FormatsAssumption DEF Place

(* A location is written as bytes.                                         *)
LEMMA WrittenLocation ==
  ASSUME NEW l \in Place
  PROVE  /\ WriteLocation(l) \in Seq(Byte)
         /\ Len(WriteLocation(l)) = (4 + Len(l.hostIP)) + 2 + 2
<1>1. PICK a, b, c : a = WriteString(l.hostIP) /\ b = WriteWord(l.hostPort, 2)
                     /\ c = WriteWord(l.agentId, 2)
  OBVIOUS
<1>2. /\ a \in Seq(Byte) /\ Len(a) = 4 + Len(l.hostIP)
      /\ b \in Seq(Byte) /\ Len(b) = 2 /\ c \in Seq(Byte) /\ Len(c) = 2
  BY <1>1, Located, WrittenString, WrittenWord
<1>3. a \o b \in Seq(Byte) /\ Len(a \o b) = Len(a) + Len(b)
  BY <1>2, ConcatProperties
<1>4. (a \o b) \o c \in Seq(Byte) /\ Len((a \o b) \o c) = Len(a \o b) + Len(c)
  BY <1>2, <1>3, ConcatProperties
<1> QED
  BY ONLY <1>1, <1>2, <1>3, <1>4 DEF WriteLocation

(* A location that stands at a place is read there                         *)
(* (AgentLocation::Read()).                                                *)
LEMMA LocationAt ==
  ASSUME stream \in Seq(Byte), NEW i \in Nat, NEW l \in Place,
         Holds(stream, i, WriteLocation(l))
  PROVE  ReadLocation(i) = At(l, i + Len(WriteLocation(l)))
<1>1. PICK a, b, c : a = WriteString(l.hostIP) /\ b = WriteWord(l.hostPort, 2)
                     /\ c = WriteWord(l.agentId, 2)
  OBVIOUS
<1>2. PICK n \in Nat : n = Len(l.hostIP)
  BY Located
<1>3. /\ a \in Seq(Byte) /\ Len(a) = 4 + n
      /\ b \in Seq(Byte) /\ Len(b) = 2 /\ c \in Seq(Byte) /\ Len(c) = 2
  BY <1>1, <1>2, Located, WrittenString, WrittenWord
<1>4. /\ a \o b \in Seq(Byte) /\ Len(a \o b) = Len(a) + Len(b)
  BY <1>3, ConcatProperties
<1>5. Holds(stream, i, (a \o b) \o c)
  BY <1>1 DEF WriteLocation
<1>6. Holds(stream, i, a \o b) /\ Holds(stream, i + Len(a \o b), c)
  BY ONLY <1>3, <1>4, <1>5, HeldBoth, stream \in Seq(Byte), i \in Nat
<1>7. Holds(stream, i, a) /\ Holds(stream, i + Len(a), b)
  BY ONLY <1>3, <1>6, HeldBoth, stream \in Seq(Byte), i \in Nat
<1>8. PICK j \in Nat, k \in Nat, m \in Nat : j = i + (4 + n) /\ k = j + 2 /\ m = k + 2
  OBVIOUS
<1>9. ReadString(i) = At(l.hostIP, j)
  <2>1. ReadString(i) = At(l.hostIP, i + (4 + Len(l.hostIP)))
    BY <1>1, <1>7, Located, StringAt
  <2> QED
    BY ONLY <1>2, <1>8, <2>1
<1>10. ReadWordAt(j, 2) = At(l.hostPort, k)
  <2>1. Holds(stream, j, b)
    BY ONLY <1>3, <1>7, <1>8
  <2>2. ReadWordAt(j, 2) = At(l.hostPort, j + 2)
    BY <1>1, <2>1, Located, WordAt
  <2> QED
    BY ONLY <1>8, <2>2
<1>11. ReadWordAt(k, 2) = At(l.agentId, m)
  <2>1. i + Len(a \o b) = k
    BY ONLY <1>3, <1>4, <1>8, i \in Nat, n \in Nat
  <2>2. Holds(stream, k, c)
    BY ONLY <1>6, <2>1
  <2>3. ReadWordAt(k, 2) = At(l.agentId, k + 2)
    BY <1>1, <2>2, Located, WordAt
  <2> QED
    BY ONLY <1>8, <2>3
<1>12. i + Len(WriteLocation(l)) = m
  <2>1. Len(WriteLocation(l)) = (4 + n) + 2 + 2
    BY <1>2, WrittenLocation
  <2> QED
    BY ONLY <1>8, <2>1, i \in Nat, n \in Nat
<1>13. ReadLocation(i)
         = At([hostIP |-> l.hostIP, hostPort |-> l.hostPort, agentId |-> l.agentId], m)
  <2>1. ReadString(i).next = j /\ ReadString(i).value = l.hostIP
    BY ONLY <1>9 DEF At
  <2>2. ReadWordAt(j, 2).next = k /\ ReadWordAt(j, 2).value = l.hostPort
    BY ONLY <1>10 DEF At
  <2>3. ReadWordAt(k, 2).next = m /\ ReadWordAt(k, 2).value = l.agentId
    BY ONLY <1>11 DEF At
  <2> QED
    BY ONLY <2>1, <2>2, <2>3 DEF ReadLocation
<1> QED
  BY ONLY <1>12, <1>13, Located, l \in Place

(* What the loop over a list of contributors writes, one by one.           *)
WrittenLocations(list) == [k \in DOMAIN list |-> WriteLocation(list[k])]

(* The first m of a list, and one more.                                    *)
Begun(list, m) == [k \in 1..m |-> list[k]]

(* One more of the list.                                                   *)
LEMMA BeginsFurther ==
  ASSUME NEW T, NEW list \in Seq(T), NEW m \in 1..Len(list)
  PROVE  Append(Begun(list, m - 1), list[m]) = Begun(list, m)
<1>1. PICK n \in Nat : n = m - 1
  OBVIOUS
<1>2. PICK a, b : a = Begun(list, n) /\ b = Begun(list, m)
  OBVIOUS
<1>3. \A k \in 1..m : k \in 1..Len(list) /\ list[k] \in T
  BY ElementOfSeq
<1>4. a \in Seq(T) /\ Len(a) = n /\ \A k \in 1..n : a[k] = list[k]
  BY <1>1, <1>2, <1>3 DEF Begun
<1>5. b \in Seq(T) /\ Len(b) = m /\ \A k \in 1..m : b[k] = list[k]
  BY <1>2, <1>3 DEF Begun
<1>6. PICK x \in T : x = list[m]
  BY <1>3
<1>7. PICK c : c = Append(a, x)
  OBVIOUS
<1>8. c \in Seq(T) /\ Len(c) = n + 1 /\ c[n + 1] = x /\ \A k \in 1..n : c[k] = a[k]
  BY <1>4, <1>7, AppendProperties
<1>9. c = b
  <2>1. Len(c) = m /\ n + 1 = m
    BY <1>1, <1>8
  <2>2. ASSUME NEW k \in 1..m PROVE c[k] = b[k]
    <3>1. CASE k = m
      BY <1>5, <1>6, <1>8, <2>1, <3>1
    <3>2. CASE k # m
      BY <1>1, <1>4, <1>5, <1>8, <3>2
    <3> QED
      BY <3>1, <3>2
  <2> QED
    BY ONLY <1>5, <1>8, <2>1, <2>2, SeqEqual
<1> QED
  BY ONLY <1>1, <1>2, <1>6, <1>7, <1>9

(* The whole list is what the loop has put together at its end.            *)
LEMMA ListAssembled ==
  ASSUME NEW list \in Seq(Place), NEW n \in Nat, n = Len(list)
  PROVE  \E f :
           /\ f[0] = <<>> /\ f[n] = FlattenSeq(WrittenLocations(list))
           /\ \A k \in 0..n : f[k] \in Seq(Byte)
           /\ \A k \in 1..n :
                /\ list[k] \in Place
                /\ f[k] = f[k - 1] \o WriteLocation(list[k])
                /\ Holds(f[n], Len(f[k - 1]), WriteLocation(list[k]))
<1>1. PICK parts : parts = WrittenLocations(list)
  OBVIOUS
<1>2. \A k \in 1..n : list[k] \in Place /\ parts[k] = WriteLocation(list[k])
  BY <1>1, ElementOfSeq DEF WrittenLocations
<1>3. \A k \in 1..n : parts[k] \in Seq(Byte)
  BY <1>2, WrittenLocation
<1>4. Len(parts) = n /\ parts = [k \in 1..n |-> WriteLocation(list[k])]
  <2>1. parts = [k \in 1..n |-> WriteLocation(list[k])]
    BY <1>1 DEF WrittenLocations
  <2> QED
    BY <2>1
<1>5. Parts(parts, n, Byte)
  BY <1>3 DEF Parts
<1>6. n = 0 => parts = <<>>
  BY <1>4
<1>7. PICK f : Assembles(f, parts, n) /\ FlattenSeq(parts) = f[n]
  BY <1>4, <1>5, <1>6, FlattenAssembles
<1>8. /\ f[0] = <<>> /\ \A i \in 0..n : f[i] \in Seq(Byte)
      /\ \A i \in 1..n : f[i] = f[i - 1] \o parts[i] /\ Holds(f[n], Len(f[i - 1]), parts[i])
  <2>1. Assembles(f, parts, n)
    BY <1>7
  <2> QED
    BY ONLY <1>5, <2>1, HeldParts, n \in Nat
<1> QED
  BY ONLY <1>1, <1>2, <1>7, <1>8

(* A list is written as bytes.                                             *)
LEMMA WrittenList ==
  ASSUME NEW list \in Seq(Place), Len(list) \in Word
  PROVE  FlattenSeq(WrittenLocations(list)) \in Seq(Byte)
<1>1. PICK n \in Nat : n = Len(list)
  OBVIOUS
<1>2. n \in 0..n
  OBVIOUS
<1> QED
  BY <1>1, <1>2, ListAssembled

(* A list of locations is found with its length before it.                 *)
LEMMA LocationsAt ==
  ASSUME stream \in Seq(Byte), NEW i \in Nat, NEW list \in Seq(Place), Len(list) \in Word,
         Holds(stream, i, WriteWord(Len(list), 2) \o FlattenSeq(WrittenLocations(list)))
  PROVE  ReadLocations(i)
           = At([mccAddresses |-> list], i + (2 + Len(FlattenSeq(WrittenLocations(list)))))
<1>1. PICK n \in Nat : n = Len(list)
  OBVIOUS
<1>2. PICK f :
        /\ f[0] = <<>> /\ f[n] = FlattenSeq(WrittenLocations(list))
        /\ \A k \in 0..n : f[k] \in Seq(Byte)
        /\ \A k \in 1..n :
             /\ list[k] \in Place
             /\ f[k] = f[k - 1] \o WriteLocation(list[k])
             /\ Holds(f[n], Len(f[k - 1]), WriteLocation(list[k]))
  BY <1>1, ListAssembled
<1>3. PICK all : all = f[n]
  OBVIOUS
<1>4. all \in Seq(Byte)
  BY <1>2, <1>3
<1>5. PICK b : b = WriteWord(n, 2)
  OBVIOUS
<1>6. b \in Seq(Byte) /\ Len(b) = 2
  BY <1>1, <1>5, WrittenWord
<1>7. Holds(stream, i, b) /\ Holds(stream, i + Len(b), all)
  <2>1. Holds(stream, i, b \o all)
    BY <1>1, <1>2, <1>3, <1>5
  <2> QED
    BY ONLY <1>4, <1>6, <2>1, HeldBoth, stream \in Seq(Byte), i \in Nat
<1>8. PICK j \in Nat : j = i + 2
  OBVIOUS
<1>9. ReadWordAt(i, 2).next = j /\ ReadWordAt(i, 2).value = n
  <2>1. ReadWordAt(i, 2) = At(n, i + 2)
    BY <1>1, <1>5, <1>7, WordAt
  <2> QED
    BY ONLY <1>8, <2>1 DEF At
<1>10. PICK start : start = [k \in 0..n |-> j + Len(f[k])]
  OBVIOUS
<1>11. start[0] = j /\ start[n] = j + Len(all)
  <2>1. 0 \in 0..n /\ n \in 0..n
    OBVIOUS
  <2>2. Len(f[0]) = 0
    BY <1>2
  <2> QED
    BY ONLY <1>3, <1>10, <2>1, <2>2, j \in Nat
<1>12. ASSUME NEW k \in 1..n
       PROVE  ReadLocation(start[k - 1]) = At(list[k], start[k])
  <2>1. PICK m \in 0..n : m = k - 1
    OBVIOUS
  <2>2. PICK a, c : a = f[m] /\ c = WriteLocation(list[k])
    OBVIOUS
  <2>3. a \in Seq(Byte) /\ c \in Seq(Byte) /\ list[k] \in Place /\ Len(a) \in Nat
    <3>1. list[k] \in Place
      BY ONLY <1>2, k \in 1..n
    <3>2. c \in Seq(Byte)
      BY ONLY <2>2, <3>1, WrittenLocation
    <3>3. a \in Seq(Byte)
      BY ONLY <1>2, <2>1, <2>2, m \in 0..n
    <3> QED
      BY ONLY <3>1, <3>2, <3>3
  <2>4. start[m] = j + Len(a) /\ start[k] = j + Len(f[k])
    BY <1>10, <2>2
  <2>5. f[k] = a \o c /\ Holds(all, Len(a), c)
    BY <1>2, <1>3, <2>1, <2>2
  <2>6. Len(f[k]) = Len(a) + Len(c)
    BY <2>3, <2>5, ConcatProperties
  <2>7. PICK s \in Nat : s = j + Len(a)
    BY <2>3
  <2>8. Holds(stream, s, c)
    <3>1. Holds(stream, j, all)
      BY <1>6, <1>7, <1>8
    <3>2. PICK l \in Nat : l = Len(a)
      BY <2>3
    <3>3. Holds(all, l, c)
      BY <2>5, <3>2
    <3>4. Holds(stream, j + l, c)
      BY ONLY <1>4, <2>3, <3>1, <3>3, HeldWithin, stream \in Seq(Byte), j \in Nat, l \in Nat
    <3> QED
      BY <2>7, <3>2, <3>4
  <2>9. ReadLocation(s) = At(list[k], s + Len(c))
    <3>1. Holds(stream, s, WriteLocation(list[k]))
      BY <2>2, <2>8
    <3>2. ReadLocation(s) = At(list[k], s + Len(WriteLocation(list[k])))
      BY ONLY <2>3, <3>1, LocationAt, stream \in Seq(Byte), s \in Nat
    <3> QED
      BY <2>2, <3>2
  <2>10. s + Len(c) = start[k]
    <3>1. Len(c) \in Nat
      BY <2>3
    <3> QED
      BY ONLY <2>3, <2>4, <2>6, <2>7, <3>1, j \in Nat
  <2> QED
    BY ONLY <2>1, <2>4, <2>7, <2>9, <2>10
<1> DEFINE Body(g) == g = [m \in 0..n |->
                             IF m = 0 THEN At(<<>>, j)
                             ELSE LET l == ReadLocation(g[m - 1].next)
                                  IN  At(Append(g[m - 1].value, l.value), l.next)]
           first == CHOOSE g : Body(g)
<1>13. PICK g : g = [m \in 0..n |-> At(Begun(list, m), start[m])]
  OBVIOUS
<1>14. \A m \in 0..n : g[m].value = Begun(list, m) /\ g[m].next = start[m]
  BY <1>13 DEF At
<1>15. ASSUME NEW m \in 1..n
       PROVE  /\ ReadLocation(start[m - 1]).value = list[m]
              /\ ReadLocation(start[m - 1]).next = start[m]
              /\ Append(Begun(list, m - 1), list[m]) = Begun(list, m)
  <2>1. ReadLocation(start[m - 1]) = At(list[m], start[m])
    BY <1>12
  <2>2. Append(Begun(list, m - 1), list[m]) = Begun(list, m)
    BY <1>1, BeginsFurther
  <2> QED
    BY ONLY <2>1, <2>2 DEF At
<1>16. Begun(list, 0) = <<>>
  BY DEF Begun
<1>17. ASSUME NEW m \in 0..n, m # 0
       PROVE  LET l == ReadLocation(start[m - 1])
              IN  At(Append(Begun(list, m - 1), l.value), l.next) = g[m]
  <2>1. m \in 1..n
    BY <1>17
  <2>2. g[m] = At(Begun(list, m), start[m])
    BY <1>13
  <2> QED
    BY ONLY <1>15, <2>1, <2>2
<1>18. Body(g)
  <2>1. PICK h : h = [m \in 0..n |->
                        IF m = 0 THEN At(<<>>, j)
                        ELSE LET l == ReadLocation(g[m - 1].next)
                             IN  At(Append(g[m - 1].value, l.value), l.next)]
    OBVIOUS
  <2>2. ASSUME NEW m \in 0..n PROVE g[m] = h[m]
    <3>1. CASE m = 0
      BY <1>11, <1>13, <1>16, <2>1, <3>1
    <3>2. CASE m # 0
      <4>1. m - 1 \in 0..n
        BY <3>2
      <4>2. g[m - 1].value = Begun(list, m - 1) /\ g[m - 1].next = start[m - 1]
        BY <1>14, <4>1
      <4>3. h[m] = LET l == ReadLocation(g[m - 1].next)
                   IN  At(Append(g[m - 1].value, l.value), l.next)
        BY <2>1, <3>2
      <4> QED
        BY ONLY <1>17, <3>2, <4>2, <4>3, m \in 0..n
    <3> QED
      BY <3>1, <3>2
  <2>3. g = h
    BY ONLY <1>13, <2>1, <2>2
  <2> QED
    BY ONLY <2>1, <2>3
<1>19. Body(first)
  <2> HIDE DEF Body
  <2> QED
    BY <1>18
<1>20. ReadLocations(i) = At([mccAddresses |-> first[n].value], first[n].next)
  BY ONLY <1>9 DEF ReadLocations
<1> HIDE DEF first
<1>21. \A m \in 0..n : first[m] = g[m]
  <2> DEFINE Good == {m \in 0..n : first[m] = g[m]}
  <2>1. 0 \in Good
    BY <1>11, <1>13, <1>16, <1>19
  <2>2. ASSUME NEW m \in 0..(n - 1), m \in Good PROVE m + 1 \in Good
    <3>1. PICK l \in 1..n : l = m + 1
      OBVIOUS
    <3>2. l - 1 = m /\ m \in 0..n /\ l \in 0..n /\ l # 0
      BY <3>1
    <3>3. first[m].value = Begun(list, m) /\ first[m].next = start[m]
      BY <1>14, <2>2, <3>2
    <3>4. first[l] = LET r == ReadLocation(first[l - 1].next)
                     IN  At(Append(first[l - 1].value, r.value), r.next)
      BY ONLY <1>19, <3>2
    <3>5. first[l] = g[l]
      BY ONLY <1>17, <3>2, <3>3, <3>4
    <3> QED
      BY <3>1, <3>2, <3>5
  <2> HIDE DEF Good
  <2>3. \A m \in 0..n : m \in Good
    BY ONLY <2>1, <2>2, Climb, n \in Nat
  <2> QED
    BY <2>3 DEF Good
<1>22. n \in 0..n
  OBVIOUS
<1>23. first[n].value = Begun(list, n) /\ first[n].next = j + Len(all)
  BY ONLY <1>11, <1>14, <1>21, <1>22
<1>24. Begun(list, n) = list
  BY <1>1 DEF Begun
<1>25. j + Len(all) = i + (2 + Len(FlattenSeq(WrittenLocations(list))))
  <2>1. PICK l \in Nat : l = Len(all)
    BY <1>4
  <2>2. j + l = i + (2 + l)
    BY <1>8
  <2> QED
    BY ONLY <1>2, <1>3, <2>1, <2>2
<1> QED
  BY ONLY <1>20, <1>23, <1>24, <1>25

(* A verdict that stands at a place is read there.                         *)
LEMMA BoolAt ==
  ASSUME stream \in Seq(Byte), NEW i \in Nat, NEW b \in BOOLEAN
  PROVE  /\ WriteBool(b) \in Seq(Byte) /\ Len(WriteBool(b)) = 1
         /\ Holds(stream, i, WriteBool(b)) => ReadBool(i) = At(b, i + 1)
<1>1. PICK s : s = WriteBool(b)
  OBVIOUS
<1>2. 0 \in Byte /\ 1 \in Byte
  BY ByteNumbers
<1>3. s \in Seq(Byte) /\ Len(s) = 1 /\ s[1] = IF b THEN 1 ELSE 0
  BY ONLY <1>1, <1>2 DEF WriteBool
<1>4. ASSUME Holds(stream, i, s) PROVE ReadBool(i) = At(b, i + 1)
  <2>1. stream[i + 1] = s[1]
    BY ONLY <1>3, <1>4 DEF Holds
  <2>2. CASE b = TRUE
    <3>1. stream[i + 1] = 1
      BY ONLY <1>3, <2>1, <2>2
    <3>2. (stream[i + 1] # 0) = TRUE
      BY ONLY <3>1
    <3> QED
      BY ONLY <2>2, <3>2 DEF ReadBool
  <2>3. CASE b = FALSE
    <3>1. stream[i + 1] = 0
      BY ONLY <1>3, <2>1, <2>3
    <3>2. (stream[i + 1] # 0) = FALSE
      BY ONLY <3>1
    <3> QED
      BY ONLY <2>3, <3>2 DEF ReadBool
  <2> QED
    BY <2>2, <2>3
<1> QED
  BY ONLY <1>1, <1>3, <1>4

(* What a sender may write behind the header.                              *)
Carried(p) ==
  {WriteData(p)} \cup
    {h \in {WriteHeader(p)} :
       p.packetType = "ConstraintAcceptance" /\ ~p.data.negotiationAccepted}

(* The number of a type is below 256.                                      *)
LEMMA CodeIsByte ==
  ASSUME NEW t \in Kinds
  PROVE  Code(t) \in Byte /\ Code(t) \in Word
<1>1. Code(t) \in Nat /\ Code(t) < 256
  BY CodeOf
<1>2. Code(t) \in Byte
  BY <1>1, ByteNumbers
<1>3. Code(t) < 65536
  BY ONLY SMT, <1>1
<1> QED
  BY ONLY <1>1, <1>2, <1>3, WordNumbers

(* What is put behind a header does not move it.                           *)
LEMMA FirstStays ==
  ASSUME NEW T, NEW a \in Seq(T), NEW b \in Seq(T), Len(a) >= 1
  PROVE  (a \o b)[1] = a[1]
<1>1. \A i \in 1..Len(a) : (a \o b)[i] = a[i]
  BY ConcatProperties
<1>2. 1 \in 1..Len(a)
  OBVIOUS
<1> QED
  BY ONLY <1>1, <1>2

(* A header has eight bytes, four of them its type.                        *)
LEMMA WrittenHeader ==
  ASSUME NEW p \in Packet
  PROVE  WriteHeader(p) \in Seq(Byte) /\ Len(WriteHeader(p)) = 8 /\ WriteHeader(p)[1] = 0
<1>1. PICK a, b, c : /\ a = WriteWord(Code(p.packetType), 4)
                     /\ b = WriteWord(p.srcAgentId, 2) /\ c = WriteWord(p.dstAgentId, 2)
  OBVIOUS
<1>2. PacketHead(p)
  BY PacketIs
<1>3. PICK k \in Byte : k = Code(p.packetType) /\ k \in Word
  BY <1>2, CodeIsByte DEF PacketHead
<1>4. /\ a \in Seq(Byte) /\ Len(a) = 4 /\ b \in Seq(Byte) /\ Len(b) = 2
      /\ c \in Seq(Byte) /\ Len(c) = 2
  BY <1>1, <1>2, <1>3, WrittenWord DEF PacketHead
<1>5. a[1] = 0
  BY ONLY <1>1, <1>3, WordRead, k \in Byte
<1>6. a \o b \in Seq(Byte) /\ Len(a \o b) = 6 /\ (a \o b)[1] = 0
  <2>1. /\ a \o b \in Seq(Byte) /\ Len(a \o b) = Len(a) + Len(b)
    BY <1>4, ConcatProperties
  <2>2. (a \o b)[1] = a[1]
    BY <1>4, FirstStays
  <2> QED
    BY ONLY <1>4, <1>5, <2>1, <2>2
<1>7. (a \o b) \o c \in Seq(Byte) /\ Len((a \o b) \o c) = 8 /\ ((a \o b) \o c)[1] = 0
  <2>1. PICK d : d = a \o b
    OBVIOUS
  <2>2. /\ d \o c \in Seq(Byte) /\ Len(d \o c) = Len(d) + Len(c)
    BY <1>4, <1>6, <2>1, ConcatProperties
  <2>3. (d \o c)[1] = d[1]
    BY <1>4, <1>6, <2>1, FirstStays
  <2> QED
    BY ONLY <1>4, <1>6, <2>1, <2>2, <2>3
<1> QED
  BY ONLY <1>1, <1>7 DEF WriteHeader

(* The header at the start of the stream is read there.                    *)
LEMMA HeaderAt ==
  ASSUME stream \in Seq(Byte), NEW p \in Packet, Holds(stream, 0, WriteHeader(p))
  PROVE  /\ ReadWordAt(0, 4) = At(Code(p.packetType), 4)
         /\ ReadWordAt(4, 2) = At(p.srcAgentId, 6)
         /\ ReadWordAt(6, 2) = At(p.dstAgentId, 8)
<1>1. PICK a, b, c : /\ a = WriteWord(Code(p.packetType), 4)
                     /\ b = WriteWord(p.srcAgentId, 2) /\ c = WriteWord(p.dstAgentId, 2)
  OBVIOUS
<1>2. PacketHead(p)
  BY PacketIs
<1>3. Code(p.packetType) \in Word
  BY <1>2, CodeIsByte DEF PacketHead
<1>4. /\ a \in Seq(Byte) /\ Len(a) = 4 /\ b \in Seq(Byte) /\ Len(b) = 2
      /\ c \in Seq(Byte) /\ Len(c) = 2
  BY <1>1, <1>2, <1>3, WrittenWord DEF PacketHead
<1>5. a \o b \in Seq(Byte) /\ Len(a \o b) = Len(a) + Len(b)
  BY <1>4, ConcatProperties
<1>6. Holds(stream, 0, (a \o b) \o c)
  BY <1>1 DEF WriteHeader
<1>7. Holds(stream, 0, a \o b) /\ Holds(stream, 0 + Len(a \o b), c)
  BY ONLY <1>4, <1>5, <1>6, HeldBoth, stream \in Seq(Byte), 0 \in Nat
<1>8. Holds(stream, 0, a) /\ Holds(stream, 0 + Len(a), b)
  BY ONLY <1>4, <1>7, HeldBoth, stream \in Seq(Byte), 0 \in Nat
<1>9. 0 + Len(a) = 4 /\ 0 + Len(a \o b) = 6
  BY <1>4, <1>5
<1>10. ReadWordAt(0, 4) = At(Code(p.packetType), 0 + 4)
  BY ONLY <1>1, <1>3, <1>8, WordAt, stream \in Seq(Byte), 0 \in Nat
<1>11. ReadWordAt(4, 2) = At(p.srcAgentId, 4 + 2)
  <2>1. Holds(stream, 4, WriteWord(p.srcAgentId, 2)) /\ p.srcAgentId \in Word
    BY <1>1, <1>2, <1>8, <1>9 DEF PacketHead
  <2> QED
    BY ONLY <2>1, WordAt, stream \in Seq(Byte), 4 \in Nat
<1>12. ReadWordAt(6, 2) = At(p.dstAgentId, 6 + 2)
  <2>1. Holds(stream, 6, WriteWord(p.dstAgentId, 2)) /\ p.dstAgentId \in Word
    BY <1>1, <1>2, <1>7, <1>9 DEF PacketHead
  <2> QED
    BY ONLY <2>1, WordAt, stream \in Seq(Byte), 6 \in Nat
<1> QED
  BY ONLY <1>10, <1>11, <1>12

(* The two bytes of an item are read as that item.                         *)
LEMMA ItemAt ==
  ASSUME stream \in Seq(Byte), NEW i \in Nat, NEW w \in Word
  PROVE  Holds(stream, i, WriteWord(w, 2)) => ReadItem(i) = At([itemId |-> w], i + 2)
<1> SUFFICES ASSUME Holds(stream, i, WriteWord(w, 2))
             PROVE  ReadItem(i) = At([itemId |-> w], i + 2)
  OBVIOUS
<1>1. ReadWordAt(i, 2) = At(w, i + 2)
  BY WordAt
<1>2. ReadWordAt(i, 2).value = w /\ ReadWordAt(i, 2).next = i + 2
  BY ONLY <1>1 DEF At
<1> QED
  BY ONLY <1>2 DEF ReadItem

(* The answer of an MCC is read as it was written, location and all.       *)
LEMMA ResultAt ==
  ASSUME stream \in Seq(Byte), NEW i \in Nat, NEW b \in BOOLEAN, NEW l \in Place
  PROVE  /\ WriteBool(b) \o WriteLocation(l) \in Seq(Byte)
         /\ Holds(stream, i, WriteBool(b) \o WriteLocation(l)) =>
              ReadResult(i) = At([availableNegotiation |-> b, location |-> l],
                                 i + Len(WriteBool(b) \o WriteLocation(l)))
<1>1. PICK a, c : a = WriteBool(b) /\ c = WriteLocation(l)
  OBVIOUS
<1>2. a \in Seq(Byte) /\ Len(a) = 1 /\ c \in Seq(Byte)
  BY <1>1, BoolAt, WrittenLocation
<1>3. a \o c \in Seq(Byte) /\ Len(a \o c) = Len(a) + Len(c)
  BY <1>2, ConcatProperties
<1>4. ASSUME Holds(stream, i, a \o c)
      PROVE  ReadResult(i) = At([availableNegotiation |-> b, location |-> l], i + Len(a \o c))
  <2>1. Holds(stream, i, a) /\ Holds(stream, i + Len(a), c)
    BY ONLY <1>2, <1>4, HeldBoth, stream \in Seq(Byte), i \in Nat
  <2>2. PICK j \in Nat : j = i + 1
    OBVIOUS
  <2>3. ReadBool(i) = At(b, j)
    BY <1>1, <2>1, <2>2, BoolAt
  <2>4. ReadLocation(j) = At(l, j + Len(c))
    <3>1. Holds(stream, j, c)
      BY ONLY <1>2, <2>1, <2>2
    <3> QED
      BY <1>1, <3>1, LocationAt
  <2>5. ReadBool(i).value = b /\ ReadBool(i).next = j
    BY ONLY <2>3 DEF At
  <2>6. ReadLocation(j).value = l /\ ReadLocation(j).next = j + Len(c)
    BY ONLY <2>4 DEF At
  <2>7. j + Len(c) = i + Len(a \o c)
    <3>1. PICK n \in Nat : n = Len(c)
      BY <1>2
    <3> QED
      BY ONLY <1>2, <1>3, <2>2, <3>1, i \in Nat
  <2> QED
    BY ONLY <2>5, <2>6, <2>7 DEF ReadResult
<1> QED
  BY ONLY <1>1, <1>3, <1>4

(* Nothing is no bytes.                                                    *)
LEMMA EmptyBytes == <<>> \in Seq(Byte) /\ Len(<<>>) = 0
  OBVIOUS

(* What stands behind the header is read as it was meant, whatever the type. *)
LEMMA DataAt ==
  ASSUME stream \in Seq(Byte), NEW p \in Packet, NEW i \in Nat, NEW rest \in Carried(p)
  PROVE  /\ rest \in Seq(Byte)
         /\ Holds(stream, i, rest) =>
              /\ ReadData(p.packetType, i).value = p.data
              /\ ReadData(p.packetType, i).next \in Nat
              /\ ReadData(p.packetType, i).next <= i + Len(rest)
<1>0. PacketHead(p) /\ PacketBody(p)
  BY PacketIs
<1>t. \A v, n : At(v, n).value = v /\ At(v, n).next = n
  BY DEF At
<1>s. p.packetType \in Kinds
  BY <1>0 DEF PacketHead
<1>1. CASE p.packetType \in ItemTypes
  <2>1. PICK w \in Word : p.data = [itemId |-> w] /\ w = p.data.itemId
    BY <1>0, <1>1 DEF PacketBody
  <2>2. rest = WriteWord(w, 2)
    <3>1. rest = WriteData(p)
      BY <1>1 DEF Carried, ItemTypes
    <3>2. WriteData(p) = WriteWord(p.data.itemId, 2)
      BY ONLY <1>1 DEF WriteData, ItemTypes
    <3> QED
      BY ONLY <2>1, <3>1, <3>2
  <2>3. rest \in Seq(Byte) /\ Len(rest) = 2
    BY ONLY <2>2, WrittenWord, w \in Word
  <2>4. ASSUME Holds(stream, i, rest) PROVE ReadItem(i) = At(p.data, i + Len(rest))
    <3>1. ReadItem(i) = At([itemId |-> w], i + 2)
      BY <2>2, <2>4, ItemAt
    <3> QED
      BY ONLY <2>1, <2>3, <3>1
  <2>5. ReadData(p.packetType, i) = ReadItem(i)
    BY ONLY <1>1 DEF ReadData, ItemTypes
  <2>6. i + Len(rest) \in Nat
    BY <2>3
  <2> QED
    BY ONLY <1>t, <2>3, <2>4, <2>5, <2>6
<1>2. CASE p.packetType = "ReturnMCCsForItem"
  <2>1. PICK list \in Seq(Place) : /\ p.data = [mccAddresses |-> list]
                                   /\ list = p.data.mccAddresses /\ Len(list) \in Word
    BY <1>0, <1>2 DEF PacketBody
  <2>2. PICK a, b : a = WriteWord(Len(list), 2) /\ b = FlattenSeq(WrittenLocations(list))
    OBVIOUS
  <2>3. rest = a \o b
    <3>1. rest = WriteData(p)
      BY <1>2 DEF Carried, ItemTypes
    <3>2. WriteData(p) = WriteWord(Len(p.data.mccAddresses), 2)
           \o FlattenSeq([j \in DOMAIN p.data.mccAddresses |->
                         WriteLocation(p.data.mccAddresses[j])])
      BY ONLY <1>2 DEF WriteData, ItemTypes
    <3> QED
      BY ONLY <2>1, <2>2, <3>1, <3>2 DEF WrittenLocations
  <2>4. a \in Seq(Byte) /\ Len(a) = 2 /\ b \in Seq(Byte)
    BY <2>1, <2>2, WrittenWord, WrittenList
  <2>5. rest \in Seq(Byte) /\ Len(rest) = Len(a) + Len(b)
    BY <2>3, <2>4, ConcatProperties
  <2>6. ASSUME Holds(stream, i, rest) PROVE ReadLocations(i) = At(p.data, i + Len(rest))
    <3>1. Holds(stream, i, WriteWord(Len(list), 2) \o FlattenSeq(WrittenLocations(list)))
      BY ONLY <2>2, <2>3, <2>6
    <3>2. ReadLocations(i) = At([mccAddresses |-> list],
                                i + (2 + Len(FlattenSeq(WrittenLocations(list)))))
      BY <2>1, <3>1, LocationsAt
    <3> QED
      BY ONLY <2>1, <2>2, <2>4, <2>5, <3>2
  <2>7. ReadData(p.packetType, i) = ReadLocations(i)
    BY ONLY <1>2 DEF ReadData, ItemTypes
  <2>8. i + Len(rest) \in Nat
    BY <2>5
  <2> QED
    BY ONLY <1>t, <2>5, <2>6, <2>7, <2>8
<1>3. CASE p.packetType = "NegotiationRequestResult"
  <2>1. PICK b \in BOOLEAN, l \in Place :
          /\ p.data = [availableNegotiation |-> b, location |-> l]
          /\ b = p.data.availableNegotiation /\ l = p.data.location
    BY <1>0, <1>3 DEF PacketBody
  <2>2. rest = WriteBool(b) \o WriteLocation(l)
    <3>1. rest = WriteData(p)
      BY <1>3 DEF Carried, ItemTypes
    <3>2. WriteData(p) = WriteBool(p.data.availableNegotiation) \o WriteLocation(p.data.location)
      BY ONLY <1>3 DEF WriteData, ItemTypes
    <3> QED
      BY ONLY <2>1, <3>1, <3>2
  <2>3. rest \in Seq(Byte)
    BY <2>2, ResultAt
  <2>4. ASSUME Holds(stream, i, rest) PROVE ReadResult(i) = At(p.data, i + Len(rest))
    <3>1. Holds(stream, i, WriteBool(b) \o WriteLocation(l))
      BY <2>2, <2>4
    <3>2. ReadResult(i) = At([availableNegotiation |-> b, location |-> l],
                             i + Len(WriteBool(b) \o WriteLocation(l)))
      BY <3>1, ResultAt
    <3> QED
      BY ONLY <2>1, <2>2, <3>2
  <2>5. ReadData(p.packetType, i) = ReadResult(i)
    BY ONLY <1>3 DEF ReadData, ItemTypes
  <2>6. i + Len(rest) \in Nat
    BY <2>3
  <2> QED
    BY ONLY <1>t, <2>3, <2>4, <2>5, <2>6
<1>4. CASE p.packetType = "ConstraintAcceptance"
  <2>1. PICK b \in BOOLEAN : /\ p.data = [negotiationAccepted |-> b]
                             /\ b = p.data.negotiationAccepted
    BY <1>0, <1>4 DEF PacketBody
  <2>2. ReadData(p.packetType, i) = ReadVerdict(i)
    BY ONLY <1>4 DEF ReadData, ItemTypes
  <2>3. rest = WriteBool(b) \/ (~b /\ rest = WriteHeader(p))
    <3>1. rest = WriteData(p) \/ (~b /\ rest = WriteHeader(p))
      BY <2>1 DEF Carried
    <3>2. WriteData(p) = WriteBool(p.data.negotiationAccepted)
      BY ONLY <1>4 DEF WriteData, ItemTypes
    <3> QED
      BY ONLY <2>1, <3>1, <3>2
  <2>4. rest \in Seq(Byte) /\ Len(rest) >= 1
    <3>1. CASE rest = WriteBool(b)
      <4>1. WriteBool(b) \in Seq(Byte) /\ Len(WriteBool(b)) = 1
        BY BoolAt
      <4> QED
        BY ONLY <3>1, <4>1
    <3>2. CASE rest = WriteHeader(p)
      BY <3>2, WrittenHeader
    <3> QED
      BY ONLY <2>3, <3>1, <3>2
  <2>5. ASSUME Holds(stream, i, rest) PROVE ReadBool(i) = At(b, i + 1)
    <3>1. CASE rest = WriteBool(b)
      BY <2>5, <3>1, BoolAt
    <3>2. CASE ~b /\ rest = WriteHeader(p)
      <4>1. rest[1] = 0
        BY <3>2, WrittenHeader
      <4>2. stream[i + 1] = 0
        BY ONLY <2>4, <2>5, <4>1 DEF Holds
      <4>3. (stream[i + 1] # 0) = FALSE /\ b = FALSE
        BY ONLY <3>2, <4>2, b \in BOOLEAN
      <4> QED
        BY ONLY <4>3 DEF ReadBool
    <3> QED
      BY ONLY <2>3, <3>1, <3>2
  <2>6. ASSUME Holds(stream, i, rest) PROVE ReadVerdict(i) = At(p.data, i + 1)
    <3>1. ReadBool(i).value = b /\ ReadBool(i).next = i + 1
      BY ONLY <1>t, <2>5, <2>6
    <3> QED
      BY ONLY <2>1, <3>1 DEF ReadVerdict
  <2>7. i + 1 \in Nat /\ i + 1 <= i + Len(rest)
    BY <2>4
  <2> QED
    BY ONLY <1>t, <2>2, <2>4, <2>6, <2>7
<1>5. CASE p.packetType \in {"RegisterMCCAck", "NegotiationRequest", "ItemRequest"}
  <2>1. p.data = NoData
    BY <1>0, <1>5 DEF PacketBody
  <2>2. rest = <<>>
    <3>1. rest = WriteData(p)
      BY <1>5 DEF Carried
    <3>2. WriteData(p) = <<>>
      BY ONLY <1>5 DEF WriteData, ItemTypes
    <3> QED
      BY ONLY <3>1, <3>2
  <2>3. ReadData(p.packetType, i) = At(NoData, i)
    BY ONLY <1>5 DEF ReadData, ItemTypes
  <2>4. rest \in Seq(Byte) /\ i + Len(rest) = i
    BY ONLY <2>2, EmptyBytes, i \in Nat
  <2> QED
    BY ONLY <1>t, <2>1, <2>3, <2>4, i \in Nat
<1> QED
  BY ONLY <1>s, <1>1, <1>2, <1>3, <1>4, <1>5 DEF Kinds, ItemTypes

(* What ReadHeader() has read of a packet.                                 *)
HeaderOf(p) == [packetType |-> p.packetType, srcAgentId |-> p.srcAgentId,
                dstAgentId |-> p.dstAgentId]

(* What of the packet is still to be read stands where it is read next.    *)
FormatsInv ==
  /\ stream \in Seq(Byte) /\ StreamSize <= Len(stream)
  /\ head \in Nat /\ size \in Nat /\ head <= size
  /\ stage \in {"start", "written", "header", "data"}
  /\ stage # "start" => sent \in Packet
  /\ stage = "written" =>
       /\ head = 0
       /\ \E rest \in Carried(sent) :
            Holds(stream, 0, WriteHeader(sent) \o rest) /\ size = 8 + Len(rest)
  /\ stage = "header" =>
       /\ head = 8 /\ received = HeaderOf(sent)
       /\ \E rest \in Carried(sent) : Holds(stream, 8, rest) /\ size = 8 + Len(rest)
  /\ stage = "data" => received = sent

(* The invariant holds at the start.                                       *)
LEMMA FormatsInitInv == FormatsInit => FormatsInv
<1> SUFFICES ASSUME FormatsInit PROVE FormatsInv
  OBVIOUS
<1>1. PICK g \in Garbage : stream = [i \in 1..StreamSize |-> g]
  BY DEF FormatsInit
<1>2. g \in Byte /\ StreamSize \in Nat
  BY FormatsAssumption
<1>3. stream \in Seq(Byte) /\ StreamSize <= Len(stream)
  BY ONLY <1>1, <1>2
<1>4. head = 0 /\ size = 0 /\ stage = "start"
  BY DEF FormatsInit
<1>5. head \in Nat /\ size \in Nat /\ head <= size
  BY <1>4
<1> QED
  BY ONLY <1>3, <1>4, <1>5 DEF FormatsInv

(* What is written behind a header is bytes.                               *)
LEMMA CarriedBytes ==
  ASSUME stream \in Seq(Byte), NEW p \in Packet, NEW rest \in Carried(p)
  PROVE  rest \in Seq(Byte)
  BY DataAt, 0 \in Nat

(* A packet that is written over the remains of another stands at the      *)
(* start of the stream.                                                    *)
LEMMA TransmitInv ==
  ASSUME FormatsInv, NEW p \in Packet, NEW rest \in Carried(p),
         Transmit(p, WriteHeader(p) \o rest)
  PROVE  FormatsInv'
<1>1. stream \in Seq(Byte) /\ StreamSize <= Len(stream) /\ StreamSize \in Nat
  BY FormatsAssumption DEF FormatsInv
<1>2. PICK h : h = WriteHeader(p)
  OBVIOUS
<1>3. h \in Seq(Byte) /\ Len(h) = 8 /\ rest \in Seq(Byte)
  BY <1>1, <1>2, WrittenHeader, CarriedBytes
<1>4. PICK bytes : bytes = h \o rest
  OBVIOUS
<1>5. PICK l \in Nat : l = Len(rest)
  BY <1>3
<1>6. bytes \in Seq(Byte) /\ Len(bytes) = 8 + l
  <2>1. h \o rest \in Seq(Byte) /\ Len(h \o rest) = Len(h) + Len(rest)
    BY ONLY <1>3, ConcatProperties
  <2> QED
    BY ONLY <1>3, <1>4, <1>5, <2>1
<1>7. PICK tail : tail = SubSeq(stream, Len(bytes) + 1, StreamSize)
  OBVIOUS
<1>8. /\ tail \in Seq(Byte)
      /\ StreamSize <= Len(bytes) + Len(tail)
  <2>1. PICK a \in Int : a = Len(bytes) + 1
    BY <1>6
  <2>2. \A k \in a..StreamSize : stream[k] \in Byte
    <3>1. \A k \in a..StreamSize : k \in 1..Len(stream)
      BY <1>1, <1>6, <2>1
    <3> QED
      BY <1>1, <3>1, ElementOfSeq
  <2>3. /\ SubSeq(stream, a, StreamSize) \in Seq(Byte)
        /\ Len(SubSeq(stream, a, StreamSize)) =
             IF a <= StreamSize THEN StreamSize - a + 1 ELSE 0
    <3>1. StreamSize \in Int
      BY <1>1
    <3> QED
      BY <2>2, <3>1, SubSeqProperties
  <2>4. PICK t \in Nat : t = Len(tail)
    BY <1>7, <2>1, <2>3
  <2>5. tail \in Seq(Byte) /\ t = IF a <= StreamSize THEN StreamSize - a + 1 ELSE 0
    BY ONLY <1>7, <2>1, <2>3, <2>4
  <2>6. PICK m \in Nat : m = Len(bytes) /\ a = m + 1
    BY <1>6, <2>1
  <2>7. StreamSize <= m + t
    BY ONLY <1>1, <2>5, <2>6, t \in Nat, m \in Nat
  <2> QED
    BY ONLY <2>4, <2>5, <2>6, <2>7
<1>9. PICK s : s = bytes \o tail
  OBVIOUS
<1>10. s \in Seq(Byte) /\ Len(s) = Len(bytes) + Len(tail) /\ Holds(s, 0, bytes)
  BY ONLY <1>6, <1>8, <1>9, HeldJoined
<1>11. /\ stream' = s /\ size' = 8 + l /\ head' = 0 /\ stage' = "written" /\ sent' = p
  BY <1>2, <1>4, <1>6, <1>7, <1>9 DEF Transmit
<1>12. \E r \in Carried(p) : Holds(s, 0, WriteHeader(p) \o r) /\ 8 + l = 8 + Len(r)
  BY <1>2, <1>4, <1>5, <1>10
<1>13. stream' \in Seq(Byte) /\ StreamSize <= Len(stream')
  BY ONLY <1>8, <1>10, <1>11
<1>14. head' \in Nat /\ size' \in Nat /\ head' <= size'
  BY ONLY <1>11, l \in Nat
<1>15. \E r \in Carried(sent') :
         Holds(stream', 0, WriteHeader(sent') \o r) /\ size' = 8 + Len(r)
  BY ONLY <1>11, <1>12
<1> QED
  BY ONLY <1>11, <1>13, <1>14, <1>15, p \in Packet DEF FormatsInv, Carried

(* So does every packet that is sent whole,                                *)
LEMMA SendInv == ASSUME FormatsInv, NEW p \in Packet, Send(p) PROVE FormatsInv'
  BY TransmitInv DEF Send, Carried

(* and the header sendPacketFinishNegotiation() sends in its place.        *)
LEMMA FinishInv ==
  ASSUME FormatsInv, NEW p \in Packet, SendPacketFinishNegotiation(p) PROVE FormatsInv'
  BY TransmitInv DEF SendPacketFinishNegotiation, Carried

(* Reading the header leaves the rest to be read where it stands,          *)
LEMMA ReadHeaderInv == ASSUME FormatsInv, ReadHeader PROVE FormatsInv'
<1>1. stage = "written" /\ stream \in Seq(Byte) /\ sent \in Packet
  BY DEF ReadHeader, FormatsInv
<1>2. PICK rest \in Carried(sent) :
        Holds(stream, 0, WriteHeader(sent) \o rest) /\ size = 8 + Len(rest)
  BY <1>1 DEF FormatsInv
<1>3. PICK h : h = WriteHeader(sent)
  OBVIOUS
<1>4. h \in Seq(Byte) /\ Len(h) = 8 /\ rest \in Seq(Byte)
  BY <1>1, <1>3, WrittenHeader, CarriedBytes
<1>5. Holds(stream, 0, h) /\ Holds(stream, 0 + Len(h), rest)
  <2>1. Holds(stream, 0, h \o rest)
    BY <1>2, <1>3
  <2> QED
    BY ONLY <1>1, <1>4, <2>1, HeldBoth, 0 \in Nat
<1>6. Holds(stream, 8, rest)
  <2>1. 0 + Len(h) = 8
    BY <1>4
  <2> QED
    BY ONLY <1>5, <2>1
<1>7. /\ ReadWordAt(0, 4) = At(Code(sent.packetType), 4)
      /\ ReadWordAt(4, 2) = At(sent.srcAgentId, 6)
      /\ ReadWordAt(6, 2) = At(sent.dstAgentId, 8)
  BY <1>1, <1>3, <1>5, HeaderAt
<1>8. PacketTypes[Code(sent.packetType) + 1] = sent.packetType
  <2>1. sent.packetType \in Kinds
    BY <1>1, PacketIs DEF PacketHead
  <2> QED
    BY <2>1, CodeOf
<1>9. head' = 8 /\ received' = HeaderOf(sent)
  <2>1. /\ ReadWordAt(0, 4).value = Code(sent.packetType) /\ ReadWordAt(0, 4).next = 4
        /\ ReadWordAt(4, 2).value = sent.srcAgentId /\ ReadWordAt(4, 2).next = 6
        /\ ReadWordAt(6, 2).value = sent.dstAgentId /\ ReadWordAt(6, 2).next = 8
    BY ONLY <1>7 DEF At
  <2> QED
    BY ONLY ReadHeader, <1>8, <2>1 DEF ReadHeader, HeaderOf
<1>10. stage' = "header" /\ UNCHANGED << stream, size, sent >>
  BY DEF ReadHeader
<1>11. size \in Nat /\ 8 <= size
  BY <1>2, <1>4
<1> QED
  BY ONLY FormatsInv, <1>1, <1>2, <1>6, <1>9, <1>10, <1>11 DEF FormatsInv, Carried, HeaderOf

(* and reading the rest gives the packet that was sent.                    *)
LEMMA ReadPacketInv == ASSUME FormatsInv, ReadPacket PROVE FormatsInv'
<1>1. stage = "header" /\ stream \in Seq(Byte) /\ sent \in Packet /\ head = 8
      /\ received = HeaderOf(sent)
  BY DEF ReadPacket, FormatsInv
<1>2. PICK rest \in Carried(sent) : Holds(stream, 8, rest) /\ size = 8 + Len(rest)
  BY <1>1 DEF FormatsInv
<1>3. PICK data : data = ReadData(sent.packetType, 8)
  OBVIOUS
<1>4. data.value = sent.data /\ data.next \in Nat /\ data.next <= size
  <2>1. 8 \in Nat
    OBVIOUS
  <2> QED
    BY ONLY <1>1, <1>2, <1>3, <2>1, DataAt
<1>5. /\ received.packetType = sent.packetType
      /\ received.srcAgentId = sent.srcAgentId /\ received.dstAgentId = sent.dstAgentId
  BY ONLY <1>1 DEF HeaderOf
<1>6. /\ received' = [packetType |-> sent.packetType, srcAgentId |-> sent.srcAgentId,
                      dstAgentId |-> sent.dstAgentId, data |-> sent.data]
      /\ head' = data.next
  BY ONLY ReadPacket, <1>1, <1>3, <1>4, <1>5 DEF ReadPacket
<1>7. received' = sent
  BY ONLY <1>1, <1>6, PacketIs DEF PacketHead
<1>8. stage' = "data" /\ UNCHANGED << stream, size, sent >>
  BY DEF ReadPacket
<1> QED
  BY ONLY FormatsInv, <1>1, <1>4, <1>6, <1>7, <1>8 DEF FormatsInv

(* Every step keeps the invariant.                                         *)
LEMMA FormatsNextInv == FormatsInv /\ [FormatsNext]_packetVars => FormatsInv'
<1> SUFFICES ASSUME FormatsInv, [FormatsNext]_packetVars PROVE FormatsInv'
  OBVIOUS
<1>1. ASSUME NEW p \in Packet, Send(p) PROVE FormatsInv'
  BY <1>1, SendInv
<1>2. ASSUME NEW p \in Packet, SendPacketFinishNegotiation(p) PROVE FormatsInv'
  BY <1>2, FinishInv
<1>3. CASE ReadHeader
  BY <1>3, ReadHeaderInv
<1>4. CASE ReadPacket
  BY <1>4, ReadPacketInv
<1>5. CASE UNCHANGED packetVars
  BY <1>5 DEF packetVars, FormatsInv, Carried, Holds, HeaderOf
<1> QED
  BY <1>1, <1>2, <1>3, <1>4, <1>5 DEF FormatsNext

(* The packets of a process are such a system.                             *)
LEMMA SpecFormats == Spec => FormatsInit /\ [][FormatsNext]_packetVars
<1>1. Init => FormatsInit
  BY DEF Init
<1>2. [Next]_<< appVars, idVars, packetVars >> => [FormatsNext]_packetVars
  BY DEF Next
<1> QED
  BY <1>1, <1>2, PTL DEF Spec

(* So the invariant holds always.                                          *)
LEMMA FormatsAlways == Spec => []FormatsInv
  BY SpecFormats, FormatsInitInv, FormatsNextInv, PTL

(* Whoever receives a packet reads what was written: the Write() and the   *)
(* Read() of every packet agree in the order, the width and the byte order *)
(* of its fields (Packets.h, ByteSwap.h), whatever bytes earlier packets   *)
(* left in the stream, for all ids of two bytes and lists and strings of   *)
(* any length a count can give.                                            *)
THEOREM PacketsReadAsWritten == Spec => []ReadAsWritten
<1>1. FormatsInv => ReadAsWritten
  BY DEF FormatsInv, ReadAsWritten
<1> QED
  BY <1>1, FormatsAlways, PTL

(* No Read() goes past what was written, so the assertion of               *)
(* InputMemoryStream::Read() never fails (MemoryStream.cpp), and a verdict *)
(* behind a second header is read inside its packet.                       *)
THEOREM ReadsStayInside == Spec => []ReadInside
<1>1. FormatsInv => ReadInside
  BY DEF FormatsInv, ReadInside
<1> QED
  BY <1>1, FormatsAlways, PTL

=============================================================================
