------------------------------ MODULE Application ------------------------------
(***************************************************************************)
(* A SiSiMEX process from its start to its end (main.cpp, Application.cpp, *)
(* Module.h, ModuleMainMenu.cpp): its modules, which of them are enabled,  *)
(* and the four loops over them that make a frame.  One module visited is  *)
(* one step.  What the node cluster and the yellow pages do while they run *)
(* is in NodeCluster; here they start, hold a listening socket, and stop.  *)
(***************************************************************************)
EXTENDS Naturals, Sequences, SequencesExt

Modules ==
  << "window", "logView", "textures", "networkManager", "agentContainer",
     "mainMenu", "nodeCluster", "yellowPages" >>

Service == {"nodeCluster", "yellowPages"}

Loops == << "preUpdate", "update", "updateGUI", "postUpdate" >>

VARIABLES
  main,         \* the loop or ending main() is in, or "exit"
  at,           \* the module it visits, by its place in Modules
  active,       \* [module -> BOOLEAN]
  state,        \* [service -> its state]
  wannaExit,
  delegate,     \* whom the network manager hands packets to
  mSockets      \* the services whose listening socket the manager has

appVars == << main, at, active, state, wannaExit, delegate, mSockets >>


(* Application::init().                                                    *)
AppInit ==
  /\ main = "preUpdate" /\ at = 1
  /\ active = [m \in Range(Modules) |->
                 m \in {"window", "textures", "networkManager", "mainMenu", "logView"}]
  /\ state = [s \in Service |-> "STOPPED"]
  /\ wannaExit = FALSE
  /\ delegate = "null"
  /\ mSockets = {}

-----------------------------------------------------------------------------
(* A frame.                                                                *)

Visiting(loop, m) == main = loop /\ at <= Len(Modules) /\ m = Modules[at] /\ active[m]

(* A module that is disabled is skipped, and one that has nothing to do in *)
(* this loop changes nothing.                                              *)
Pass ==
  /\ main \in Range(Loops)
  /\ at <= Len(Modules)
  /\ ~\E s \in Service : Visiting("update", s) /\ state[s] = "STARTING"
  /\ at' = at + 1
  /\ UNCHANGED << main, active, state, wannaExit, delegate, mSockets >>

(* The user closes the window.                                             *)
Quit ==
  /\ Visiting("preUpdate", "window")
  /\ wannaExit' = TRUE
  /\ at' = at + 1
  /\ UNCHANGED << main, active, state, delegate, mSockets >>

(* startSystem() and startService().                                       *)
StartService(s) ==
  /\ Visiting("update", s)
  /\ state[s] = "STARTING"
  /\ state' = [state EXCEPT ![s] = "RUNNING"]
  /\ delegate' = s
  /\ mSockets' = mSockets \cup {s}
  /\ at' = at + 1
  /\ UNCHANGED << main, active, wannaExit >>

(* The socket cannot be created, bound or listened to: the loop ends, and  *)
(* main() with it.                                                         *)
StartFails(s) ==
  /\ Visiting("update", s)
  /\ state[s] = "STARTING"
  /\ state' = [state EXCEPT ![s] = "STOPPED"]
  /\ main' = "exit"
  /\ UNCHANGED << at, active, wannaExit, delegate, mSockets >>

(* What a button of the main menu enables; enabling a module that was not  *)
(* starts it.                                                              *)
Part(s) == IF s = "nodeCluster" THEN {"agentContainer", s} ELSE {s}

Enable(modules) == [m \in DOMAIN active |-> active[m] \/ m \in modules]

Start(s) == IF active[s] THEN state ELSE [state EXCEPT ![s] = "STARTING"]

(* Seeded bug: the menu stays enabled.                                     *)
ChooseAgain(s) ==
  /\ Visiting("updateGUI", "mainMenu")
  /\ active' = Enable(Part(s))
  /\ state' = Start(s)
  /\ at' = at + 1
  /\ UNCHANGED << main, wannaExit, delegate, mSockets >>

Choose(s) ==
  /\ Visiting("updateGUI", "mainMenu")
  /\ active' = [Enable(Part(s)) EXCEPT !["mainMenu"] = FALSE]
  /\ state' = Start(s)
  /\ at' = at + 1
  /\ UNCHANGED << main, wannaExit, delegate, mSockets >>

LoopEnds ==
  /\ main \in Range(Loops) /\ at > Len(Modules)
  /\ \/ /\ main # "postUpdate"
        /\ \E i \in DOMAIN Loops : Loops[i] = main /\ main' = Loops[i + 1]
        /\ at' = 1
     \/ /\ main = "postUpdate" /\ ~wannaExit
        /\ main' = "preUpdate" /\ at' = 1
     \/ /\ main = "postUpdate" /\ wannaExit
        /\ main' = "stop" /\ at' = Len(Modules)
  /\ UNCHANGED << active, state, wannaExit, delegate, mSockets >>

-----------------------------------------------------------------------------
(* Application::cleanUp(): every module is disabled, then cleaned up, the  *)
(* last one first.  stop() of the network manager is Finalize(), that of a *)
(* service only sets its state, which update() never sees.                 *)

Disable(m) ==
  /\ active' = [active EXCEPT ![m] = FALSE]
  /\ state' = IF m \in Service /\ active[m] THEN [state EXCEPT ![m] = "STOPPING"] ELSE state
  /\ mSockets' = IF m = "networkManager" THEN {} ELSE mSockets

(* Seeded bug: the first module is stopped first.                          *)
StopModuleForward ==
  /\ main = "stop"
  /\ Disable(Modules[Len(Modules) + 1 - at])
  /\ \/ at > 1 /\ at' = at - 1 /\ main' = main
     \/ at = 1 /\ at' = Len(Modules) /\ main' = "cleanUp"
  /\ UNCHANGED << wannaExit, delegate >>

StopModule ==
  /\ main = "stop"
  /\ Disable(Modules[at])
  /\ \/ at > 1 /\ at' = at - 1 /\ main' = main
     \/ at = 1 /\ at' = Len(Modules) /\ main' = "cleanUp"
  /\ UNCHANGED << wannaExit, delegate >>

CleanUpModule ==
  /\ main = "cleanUp"
  /\ \/ at > 1 /\ at' = at - 1 /\ main' = main
     \/ at = 1 /\ at' = at /\ main' = "exit"
  /\ UNCHANGED << active, state, wannaExit, delegate, mSockets >>

-----------------------------------------------------------------------------

Step ==
  \/ Pass \/ LoopEnds \/ StopModule \/ CleanUpModule
  \/ \E s \in Service : StartService(s) \/ StartFails(s)

AppNext == Step \/ Quit \/ \E s \in Service : Choose(s)

-----------------------------------------------------------------------------
(* Properties.                                                             *)

(* Whoever has a listening socket in the network manager gets what is sent *)
(* to it: the manager has one delegate, which the second service to start  *)
(* would take from the first (updateGUI() of the menu, SetDelegate()).     *)
SocketsServed == mSockets \subseteq {delegate}

(* The network manager is finalized when no agent is left to be stopped:   *)
(* stop() of an MCC still sends (cleanUp(), Finalize()).                   *)
AgentsStopFirst ==
  [][ active["networkManager"] /\ ~active'["networkManager"]
        => ~active'["agentContainer"] ]_appVars

=============================================================================
