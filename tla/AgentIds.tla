------------------------------- MODULE AgentIds -------------------------------
(***************************************************************************)
(* The ids of agents (Agent.cpp) and the container that finds agents by    *)
(* them (ModuleAgentContainer.cpp), over a life of the process in which    *)
(* the counter of ids wraps.  What agents do is left out: NodeCluster has  *)
(* it, with a container whose counter does not get that far.               *)
(***************************************************************************)
EXTENDS Integers, Sequences, FiniteSets

CONSTANTS
  IdBits,       \* the width of an id, 16 in the code
  MaxAgents,    \* bound: agents in the container at a time
  MaxCreated    \* bound: agents ever created

Wrap == 2^IdBits

(* That Wrap is a number above 1 follows from IdBits; it is said for the   *)
(* proofs, in which powers have no meaning.                                *)
ASSUME IdsAssumption ==
  /\ IdBits \in Nat \ {0} /\ MaxAgents \in Nat /\ MaxCreated \in Nat
  /\ Wrap \in Nat /\ Wrap > 1

(* Agents are appended to the lists and dropped from their places, so that *)
(* a list is the set of its agents in the order of their numbers.          *)
VARIABLES
  g_IdCounter,    \* the id of the next agent
  _agents,        \* the agents: [number, id, valid]
  _agentsToAdd,   \* those created since the last postUpdate()
  given           \* history: the id of the first, second, ... agent

idVars == << g_IdCounter, _agents, _agentsToAdd, given >>

IdsInit ==
  /\ g_IdCounter = 1
  /\ _agents = {} /\ _agentsToAdd = {}
  /\ given = <<>>

Held == _agents \cup _agentsToAdd

Agent(id) == [number |-> Len(given) + 1, id |-> id, valid |-> TRUE]

(* Seeded bug: ids are counted by the agents there are.                    *)
CreateCounted ==
  /\ Len(given) < MaxCreated /\ Cardinality(Held) < MaxAgents
  /\ LET id == Cardinality(Held) + 1
     IN  /\ _agentsToAdd' = _agentsToAdd \cup {Agent(id)}
         /\ given' = Append(given, id)
  /\ g_IdCounter' = g_IdCounter
  /\ UNCHANGED _agents

Create ==
  /\ Len(given) < MaxCreated /\ Cardinality(Held) < MaxAgents
  /\ _agentsToAdd' = _agentsToAdd \cup {Agent(g_IdCounter)}
  /\ given' = Append(given, g_IdCounter)
  /\ g_IdCounter' = (g_IdCounter + 1) % Wrap
  /\ UNCHANGED _agents

(* destroy(), of an agent in one list or the other.                        *)
Destroyed(a) == [a EXCEPT !.valid = FALSE]

Destroy ==
  /\ \/ /\ \E a \in _agents : _agents' = (_agents \ {a}) \cup {Destroyed(a)}
        /\ UNCHANGED _agentsToAdd
     \/ /\ \E a \in _agentsToAdd : _agentsToAdd' = (_agentsToAdd \ {a}) \cup {Destroyed(a)}
        /\ UNCHANGED _agents
  /\ UNCHANGED << g_IdCounter, given >>

PostUpdate ==
  /\ _agents' = {a \in Held : a.valid}
  /\ _agentsToAdd' = {}
  /\ UNCHANGED << g_IdCounter, given >>

IdsNext == Create \/ Destroy \/ PostUpdate

-----------------------------------------------------------------------------
(* Looking up.                                                             *)

Nobody == 0

Called(agents, id) == {a \in agents : a.id = id}

(* The number of the first agent of a list.                                *)
First(agents) == (CHOOSE a \in agents : \A b \in agents : a.number <= b.number).number

(* Seeded bug: agents that wait to be added are looked at first.           *)
getAgentNewFirst(id) ==
  IF Called(_agentsToAdd, id) # {} THEN First(Called(_agentsToAdd, id))
  ELSE IF Called(_agents, id) # {} THEN First(Called(_agents, id))
  ELSE Nobody

(* The number of the agent that getAgent() returns: also one that is       *)
(* destroyed and not yet dropped.                                          *)
getAgent(id) ==
  IF Called(_agents, id) # {} THEN First(Called(_agents, id))
  ELSE IF Called(_agentsToAdd, id) # {} THEN First(Called(_agentsToAdd, id))
  ELSE Nobody

(* A location that was given out leads to the agent it was given out for,  *)
(* or to nobody, as long as the counter has not gone round between that    *)
(* agent and the one that is found.                                        *)
FoundIsMeant ==
  \A n \in DOMAIN given :
    LET found == getAgent(given[n])
    IN  found \notin {Nobody, n} => found - n >= Wrap \/ n - found >= Wrap

(* An agent that can be found by its id can be found until it is dropped:  *)
(* a younger one with the same id does not take its place.                 *)
StaysFound ==
  [][ \A n \in DOMAIN given :
        getAgent(given[n]) = n =>
          \/ getAgent(given[n])' = n
          \/ \E a \in Held : a.number = n /\ ~a.valid ]_idVars

=============================================================================
