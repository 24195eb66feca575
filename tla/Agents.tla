------------------------------- MODULE Agents -------------------------------
(***************************************************************************)
(* The agents of one SiSiMEX process: what an agent remembers, the         *)
(* container that owns every agent, the packets agents exchange, and the   *)
(* operations all four kinds of agents share (Agent.cpp,                   *)
(* ModuleAgentContainer.cpp, Packets.h).                                   *)
(*                                                                         *)
(* Every packet travels on a TCP connection opened for it or for the       *)
(* request it answers, and each packet of a connection waits for the one   *)
(* before it, so packets in flight are an unordered set.  What the process *)
(* sends waits in the socket until the network manager writes it, at the   *)
(* end of the frame.                                                       *)
(***************************************************************************)
EXTENDS ItemLists, Sequences

CONSTANT MaxAgents   \* bound: agents one process creates

ASSUME MaxAgentsAssumption == MaxAgents \in Nat

(* Agent ids come from the counter g_IdCounter, which starts at 1.         *)
Ids == 1..MaxAgents

(* Id 0 is never given to an agent: a null pointer to an agent, or an      *)
(* address where no one listens.                                           *)
Nobody  == 0
Nowhere == 0

(* UCPs, and the MCPs of a nested search, are given a scratch Node that is *)
(* no node of the cluster.                                                 *)
ScratchNode == -1

(* MAX_SEARCH_DEPTH of Globals.h.                                          *)
MaxSearchDepth == 1

-----------------------------------------------------------------------------
(* States of the four state machines, numbered as the enumerations of the  *)
(* source: some agents compare the number of another kind's state.         *)

MCC_INIT == 0
MCC_REGISTERING == 1
MCC_IDLE == 2
MCC_NEGOCIATING == 3
MCC_FINISHED == 5

UCC_INIT == 0
UCC_WAITING_REQUEST == 1
UCC_WAITING_CONSTRAINT == 2
UCC_FINISHED == 3

MCP_INIT == 0
MCP_REQUESTING_MCCs == 1
MCP_ITERATING_OVER_MCCs == 2
MCP_WAIT_ACCEPTANCE == 3
MCP_NEGOCIATING_UCP_RES == 4
MCP_FINISHED == 5

UCP_INIT == 0
UCP_REQUEST_ITEM == 1
UCP_IDLE == 3
UCP_FINISHED == 4

Agent ==
  [ kind      : {"none", "MCC", "UCC", "MCP", "UCP"},
    state     : 0..5,
    valid     : BOOLEAN,            \* ~_destroyFlag
    node      : Nodes \cup {ScratchNode},
    give      : Items,              \* contributed item
    want      : Items,              \* constraint (MCC, UCC) or requested item
    child     : Ids \cup {Nobody},  \* _ucc, _ucp or mcp
    depth     : 0..MaxSearchDepth,
    success   : BOOLEAN,            \* result of the negotiation
    location  : Ids \cup {Nowhere}, \* UCP: where its UCC is
    registers : Seq(Ids),           \* MCP: the MCCs the yellow pages returned
    index     : Nat ]               \* MCP: position in registers, from 0

NewAgent(kind, node, give, want) ==
  [ kind |-> kind, state |-> 0, valid |-> TRUE, node |-> node, give |-> give,
    want |-> want, child |-> Nobody, depth |-> 0, success |-> FALSE,
    location |-> Nowhere, registers |-> << >>, index |-> 0 ]

(* The record of an id no agent has yet.                                   *)
NoAgent ==
  LET anItem == CHOOSE x \in Items : TRUE
  IN  [NewAgent("none", ScratchNode, anItem, anItem) EXCEPT !.valid = FALSE]

NewMCC(n, give, want) == NewAgent("MCC", n, give, want)

NewMCP(n, want, give, d) == [NewAgent("MCP", n, give, want) EXCEPT !.depth = d]

NewUCP(want, give, loc, d) ==
  [NewAgent("UCP", ScratchNode, give, want) EXCEPT !.location = loc, !.depth = d]

(* The constructor of UCC stores its constraint in both item fields.       *)
NewUCC(n, contributed, constraint) == NewAgent("UCC", n, constraint, constraint)

(* The places that stop an MCC.  An MCC is stopped at most once in each of *)
(* them while valid, and once more after, so a place and a validity tell   *)
(* the UnregisterMCC packets of one MCC apart.                             *)
StopCalls == {"exchange", "prune", "gui", "close"}

Packet ==
       [type : {"RegisterMCC", "QueryMCCsForItem"}, src : Ids, item : Items]
  \cup [type : {"UnregisterMCC"}, src : Ids, item : Items,
        call : StopCalls \X BOOLEAN]
  \cup [type : {"RegisterMCCAck"}, dst : Ids]
  \cup [type : {"ReturnMCCsForItem"}, dst : Ids, mccs : Seq(Ids)]
  \cup [type : {"NegotiationRequest", "ItemRequest"}, src : Ids, dst : Ids]
  \cup [type : {"NegotiationRequestResult"}, src : Ids, dst : Ids,
        available : BOOLEAN, location : Ids \cup {Nowhere}]
  \cup [type : {"ConstraintRequest"}, src : Ids, dst : Ids, item : Items]
  \cup [type : {"ConstraintAcceptance"}, src : Ids, dst : Ids,
        accepted : BOOLEAN]

ToYellowPages   == {"RegisterMCC", "UnregisterMCC", "QueryMCCsForItem"}
FromYellowPages == {"RegisterMCCAck", "ReturnMCCsForItem"}

-----------------------------------------------------------------------------
VARIABLES
  agent,     \* [Ids -> Agent]: every agent created so far
  present,   \* ids in _agents, visited in the order of creation
  pending,   \* ids in _agentsToAdd
  nextId,    \* g_IdCounter
  msgs,      \* packets in flight
  outgoing   \* packets the sockets of this process have yet to write

containerVars == << present, pending, nextId >>
netVars       == << msgs, outgoing >>
agentVars     == << agent, containerVars, netVars >>

AgentsTypeOK ==
  /\ agent \in [Ids -> Agent]
  /\ present \subseteq Ids
  /\ pending \subseteq Ids
  /\ nextId \in 1..(MaxAgents + 1)
  /\ msgs \subseteq Packet
  /\ outgoing \subseteq Packet

AgentsInit ==
  /\ agent = [i \in Ids |-> NoAgent]
  /\ present = {}
  /\ pending = {}
  /\ nextId = 1
  /\ msgs = {}
  /\ outgoing = {}

Is(i, kind, state) == agent[i].kind = kind /\ agent[i].state = state

(* SendPacket() on a socket of this process.                               *)
Send(P) == outgoing' = outgoing \cup P

(* The agents getAgent() finds: _agents, then _agentsToAdd.                *)
Reachable == present \cup pending

(* addAgent() of the agent just constructed with the next id.              *)
AddAgent ==
  /\ nextId \in Ids
  /\ pending' = pending \cup {nextId}
  /\ nextId' = nextId + 1
  /\ UNCHANGED present

(* Agent i, now as in parent, creates a child.                             *)
CreateChild(i, parent, child) ==
  /\ AddAgent
  /\ agent' = [j \in Ids |-> IF j = nextId THEN child
                             ELSE IF j = i THEN [parent EXCEPT !.child = nextId]
                             ELSE agent[j]]

(* The tail of ModuleAgentContainer::postUpdate: pending agents join, and  *)
(* agents flagged for destruction leave.                                   *)
SurvivingAgents == {i \in Reachable : agent[i].valid}

-----------------------------------------------------------------------------
(* stop() on a set of agents.                                              *)

Below(S) == S \cup ({agent[i].child : i \in S \cap Ids} \cap Ids)

(* Seeded bug: destroying an agent forgets the search below it.            *)
SearchTop(i) == {i}

(* A search is at most MCP, UCP, MCP, UCP: each stops the one below.       *)
Search(i) == Below(Below(Below({i})))

(* The agents destroy() runs on.  An MCC is not among them: its stop()     *)
(* destroys its UCC, and its own next update() destroys the MCC.           *)
DestroyedByStop(S) ==
  UNION { IF agent[i].kind = "MCC" THEN {agent[i].child} \ {Nobody} ELSE Search(i) :
          i \in S }

AfterStop(S) ==
  [ j \in Ids |->
      [agent[j] EXCEPT
         !.valid = IF j \in DestroyedByStop(S) THEN FALSE ELSE @,
         !.state = IF j \in S /\ agent[j].kind = "MCC" THEN MCC_FINISHED ELSE @] ]

(* unregisterFromYellowPages(): sent only if the connection is accepted.   *)
UnregisterPackets(S, call, connected) ==
  { [type |-> "UnregisterMCC", src |-> i, item |-> agent[i].give,
     call |-> << call, agent[i].valid >>] :
    i \in {j \in S : connected /\ agent[j].kind = "MCC"} }

=============================================================================
