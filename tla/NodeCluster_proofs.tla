------------------------- MODULE NodeCluster_proofs -------------------------
(***************************************************************************)
(* Proofs about NodeCluster: the lemmas on its operators, that every       *)
(* variable keeps its type, that no step makes or destroys wealth, that    *)
(* the two sides of a bargain agree, and that two MCCs of a node never     *)
(* negotiate the same item.                                                *)
(***************************************************************************)
EXTENDS NodeCluster, TLAPS, FiniteSetTheorems, SequenceTheorems, WellFoundedInduction

-----------------------------------------------------------------------------
(* Facts about the operators the actions are built from.                   *)

(* Agent ids are positive numbers.                                         *)
LEMMA IdsArePositive == Ids \subseteq Nat /\ Nobody \notin Ids /\ Nowhere \notin Ids
  BY MaxAgentsAssumption DEF Ids, Nobody, Nowhere

(* A new agent is an agent.                                                *)
LEMMA NewAgentType ==
  ASSUME NEW kind \in {"none", "MCC", "UCC", "MCP", "UCP"},
         NEW n \in Nodes \cup {ScratchNode}, NEW give \in Items, NEW want \in Items
  PROVE  NewAgent(kind, n, give, want) \in Agent
  BY EmptySeq, IdsArePositive DEF NewAgent, Agent, MaxSearchDepth

LEMMA NewAgentsTypes ==
  ASSUME NEW n \in Nodes \cup {ScratchNode}, NEW give \in Items, NEW want \in Items,
         NEW d \in 0..MaxSearchDepth, NEW loc \in Ids \cup {Nowhere}
  PROVE  /\ NewMCC(n, give, want) \in Agent
         /\ NewUCC(n, give, want) \in Agent
         /\ NewMCP(n, give, want, d) \in Agent
         /\ NewUCP(give, want, loc, d) \in Agent
<1>1. NewMCC(n, give, want) \in Agent
  BY NewAgentType DEF NewMCC
<1>2. NewUCC(n, give, want) \in Agent
  BY NewAgentType DEF NewUCC
<1>3. NewMCP(n, give, want, d) \in Agent
  BY NewAgentType DEF NewMCP, Agent
<1>4. NewUCP(give, want, loc, d) \in Agent
  <2>1. NewAgent("UCP", ScratchNode, want, give) \in Agent
    BY NewAgentType
  <2> QED BY <2>1 DEF NewUCP, Agent
<1> QED BY <1>1, <1>2, <1>3, <1>4

LEMMA NoAgentType == NoAgent \in Agent /\ NoAgent.kind = "none"
<1> DEFINE anItem == CHOOSE x \in Items : TRUE
<1>1. anItem \in Items
  BY ItemsAssumption
<1> HIDE DEF anItem
<1>2. NewAgent("none", ScratchNode, anItem, anItem) \in Agent
  BY <1>1, NewAgentType
<1>3. NoAgent = [NewAgent("none", ScratchNode, anItem, anItem) EXCEPT !.valid = FALSE]
  BY DEF NoAgent, anItem
<1>4. [NewAgent("none", ScratchNode, anItem, anItem) EXCEPT !.valid = FALSE] \in Agent
  BY <1>2 DEF Agent
<1>5. NewAgent("none", ScratchNode, anItem, anItem).kind = "none"
  BY DEF NewAgent
<1> QED BY <1>2, <1>3, <1>4, <1>5 DEF Agent

(* Stopping agents only clears flags and finishes MCCs.                    *)
LEMMA AfterStopType ==
  ASSUME agent \in [Ids -> Agent], NEW S
  PROVE  AfterStop(S) \in [Ids -> Agent]
<1>1. ASSUME NEW a \in Agent, NEW v \in BOOLEAN, NEW t \in 0..5
      PROVE  [a EXCEPT !.valid = v, !.state = t] \in Agent
  BY DEF Agent
<1>2. ASSUME NEW a \in Agent
      PROVE  a.valid \in BOOLEAN /\ a.state \in 0..5
  BY DEF Agent
<1>3. ASSUME NEW j \in Ids
      PROVE  [agent[j] EXCEPT
                !.valid = IF j \in DestroyedByStop(S) THEN FALSE ELSE @,
                !.state = IF j \in S /\ agent[j].kind = "MCC" THEN MCC_FINISHED ELSE @]
             \in Agent
  <2>1. agent[j] \in Agent
    OBVIOUS
  <2>2. (IF j \in DestroyedByStop(S) THEN FALSE ELSE agent[j].valid) \in BOOLEAN
    BY <2>1, <1>2
  <2>3. (IF j \in S /\ agent[j].kind = "MCC" THEN MCC_FINISHED ELSE agent[j].state) \in 0..5
    BY <2>1, <1>2 DEF MCC_FINISHED
  <2> QED
    BY <2>1, <2>2, <2>3, <1>1
<1> QED
  BY <1>3 DEF AfterStop

LEMMA AfterStopKeeps ==
  ASSUME agent \in [Ids -> Agent], NEW S, NEW j \in Ids
  PROVE  /\ AfterStop(S)[j].kind = agent[j].kind
         /\ AfterStop(S)[j].node = agent[j].node
         /\ AfterStop(S)[j].give = agent[j].give
         /\ AfterStop(S)[j].want = agent[j].want
         /\ AfterStop(S)[j].location = agent[j].location
         /\ AfterStop(S)[j].success = agent[j].success
         /\ \/ AfterStop(S)[j].state = agent[j].state
            \/ agent[j].kind = "MCC" /\ AfterStop(S)[j].state = MCC_FINISHED
<1>1. agent[j] \in Agent
  OBVIOUS
<1> QED
  BY <1>1 DEF AfterStop, Agent, MCC_FINISHED

(* A packet made of the right parts is a packet, ...                       *)
LEMMA PacketType ==
  ASSUME NEW i \in Ids, NEW j \in Ids, NEW x \in Items
  PROVE  /\ [type |-> "RegisterMCC", src |-> i, item |-> x] \in Packet
         /\ [type |-> "QueryMCCsForItem", src |-> i, item |-> x] \in Packet
         /\ [type |-> "RegisterMCCAck", dst |-> i] \in Packet
         /\ [type |-> "NegotiationRequest", src |-> i, dst |-> j] \in Packet
         /\ [type |-> "ItemRequest", src |-> i, dst |-> j] \in Packet
         /\ [type |-> "ConstraintRequest", src |-> i, dst |-> j, item |-> x] \in Packet
         /\ \A b \in BOOLEAN :
              [type |-> "ConstraintAcceptance", src |-> i, dst |-> j, accepted |-> b] \in Packet
         /\ \A s \in Seq(Ids) :
              [type |-> "ReturnMCCsForItem", dst |-> i, mccs |-> s] \in Packet
         /\ \A b \in BOOLEAN, loc \in Ids \cup {Nowhere} :
              [type |-> "NegotiationRequestResult", src |-> i, dst |-> j,
               available |-> b, location |-> loc] \in Packet
         /\ \A c \in StopCalls, b \in BOOLEAN :
              [type |-> "UnregisterMCC", src |-> i, item |-> x, call |-> << c, b >>] \in Packet
  BY DEF Packet

(* ... and has the right parts.                                            *)
LEMMA PacketParts ==
  ASSUME NEW m \in Packet
  PROVE  /\ m.type \in ToYellowPages => m.src \in Ids /\ m.item \in Items
         /\ m.type \notin ToYellowPages => m.dst \in Ids
         /\ m.type \in {"NegotiationRequest", "ItemRequest", "NegotiationRequestResult",
                        "ConstraintRequest", "ConstraintAcceptance"} => m.src \in Ids
         /\ m.type = "ReturnMCCsForItem" => m.mccs \in Seq(Ids)
         /\ m.type = "NegotiationRequestResult" =>
              m.available \in BOOLEAN /\ m.location \in Ids \cup {Nowhere}
         /\ m.type = "ConstraintRequest" => m.item \in Items
         /\ m.type = "ConstraintAcceptance" => m.accepted \in BOOLEAN
<1>1. CASE m \in [type : {"RegisterMCC", "QueryMCCsForItem"}, src : Ids, item : Items]
  BY <1>1 DEF ToYellowPages
<1>2. CASE m \in [type : {"UnregisterMCC"}, src : Ids, item : Items,
                  call : StopCalls \X BOOLEAN]
  BY <1>2 DEF ToYellowPages
<1>3. CASE m \in [type : {"RegisterMCCAck"}, dst : Ids]
  BY <1>3 DEF ToYellowPages
<1>4. CASE m \in [type : {"ReturnMCCsForItem"}, dst : Ids, mccs : Seq(Ids)]
  BY <1>4 DEF ToYellowPages
<1>5. CASE m \in [type : {"NegotiationRequest", "ItemRequest"}, src : Ids, dst : Ids]
  BY <1>5 DEF ToYellowPages
<1>6. CASE m \in [type : {"NegotiationRequestResult"}, src : Ids, dst : Ids,
                  available : BOOLEAN, location : Ids \cup {Nowhere}]
  BY <1>6 DEF ToYellowPages
<1>7. CASE m \in [type : {"ConstraintRequest"}, src : Ids, dst : Ids, item : Items]
  BY <1>7 DEF ToYellowPages
<1>8. CASE m \in [type : {"ConstraintAcceptance"}, src : Ids, dst : Ids,
                  accepted : BOOLEAN]
  BY <1>8 DEF ToYellowPages
<1> QED
  BY <1>1, <1>2, <1>3, <1>4, <1>5, <1>6, <1>7, <1>8 DEF Packet

-----------------------------------------------------------------------------
(* Type correctness.                                                       *)

(* An agent with some of its fields set anew is an agent.                  *)
LEMMA AgentWith ==
  ASSUME NEW a \in Agent
  PROVE  /\ [a EXCEPT !.valid = FALSE] \in Agent
         /\ \A s \in 0..5 :
              /\ [a EXCEPT !.state = s] \in Agent
              /\ \A b \in BOOLEAN : [a EXCEPT !.success = b, !.state = s] \in Agent
              /\ \A k \in Nat : [a EXCEPT !.index = k, !.state = s] \in Agent
              /\ \A r \in Seq(Ids) :
                   [a EXCEPT !.registers = r, !.index = 0, !.state = s] \in Agent
              /\ \A d \in 0..MaxSearchDepth : [a EXCEPT !.state = s, !.depth = d] \in Agent
<1>1. [a EXCEPT !.valid = FALSE] \in Agent
  BY DEF Agent
<1>2. ASSUME NEW s \in 0..5 PROVE [a EXCEPT !.state = s] \in Agent
  BY DEF Agent
<1>3. ASSUME NEW s \in 0..5, NEW b \in BOOLEAN
      PROVE  [a EXCEPT !.success = b, !.state = s] \in Agent
  BY DEF Agent
<1>5. ASSUME NEW s \in 0..5, NEW k \in Nat
      PROVE  [a EXCEPT !.index = k, !.state = s] \in Agent
  BY DEF Agent
<1>6. ASSUME NEW s \in 0..5, NEW r \in Seq(Ids)
      PROVE  [a EXCEPT !.registers = r, !.index = 0, !.state = s] \in Agent
  BY DEF Agent
<1>4. ASSUME NEW s \in 0..5, NEW d \in 0..MaxSearchDepth
      PROVE  [a EXCEPT !.state = s, !.depth = d] \in Agent
  BY DEF Agent
<1> QED
  BY <1>1, <1>2, <1>3, <1>4, <1>5, <1>6

LEMMA NextContributorType ==
  ASSUME NEW a \in Agent
  PROVE  NextContributor(a) \in Agent
<1>1. a.index \in Nat
  BY DEF Agent
<1>2. PICK k \in Nat : k = a.index + 1
  BY <1>1
<1>3. NextContributor(a) = [a EXCEPT !.index = k, !.state = MCP_ITERATING_OVER_MCCs]
  BY <1>2 DEF NextContributor
<1>4. MCP_ITERATING_OVER_MCCs \in 0..5
  BY DEF MCP_ITERATING_OVER_MCCs
<1>5. [a EXCEPT !.index = k, !.state = MCP_ITERATING_OVER_MCCs] \in Agent
  BY <1>4, AgentWith
<1> QED
  BY <1>3, <1>5

LEMMA SearchingDeeperType ==
  ASSUME NEW a \in Agent, a.depth # MaxSearchDepth
  PROVE  SearchingDeeper(a) \in Agent /\ a.depth + 1 \in 0..MaxSearchDepth
<1>1. a.depth \in 0..1
  BY DEF Agent, MaxSearchDepth
<1>2. PICK d \in 0..MaxSearchDepth : d = a.depth + 1
  BY <1>1 DEF MaxSearchDepth
<1>3. SearchingDeeper(a) = [a EXCEPT !.state = UCP_IDLE, !.depth = d]
  BY <1>2 DEF SearchingDeeper
<1>4. UCP_IDLE \in 0..5
  BY DEF UCP_IDLE
<1>5. [a EXCEPT !.state = UCP_IDLE, !.depth = d] \in Agent
  BY <1>4, AgentWith
<1> QED
  BY <1>2, <1>3, <1>5

(* Agents one of which is replaced by an agent are agents, ...             *)
LEMMA OneAgent ==
  ASSUME NEW f \in [Ids -> Agent], NEW i \in Ids, NEW e \in Agent
  PROVE  [f EXCEPT ![i] = e] \in [Ids -> Agent]
  OBVIOUS

(* ... and so are agents one of which creates a child.                     *)
LEMMA CreateChildType ==
  ASSUME AgentsTypeOK, NEW i \in Ids, NEW parent \in Agent, NEW child \in Agent,
         CreateChild(i, parent, child)
  PROVE  /\ agent' \in [Ids -> Agent]
         /\ present' \subseteq Ids /\ pending' \subseteq Ids /\ nextId' \in 1..(MaxAgents + 1)
<1>1. nextId \in Ids
  BY DEF CreateChild, AddAgent
<1>2. [parent EXCEPT !.child = nextId] \in Agent
  BY <1>1 DEF Agent
<1>3. agent' \in [Ids -> Agent]
  BY <1>1, <1>2 DEF CreateChild, AgentsTypeOK
<1>4. present' \subseteq Ids /\ pending' \subseteq Ids
  BY <1>1 DEF CreateChild, AddAgent, AgentsTypeOK
<1>5. nextId' \in 1..(MaxAgents + 1)
  BY <1>1, MaxAgentsAssumption DEF CreateChild, AddAgent, Ids
<1> QED
  BY <1>3, <1>4, <1>5

(* What the rest of the invariant says of one agent.                       *)
LEMMA AgentParts ==
  ASSUME AgentsTypeOK, NEW i \in Ids
  PROVE  /\ agent \in [Ids -> Agent] /\ agent[i] \in Agent
         /\ agent[i].node \in Nodes \cup {ScratchNode}
         /\ agent[i].give \in Items /\ agent[i].want \in Items
         /\ agent[i].child \in Ids \cup {Nobody}
         /\ agent[i].location \in Ids \cup {Nowhere}
         /\ agent[i].depth \in 0..MaxSearchDepth
         /\ agent[i].registers \in Seq(Ids) /\ agent[i].index \in Nat
  BY DEF AgentsTypeOK, Agent

(* What is sent is added to packets.                                       *)
LEMMA SendType ==
  ASSUME AgentsTypeOK, NEW P, P \subseteq Packet, Send(P)
  PROVE  outgoing' \subseteq Packet
  BY DEF AgentsTypeOK, Send

(* The variables of the agents keep their types when a contributor updates *)
(* itself, ...                                                             *)
LEMMA ContributorUpdateType ==
  ASSUME AgentsTypeOK, ItemListsTypeOK, NEW i \in Ids, ContributorUpdate(i)
  PROVE  AgentsTypeOK' /\ ItemListsTypeOK'
<1>0. /\ agent \in [Ids -> Agent] /\ agent[i] \in Agent
      /\ agent[i].give \in Items /\ agent[i].child \in Ids \cup {Nobody}
  BY AgentParts
<1>a. \A s \in 0..5 : [agent[i] EXCEPT !.state = s] \in Agent
  BY <1>0, AgentWith
<1>1. CASE MCCRegister(i)
  <2>1. agent' \in [Ids -> Agent]
    <3>1. PICK s \in 0..5 : agent' = [agent EXCEPT ![i] = [@ EXCEPT !.state = s]]
      BY <1>1 DEF MCCRegister, MCC_REGISTERING, MCC_FINISHED
    <3> QED
      BY <1>0, <1>a, <3>1
  <2>2. outgoing' \subseteq Packet
    <3>1. [type |-> "RegisterMCC", src |-> i, item |-> agent[i].give] \in Packet
      BY <1>0, PacketType
    <3> QED
      BY <1>1, <3>1, SendType DEF MCCRegister, AgentsTypeOK
  <2> QED
    BY <1>1, <2>1, <2>2
    DEF MCCRegister, AgentsTypeOK, ItemListsTypeOK, containerVars, nodeVars
<1>2. CASE MCCConclude(i)
  <2>1. agent[i].child \in Ids
    BY <1>0, <1>2 DEF MCCConclude, UCCHasResult
  <2>2. agent' \in [Ids -> Agent]
    <3>1. CASE agent[agent[i].child].success
      <4>1. PICK s \in 0..5 : agent' = [agent EXCEPT ![i] = [@ EXCEPT !.state = s]]
        BY <1>2, <3>1 DEF MCCConclude, MCC_FINISHED
      <4> QED
        BY <1>0, <1>a, <4>1
    <3>2. CASE ~agent[agent[i].child].success
      <4>1. [agent[agent[i].child] EXCEPT !.valid = FALSE] \in Agent
        BY <1>0, <2>1, AgentWith
      <4>2. PICK f \in [Ids -> Agent] : f = [agent EXCEPT ![agent[i].child].valid = FALSE]
        BY <1>0, <2>1, <4>1
      <4>3. agent' = [f EXCEPT ![i].state = MCC_IDLE]
        BY <1>2, <3>2, <4>2 DEF MCCConclude
      <4>4. [f[i] EXCEPT !.state = MCC_IDLE] \in Agent
        <5>1. MCC_IDLE \in 0..5
          BY DEF MCC_IDLE
        <5> QED
          BY <5>1, AgentWith
      <4> QED
        BY <4>3, <4>4
    <3> QED
      BY <3>1, <3>2
  <2>3. used' \in [Nodes -> [Items -> BOOLEAN]]
    BY <1>2 DEF MCCConclude, SetItemUsed, ItemListsTypeOK
  <2> QED
    BY <1>2, <2>2, <2>3
    DEF MCCConclude, AgentsTypeOK, ItemListsTypeOK, containerVars, netVars
<1>3. CASE MCCDestroy(i)
  <2>1. agent' \in [Ids -> Agent]
    <3>1. [agent[i] EXCEPT !.valid = FALSE] \in Agent
      BY <1>0, AgentWith
    <3> QED
      BY <1>0, <1>3, <3>1 DEF MCCDestroy
  <2> QED
    BY <1>3, <2>1
    DEF MCCDestroy, AgentsTypeOK, ItemListsTypeOK, containerVars, netVars, nodeVars
<1>4. CASE UCCStart(i)
  <2>1. agent' \in [Ids -> Agent]
    <3>1. PICK s \in 0..5 : agent' = [agent EXCEPT ![i] = [@ EXCEPT !.state = s]]
      BY <1>4 DEF UCCStart, UCC_WAITING_REQUEST
    <3> QED
      BY <1>0, <1>a, <3>1
  <2> QED
    BY <1>4, <2>1
    DEF UCCStart, AgentsTypeOK, ItemListsTypeOK, containerVars, netVars, nodeVars
<1> QED
  BY <1>1, <1>2, <1>3, <1>4 DEF ContributorUpdate

(* ... and when a petitioner does.                                         *)
LEMMA PetitionerUpdateType ==
  ASSUME AgentsTypeOK, ItemListsTypeOK, NEW i \in Ids, PetitionerUpdate(i)
  PROVE  AgentsTypeOK' /\ ItemListsTypeOK'
<1>0. /\ agent \in [Ids -> Agent] /\ agent[i] \in Agent /\ agent[i].want \in Items
      /\ agent[i].location \in Ids \cup {Nowhere}
      /\ agent[i].registers \in Seq(Ids) /\ agent[i].index \in Nat
  BY AgentParts
<1>a. \A s \in 0..5 : [agent[i] EXCEPT !.state = s] \in Agent
  BY <1>0, AgentWith
<1>1. CASE MCPQuery(i)
  <2>1. agent' \in [Ids -> Agent]
    <3>1. PICK s \in 0..5 : agent' = [agent EXCEPT ![i] = [@ EXCEPT !.state = s]]
      BY <1>1 DEF MCPQuery, MCP_REQUESTING_MCCs
    <3> QED
      BY <1>0, <1>a, <3>1
  <2>2. outgoing' \subseteq Packet
    <3>1. [type |-> "QueryMCCsForItem", src |-> i, item |-> agent[i].want] \in Packet
      BY <1>0, PacketType
    <3> QED
      BY <1>1, <3>1, SendType DEF MCPQuery
  <2> QED
    BY <1>1, <2>1, <2>2
    DEF MCPQuery, AgentsTypeOK, ItemListsTypeOK, containerVars, nodeVars
<1>2. CASE MCPIterate(i)
  <2>1. agent' \in [Ids -> Agent]
    <3>1. PICK s \in 0..5 : agent' = [agent EXCEPT ![i] = [@ EXCEPT !.state = s]]
      BY <1>2 DEF MCPIterate, MCP_FINISHED, MCP_WAIT_ACCEPTANCE
    <3> QED
      BY <1>0, <1>a, <3>1
  <2>2. outgoing' \subseteq Packet
    <3>1. CASE agent[i].index >= Len(agent[i].registers)
      BY <1>2, <3>1 DEF MCPIterate, AgentsTypeOK
    <3>2. CASE ~(agent[i].index >= Len(agent[i].registers))
      <4>1. agent[i].index + 1 \in 1..Len(agent[i].registers)
        BY <1>0, <3>2, LenProperties
      <4>2. PICK d \in Ids : d = agent[i].registers[agent[i].index + 1]
        BY <1>0, <4>1, ElementOfSeq
      <4>3. [type |-> "NegotiationRequest", src |-> i, dst |-> d] \in Packet
        BY <1>0, PacketType
      <4> QED
        BY <1>2, <3>2, <4>2, <4>3, SendType DEF MCPIterate
    <3> QED
      BY <3>1, <3>2
  <2> QED
    BY <1>2, <2>1, <2>2
    DEF MCPIterate, AgentsTypeOK, ItemListsTypeOK, containerVars, nodeVars
<1>3. CASE MCPConclude(i)
  <2>1. agent' \in [Ids -> Agent]
    <3>1. CASE agent[agent[i].child].success
      <4>1. agent' = [agent EXCEPT ![i] = [@ EXCEPT !.success = TRUE, !.state = MCP_FINISHED]]
        BY <1>3, <3>1 DEF MCPConclude
      <4> QED
        <5>1. MCP_FINISHED \in 0..5
          BY DEF MCP_FINISHED
        <5>2. [agent[i] EXCEPT !.success = TRUE, !.state = MCP_FINISHED] \in Agent
          BY <1>0, <5>1, AgentWith
        <5> QED
          BY <1>0, <4>1, <5>1, <5>2
    <3>2. CASE ~agent[agent[i].child].success
      <4>1. PICK f \in [Ids -> Agent] : f = AfterStop({agent[i].child})
        BY <1>0, AfterStopType
      <4>2. agent' = [f EXCEPT ![i] = NextContributor(@)]
        BY <1>3, <3>2, <4>1 DEF MCPConclude
      <4> QED
        BY <4>2, NextContributorType
    <3> QED
      BY <3>1, <3>2
  <2> QED
    BY <1>3, <2>1
    DEF MCPConclude, AgentsTypeOK, ItemListsTypeOK, containerVars, netVars, nodeVars
<1>4. CASE UCPStart(i)
  <2>1. agent' \in [Ids -> Agent]
    <3>1. PICK s \in 0..5 : agent' = [agent EXCEPT ![i] = [@ EXCEPT !.state = s]]
      BY <1>4 DEF UCPStart, UCP_REQUEST_ITEM
    <3> QED
      BY <1>0, <1>a, <3>1
  <2>2. outgoing' \subseteq Packet
    <3> DEFINE m == [type |-> "ItemRequest", src |-> i, dst |-> agent[i].location]
    <3>1. PacketTo(agent[i].location, m) \subseteq Packet
      BY <1>0, PacketType DEF PacketTo
    <3> QED
      BY <1>4, <3>1, SendType DEF UCPStart
  <2> QED
    BY <1>4, <2>1, <2>2
    DEF UCPStart, AgentsTypeOK, ItemListsTypeOK, containerVars, nodeVars
<1>5. CASE UCPConclude(i)
  <2>1. agent' \in [Ids -> Agent]
    <3>1. PICK b \in BOOLEAN : b = (agent[agent[i].child].state = UCP_FINISHED)
      OBVIOUS
    <3>2. UCP_FINISHED \in 0..5
      BY DEF UCP_FINISHED
    <3>3. [agent[i] EXCEPT !.success = b, !.state = UCP_FINISHED] \in Agent
      BY <1>0, <3>2, AgentWith
    <3>4. agent' = [agent EXCEPT ![i] = [@ EXCEPT !.success = b, !.state = UCP_FINISHED]]
      BY <1>5, <3>1 DEF UCPConclude
    <3> QED
      BY <1>0, <3>3, <3>4
  <2>2. outgoing' \subseteq Packet
    <3> DEFINE m == [type |-> "ConstraintAcceptance", src |-> i,
                     dst |-> agent[i].location, accepted |-> FALSE]
    <3>1. PacketTo(agent[i].location, m) \subseteq Packet
      BY <1>0, PacketType DEF PacketTo
    <3> QED
      BY <1>5, <3>1, SendType DEF UCPConclude
  <2> QED
    BY <1>5, <2>1, <2>2
    DEF UCPConclude, AgentsTypeOK, ItemListsTypeOK, containerVars, nodeVars
<1> QED
  BY <1>1, <1>2, <1>3, <1>4, <1>5 DEF PetitionerUpdate

(* So does a contributor that receives a packet, ...                       *)
LEMMA ContributorReceiveType ==
  ASSUME AgentsTypeOK, ItemListsTypeOK, NEW m \in msgs, m.dst \in Ids, ContributorReceive(m)
  PROVE  AgentsTypeOK' /\ ItemListsTypeOK'
<1>0. /\ agent \in [Ids -> Agent] /\ agent[m.dst] \in Agent
      /\ agent[m.dst].node \in Nodes \cup {ScratchNode}
      /\ agent[m.dst].give \in Items /\ agent[m.dst].want \in Items
  BY AgentParts
<1>a. \A s \in 0..5 : [agent[m.dst] EXCEPT !.state = s] \in Agent
  BY <1>0, AgentWith
<1>b. m \in Packet
  BY DEF AgentsTypeOK
<1>c. msgs' = msgs \ {m}
  BY DEF ContributorReceive, ReceiveRegisterAck, ReceiveNegotiationRequest,
     ReceiveItemRequest, ReceiveConstraintAcceptance
<1>d. msgs' \subseteq Packet
  BY <1>c DEF AgentsTypeOK
<1>1. CASE ReceiveRegisterAck(m)
  <2>1. agent' \in [Ids -> Agent]
    <3>1. PICK s \in 0..5 : agent' = [agent EXCEPT ![m.dst] = [@ EXCEPT !.state = s]]
      BY <1>1 DEF ReceiveRegisterAck, MCC_IDLE
    <3> QED
      BY <1>0, <1>a, <3>1
  <2> QED
    BY <1>1, <1>d, <2>1
    DEF ReceiveRegisterAck, AgentsTypeOK, ItemListsTypeOK, containerVars, nodeVars
<1>2. CASE ReceiveNegotiationRequest(m)
  <2>a. m.src \in Ids
    BY <1>b, <1>2, PacketParts DEF ReceiveNegotiationRequest
  <2>b. \A b \in BOOLEAN, loc \in Ids \cup {Nowhere} : NegotiationResult(m, b, loc) \in Packet
    BY <1>0, <2>a, PacketType DEF NegotiationResult
  <2>1. CASE NegotiationRequestBusy(m)
    <3>1. PICK loc \in GarbageIds : Send({NegotiationResult(m, TRUE, loc)})
      BY <2>1 DEF NegotiationRequestBusy
    <3>2. outgoing' \subseteq Packet
      BY <2>b, <3>1, GarbageAssumption, SendType
    <3> QED
      BY <1>d, <2>1, <3>2
      DEF NegotiationRequestBusy, AgentsTypeOK, ItemListsTypeOK, containerVars, nodeVars
  <2>2. CASE NegotiationRequestUsed(m)
    <3>1. outgoing' \subseteq Packet
      BY <2>b, <2>2, SendType DEF NegotiationRequestUsed
    <3> QED
      BY <1>d, <2>2, <3>1
      DEF NegotiationRequestUsed, AgentsTypeOK, ItemListsTypeOK, containerVars, nodeVars
  <2>3. CASE NegotiationRequestAccepted(m)
    <3> DEFINE mcc == agent[m.dst]
               parent == [mcc EXCEPT !.state = MCC_NEGOCIATING]
               child == NewUCC(mcc.node, mcc.give, mcc.want)
    <3>1. parent \in Agent
      <4>1. MCC_NEGOCIATING \in 0..5
        BY DEF MCC_NEGOCIATING
      <4> QED
        BY <1>a, <4>1
    <3>2. child \in Agent
      BY <1>0, NewAgentType DEF NewUCC
    <3>3. CreateChild(m.dst, parent, child)
      BY <2>3 DEF NegotiationRequestAccepted
    <3> HIDE DEF parent, child
    <3>4. /\ agent' \in [Ids -> Agent]
          /\ present' \subseteq Ids /\ pending' \subseteq Ids /\ nextId' \in 1..(MaxAgents + 1)
      BY <3>1, <3>2, <3>3, CreateChildType
    <3>5. nextId \in Ids
      BY <3>3 DEF CreateChild, AddAgent
    <3>6. outgoing' \subseteq Packet
      <4>1. NegotiationResult(m, TRUE, nextId) \in Packet
        BY <2>b, <3>5
      <4> QED
        BY <2>3, <4>1, SendType DEF NegotiationRequestAccepted
    <3>7. ItemListsTypeOK'
      BY <2>3 DEF NegotiationRequestAccepted, SetItemUsed, ItemListsTypeOK
    <3> QED
      BY <1>d, <3>4, <3>6, <3>7 DEF AgentsTypeOK
  <2> QED
    BY <1>2, <2>1, <2>2, <2>3 DEF ReceiveNegotiationRequest
<1>3. CASE ReceiveItemRequest(m)
  <2>1. agent' \in [Ids -> Agent]
    <3>1. PICK s \in 0..5 : agent' = [agent EXCEPT ![m.dst] = [@ EXCEPT !.state = s]]
      BY <1>3 DEF ReceiveItemRequest, UCC_WAITING_CONSTRAINT
    <3> QED
      BY <1>0, <1>a, <3>1
  <2>2. outgoing' \subseteq Packet
    <3>1. m.src \in Ids
      BY <1>b, <1>3, PacketParts DEF ReceiveItemRequest
    <3>2. [type |-> "ConstraintRequest", src |-> m.dst, dst |-> m.src,
           item |-> agent[m.dst].want] \in Packet
      BY <1>0, <3>1, PacketType
    <3> QED
      BY <1>3, <3>2, SendType DEF ReceiveItemRequest
  <2> QED
    BY <1>3, <1>d, <2>1, <2>2
    DEF ReceiveItemRequest, AgentsTypeOK, ItemListsTypeOK, containerVars, nodeVars
<1>4. CASE ReceiveConstraintAcceptance(m)
  <2>1. agent' \in [Ids -> Agent]
    <3>1. PICK b \in BOOLEAN : b = m.accepted
      BY <1>b, <1>4, PacketParts DEF ReceiveConstraintAcceptance
    <3>2. UCC_FINISHED \in 0..5
      BY DEF UCC_FINISHED
    <3>3. [agent[m.dst] EXCEPT !.success = b, !.state = UCC_FINISHED] \in Agent
      BY <1>0, <3>2, AgentWith
    <3>4. agent' = [agent EXCEPT ![m.dst] =
                      [@ EXCEPT !.success = b, !.state = UCC_FINISHED]]
      BY <1>4, <3>1 DEF ReceiveConstraintAcceptance
    <3> QED
      BY <1>0, <3>3, <3>4
  <2> QED
    BY <1>4, <1>d, <2>1
    DEF ReceiveConstraintAcceptance, AgentsTypeOK, ItemListsTypeOK, containerVars, nodeVars
<1> QED
  BY <1>1, <1>2, <1>3, <1>4 DEF ContributorReceive

(* ... and a petitioner that does.                                         *)
LEMMA PetitionerReceiveType ==
  ASSUME AgentsTypeOK, ItemListsTypeOK, NEW m \in msgs, m.dst \in Ids, PetitionerReceive(m)
  PROVE  AgentsTypeOK' /\ ItemListsTypeOK'
<1>0. /\ agent \in [Ids -> Agent] /\ agent[m.dst] \in Agent
      /\ agent[m.dst].give \in Items /\ agent[m.dst].want \in Items
      /\ agent[m.dst].depth \in 0..MaxSearchDepth
  BY AgentParts
<1>a. \A s \in 0..5 : [agent[m.dst] EXCEPT !.state = s] \in Agent
  BY <1>0, AgentWith
<1>b. m \in Packet
  BY DEF AgentsTypeOK
<1>c. msgs' = msgs \ {m} /\ UNCHANGED nodeVars
  BY DEF PetitionerReceive, ReceiveMCCsForItem, ReceiveNegotiationResult,
     ReceiveConstraintRequest
<1>d. msgs' \subseteq Packet /\ ItemListsTypeOK'
  BY <1>c DEF AgentsTypeOK, ItemListsTypeOK, nodeVars
<1>1. CASE ReceiveMCCsForItem(m)
  <2>1. agent' \in [Ids -> Agent]
    <3>1. PICK r \in Seq(Ids) : r = m.mccs
      BY <1>b, <1>1, PacketParts DEF ReceiveMCCsForItem
    <3>2. MCP_ITERATING_OVER_MCCs \in 0..5
      BY DEF MCP_ITERATING_OVER_MCCs
    <3>3. [agent[m.dst] EXCEPT !.registers = r, !.index = 0,
                               !.state = MCP_ITERATING_OVER_MCCs] \in Agent
      BY <1>0, <3>2, AgentWith
    <3>4. agent' = [agent EXCEPT ![m.dst] =
                      [@ EXCEPT !.registers = r, !.index = 0,
                                !.state = MCP_ITERATING_OVER_MCCs]]
      BY <1>1, <3>1 DEF ReceiveMCCsForItem
    <3> QED
      BY <1>0, <3>3, <3>4
  <2> QED
    BY <1>1, <1>d, <2>1 DEF ReceiveMCCsForItem, AgentsTypeOK, containerVars
<1>2. CASE ReceiveNegotiationResult(m)
  <2>1. CASE m.available
    <3> DEFINE mcp == agent[m.dst]
               parent == [mcp EXCEPT !.state = MCP_NEGOCIATING_UCP_RES]
               child == NewUCP(mcp.want, mcp.give, m.location, mcp.depth)
    <3>1. parent \in Agent
      <4>1. MCP_NEGOCIATING_UCP_RES \in 0..5
        BY DEF MCP_NEGOCIATING_UCP_RES
      <4> QED
        BY <1>a, <4>1
    <3>2. child \in Agent
      <4>1. m.location \in Ids \cup {Nowhere}
        BY <1>b, <1>2, PacketParts DEF ReceiveNegotiationResult
      <4> QED
        BY <1>0, <4>1, NewAgentsTypes
    <3>3. CreateChild(m.dst, parent, child) /\ UNCHANGED outgoing
      BY <1>2, <2>1 DEF ReceiveNegotiationResult
    <3> HIDE DEF parent, child
    <3>4. /\ agent' \in [Ids -> Agent]
          /\ present' \subseteq Ids /\ pending' \subseteq Ids /\ nextId' \in 1..(MaxAgents + 1)
      BY <3>1, <3>2, <3>3, CreateChildType
    <3> QED
      BY <1>d, <3>3, <3>4 DEF AgentsTypeOK
  <2>2. CASE ~m.available
    <3>1. agent' = [agent EXCEPT ![m.dst] = NextContributor(@)]
          /\ UNCHANGED << containerVars, outgoing >>
      BY <1>2, <2>2 DEF ReceiveNegotiationResult
    <3>2. agent' \in [Ids -> Agent]
      BY <1>0, <3>1, NextContributorType
    <3> QED
      BY <1>d, <3>1, <3>2 DEF AgentsTypeOK, containerVars
  <2> QED
    BY <2>1, <2>2
<1>3. CASE ReceiveConstraintRequest(m)
  <2>a. m.src \in Ids /\ m.item \in Items
    BY <1>b, <1>3, PacketParts DEF ReceiveConstraintRequest
  <2>b. \A b \in BOOLEAN : Acceptance(m, b) \in Packet
    BY <1>0, <2>a, PacketType DEF Acceptance
  <2>c. UCP_FINISHED \in 0..5
    BY DEF UCP_FINISHED
  <2>1. CASE ConstraintMet(m)
    <3>1. agent' \in [Ids -> Agent]
      <4>1. [agent[m.dst] EXCEPT !.success = TRUE, !.state = UCP_FINISHED] \in Agent
        BY <1>0, <2>c, AgentWith
      <4> QED
        BY <1>0, <2>1, <4>1 DEF ConstraintMet
    <3>2. outgoing' \subseteq Packet
      BY <2>b, <2>1, SendType DEF ConstraintMet
    <3> QED
      BY <1>d, <2>1, <3>1, <3>2 DEF ConstraintMet, AgentsTypeOK, containerVars
  <2>2. CASE ConstraintTooDeep(m)
    <3>1. agent' \in [Ids -> Agent]
      <4>1. PICK s \in 0..5 : agent' = [agent EXCEPT ![m.dst] = [@ EXCEPT !.state = s]]
        BY <2>2, <2>c DEF ConstraintTooDeep
      <4> QED
        BY <1>0, <1>a, <4>1
    <3>2. outgoing' \subseteq Packet
      <4>1. agent[m.dst].success \in BOOLEAN
        BY <1>0 DEF Agent
      <4>2. PICK p \in Packet : Send({p})
        BY <2>b, <2>2, <4>1 DEF ConstraintTooDeep
      <4> QED
        BY <4>2, SendType
    <3> QED
      BY <1>d, <2>2, <3>1, <3>2 DEF ConstraintTooDeep, AgentsTypeOK, containerVars
  <2>3. CASE agent[m.dst].depth # MaxSearchDepth /\ ConstraintSearched(m)
    <3> DEFINE ucp == agent[m.dst]
               parent == SearchingDeeper(ucp)
               child == NewMCP(ScratchNode, m.item, ucp.give, ucp.depth + 1)
    <3>1. parent \in Agent /\ ucp.depth + 1 \in 0..MaxSearchDepth
      BY <1>0, <2>3, SearchingDeeperType
    <3>2. child \in Agent
      BY <1>0, <2>a, <3>1, NewAgentsTypes
    <3>3. CreateChild(m.dst, parent, child) /\ UNCHANGED outgoing
      BY <2>3 DEF ConstraintSearched
    <3> HIDE DEF parent, child
    <3>4. /\ agent' \in [Ids -> Agent]
          /\ present' \subseteq Ids /\ pending' \subseteq Ids /\ nextId' \in 1..(MaxAgents + 1)
      BY <3>1, <3>2, <3>3, CreateChildType
    <3> QED
      BY <1>d, <3>3, <3>4 DEF AgentsTypeOK
  <2> QED
    BY <1>3, <2>1, <2>2, <2>3 DEF ReceiveConstraintRequest
<1> QED
  BY <1>1, <1>2, <1>3 DEF PetitionerReceive

(* Removing the first occurrence of an id from a list leaves a list of ids. *)
LEMMA RemoveFirstType ==
  ASSUME NEW T, NEW s \in Seq(T), NEW e
  PROVE  RemoveFirst(s, e) \in Seq(T)
<1> DEFINE I == {k \in 1..Len(s) : s[k] = e}
<1>1. CASE ~ \E k \in 1..Len(s) : s[k] = e
  BY <1>1 DEF RemoveFirst
<1>2. CASE \E k \in 1..Len(s) : s[k] = e
  <2>1. Len(s) \in Nat /\ I # {} /\ I \subseteq Nat
    BY <1>2, LenProperties
  <2>2. PICK k \in I : \A j \in I : k <= j
    <3>1. PICK k \in I : \A j \in I : << j, k >> \notin OpToRel(<, Nat)
      BY <2>1, NatLessThanWellFounded, WFMin
    <3>2. OpToRel(<, Nat) = {ss \in Nat \X Nat : ss[1] < ss[2]}
      BY DEF OpToRel
    <3>3. PICK R : R = OpToRel(<, Nat)
      OBVIOUS
    <3>4. \A x, y \in Nat : << x, y >> \in R <=> x < y
      <4>1. R = {ss \in Nat \X Nat : ss[1] < ss[2]}
        BY <3>2, <3>3
      <4> QED
        BY <4>1
    <3>5. \A j \in I : << j, k >> \notin R
      BY <3>1, <3>3
    <3>6. k \in Nat /\ \A j \in I : j \in Nat
      BY <2>1
    <3> HIDE DEF I
    <3>7. \A j \in I : ~(j < k)
      BY <3>4, <3>5, <3>6
    <3> QED
      BY <3>6, <3>7
  <2>3. SelectInSeq(s, LAMBDA v : v = e) \in I
    <3>1. Min(I) \in I
      BY <2>2 DEF Min
    <3> QED
      BY <2>1, <3>1 DEF SelectInSeq
  <2>4. PICK at \in 1..Len(s) :
          RemoveFirst(s, e) = SubSeq(s, 1, at - 1) \o SubSeq(s, at + 1, Len(s))
    BY <1>2, <2>3 DEF RemoveFirst, RemoveAt
  <2>5. SubSeq(s, 1, at - 1) \in Seq(T) /\ SubSeq(s, at + 1, Len(s)) \in Seq(T)
    <3>1. \A j \in 1..(at - 1) : s[j] \in T
      BY <2>1, ElementOfSeq
    <3>2. \A j \in (at + 1)..Len(s) : s[j] \in T
      BY <2>1, ElementOfSeq
    <3> QED
      BY <2>1, <3>1, <3>2, SubSeqProperties
  <2> QED
    BY <2>4, <2>5, ConcatProperties
<1> QED
  BY <1>1, <1>2

(* The yellow pages keep their own types and those of what is in flight.   *)
LEMMA YellowPagesStepType ==
  ASSUME YellowPagesTypeOK, msgs \subseteq Packet, outgoing \subseteq Packet, YellowPagesStep
  PROVE  YellowPagesTypeOK' /\ msgs' \subseteq Packet /\ outgoing' \subseteq Packet
<1>0. PICK m \in msgs : HandleRegister(m) \/ HandleQuery(m) \/ HandleUnregister(m)
  BY DEF YellowPagesStep
<1>a. m \in Packet
  OBVIOUS
<1>b. m.type \in ToYellowPages
  BY <1>0 DEF HandleRegister, HandleQuery, HandleUnregister, ToYellowPages
<1>c. m.src \in Ids /\ m.item \in Items
  BY <1>a, <1>b, PacketParts
<1>d. mccByItem[m.item] \in Seq(Ids)
  BY <1>c DEF YellowPagesTypeOK
<1>1. CASE HandleRegister(m)
  <2>1. Append(mccByItem[m.item], m.src) \in Seq(Ids)
    BY <1>c, <1>d, AppendProperties
  <2>2. mccByItem' \in [Items -> Seq(Ids)]
    BY <1>1, <1>c, <2>1 DEF HandleRegister, YellowPagesTypeOK
  <2>3. [type |-> "RegisterMCCAck", dst |-> m.src] \in Packet
    BY <1>c, PacketType
  <2> QED
    BY <1>1, <2>2, <2>3 DEF HandleRegister, YellowPagesTypeOK
<1>2. CASE HandleQuery(m)
  <2>1. [type |-> "ReturnMCCsForItem", dst |-> m.src, mccs |-> mccByItem[m.item]] \in Packet
    BY <1>c, <1>d, PacketType
  <2> QED
    BY <1>2, <2>1 DEF HandleQuery, YellowPagesTypeOK
<1>3. CASE HandleUnregister(m)
  <2>1. RemoveFirst(mccByItem[m.item], m.src) \in Seq(Ids)
    BY <1>d, RemoveFirstType
  <2>2. mccByItem' \in [Items -> Seq(Ids)]
    BY <1>3, <1>c, <2>1 DEF HandleUnregister, YellowPagesTypeOK
  <2> QED
    BY <1>3, <2>2 DEF HandleUnregister, YellowPagesTypeOK
<1> QED
  BY <1>0, <1>1, <1>2, <1>3

(* What stop() sends are packets.                                          *)
LEMMA UnregisterPacketsType ==
  ASSUME AgentsTypeOK, NEW S, S \subseteq Ids, NEW call \in StopCalls, NEW connected
  PROVE  UnregisterPackets(S, call, connected) \subseteq Packet
<1> SUFFICES ASSUME NEW i \in S
             PROVE  [type |-> "UnregisterMCC", src |-> i, item |-> agent[i].give,
                     call |-> << call, agent[i].valid >>] \in Packet
  BY DEF UnregisterPackets
<1>1. agent[i].give \in Items /\ agent[i].valid \in BOOLEAN
  BY DEF AgentsTypeOK, Agent
<1> QED
  BY <1>1, PacketType

(* Exchanging an item the node has leaves it with no negative count.       *)
LEMMA ExchangeType ==
  ASSUME ItemListsTypeOK, NEW n, NEW out \in Items, NEW in \in Items,
         CanRemove(n, out), Exchange(n, out, in), UNCHANGED << used, money >>
  PROVE  ItemListsTypeOK'
<1>1. items' \in [Nodes -> [Items -> Nat]]
  <2>1. CASE n \in Nodes
    <3> DEFINE row == [x \in Items |-> items[n][x] - (IF x = out THEN 1 ELSE 0)
                                                    + (IF x = in  THEN 1 ELSE 0)]
    <3>1. ASSUME NEW x \in Items
          PROVE  items[n][x] - (IF x = out THEN 1 ELSE 0) + (IF x = in THEN 1 ELSE 0) \in Nat
      <4>1. items[n][x] \in Nat /\ items[n][out] > 0
        BY <2>1 DEF ItemListsTypeOK, CanRemove
      <4> QED
        BY <4>1
    <3>2. row \in [Items -> Nat]
      BY <3>1
    <3>3. items' = [items EXCEPT ![n] = row]
      BY DEF Exchange
    <3> HIDE DEF row
    <3> QED
      BY <2>1, <3>2, <3>3 DEF ItemListsTypeOK
  <2>2. CASE n \notin Nodes
    BY <2>2 DEF Exchange, ItemListsTypeOK
  <2> QED
    BY <2>1, <2>2
<1>2. numberOfItems' \in [Nodes -> Int]
  <2>1. ASSUME n \in Nodes PROVE (numberOfItems[n] - 1) + 1 \in Int
    BY <2>1 DEF ItemListsTypeOK
  <2> QED
    BY <2>1 DEF Exchange, ItemListsTypeOK
<1> QED
  BY <1>1, <1>2 DEF ItemListsTypeOK

-----------------------------------------------------------------------------
(* The random MCCs: there are finitely many, and each gets an id of its    *)
(* own between the counter before and the counter after.                   *)

LEMMA OffersFinite ==
  ASSUME items \in [Nodes -> [Items -> Nat]]
  PROVE  IsFiniteSet(Offers)
<1> DEFINE Pairs == (Nodes \X Items) \X Items
           Triples == Nodes \X Items \X Items
           toTriple == [p \in Pairs |-> << p[1][1], p[1][2], p[2] >>]
           Missing == {p \in Triples : items[p[1]][p[3]] = 0}
           copies == [o \in Missing |->
                        {<< o[1], o[2], o[3], k >> : k \in 1..(items[o[1]][o[2]] - 1)}]
           Copied == {copies[o] : o \in Missing}
<1>1. IsFiniteSet(Triples)
  <2>1. IsFiniteSet(Pairs)
    BY NodesAssumption, ItemsAssumption, FS_Product
  <2>2. toTriple \in Surjection(Pairs, Triples)
    <3>1. toTriple \in [Pairs -> Triples]
      OBVIOUS
    <3>2. ASSUME NEW t \in Triples PROVE \E p \in Pairs : toTriple[p] = t
      <4>1. PICK n \in Nodes, x \in Items, y \in Items : t = << n, x, y >>
        OBVIOUS
      <4>2. << << n, x >>, y >> \in Pairs /\ toTriple[<< << n, x >>, y >>] = t
        BY <4>1
      <4> QED
        BY <4>2
    <3> QED
      BY <3>1, <3>2 DEF Surjection
  <2> QED
    BY <2>1, <2>2, FS_Surjection
<1>2. IsFiniteSet(Missing)
  BY <1>1, FS_Subset
<1>3. ASSUME NEW o \in Missing PROVE IsFiniteSet(copies[o])
  <2> DEFINE last == items[o[1]][o[2]] - 1
             copy == [k \in 1..last |-> << o[1], o[2], o[3], k >>]
  <2>1. last \in Int
    <3>1. o[1] \in Nodes /\ o[2] \in Items
      OBVIOUS
    <3>2. items[o[1]][o[2]] \in Nat
      BY <3>1
    <3> QED
      BY <3>2
  <2> HIDE DEF last
  <2>2. IsFiniteSet(1..last)
    BY <2>1, FS_Interval
  <2>3. copy \in Surjection(1..last, {copy[k] : k \in 1..last})
    BY DEF Surjection
  <2>4. IsFiniteSet({copy[k] : k \in 1..last})
    BY <2>2, <2>3, FS_Surjection
  <2>5. copies[o] = {copy[k] : k \in 1..last}
    BY DEF last
  <2> QED
    BY <2>4, <2>5
<1>4. Offers = UNION Copied
  <2>1. \A o \in Missing :
          copies[o] = {<< o[1], o[2], o[3], k >> : k \in 1..(items[o[1]][o[2]] - 1)}
    OBVIOUS
  <2> HIDE DEF copies
  <2>2. Offers = UNION {{<< o[1], o[2], o[3], k >> : k \in 1..(items[o[1]][o[2]] - 1)} :
                        o \in Missing}
    BY DEF Offers
  <2> HIDE DEF Missing
  <2> QED
    BY <2>1, <2>2
<1> HIDE DEF copies
<1>5. IsFiniteSet(Copied)
  <2>1. copies \in Surjection(Missing, Copied)
    BY DEF Surjection, copies
  <2> QED
    BY <1>2, <2>1, FS_Surjection
<1> HIDE DEF Missing
<1>6. \A T \in Copied : IsFiniteSet(T)
  BY <1>3
<1> QED
  BY <1>4, <1>5, <1>6, FS_UNION

LEMMA OfferParts ==
  ASSUME NEW o \in Offers
  PROVE  o[1] \in Nodes /\ o[2] \in Items /\ o[3] \in Items /\ o[4] \in Int
  BY DEF Offers

LEMMA OfferIdType ==
  ASSUME items \in [Nodes -> [Items -> Nat]], NEW o \in Offers, nextId \in Nat
  PROVE  /\ Cardinality(Offers) \in Nat
         /\ OfferId(o) \in nextId..(nextId + Cardinality(Offers) - 1)
<1> DEFINE Earlier == {p \in Offers : Before(p, o)}
<1>1. IsFiniteSet(Offers) /\ Cardinality(Offers) \in Nat
  BY OffersFinite, FS_CardinalityType
<1>2. Earlier \subseteq Offers /\ o \notin Earlier
  <2>1. o[1] \in Int /\ o[2] \in Int /\ o[3] \in Int /\ o[4] \in Int
    <3>1. o[1] \in Nodes /\ o[2] \in Items /\ o[3] \in Items /\ o[4] \in Int
      BY OfferParts
    <3>2. Nodes \subseteq Int /\ Items \subseteq Int
      BY NodesAssumption, ItemsAssumption
    <3> QED
      BY <3>1, <3>2
  <2>2. ~Before(o, o)
    BY <2>1 DEF Before
  <2> QED
    BY <2>2
<1> HIDE DEF Earlier
<1>3. /\ Cardinality(Earlier) \in Nat
      /\ Cardinality(Earlier) <= Cardinality(Offers)
      /\ Cardinality(Earlier) # Cardinality(Offers)
  BY <1>1, <1>2, FS_Subset, FS_CardinalityType
<1>4. OfferId(o) = nextId + Cardinality(Earlier)
  BY DEF OfferId, Earlier
<1> QED
  BY <1>1, <1>3, <1>4

-----------------------------------------------------------------------------
(* Every step of the process and of the yellow pages keeps the types.      *)

LEMMA TypeInit == Init => TypeOK
<1> SUFFICES ASSUME Init PROVE TypeOK
  OBVIOUS
<1>1. ItemListsTypeOK
  BY InitialItemsAssumption, ItemsPerNodeAssumption
  DEF Init, NodesInit, ItemListsTypeOK, StartMoney
<1>2. AgentsTypeOK
  <2>1. NoAgent \in Agent
    BY NoAgentType
  <2> QED
    BY <2>1, MaxAgentsAssumption DEF Init, AgentsInit, AgentsTypeOK
<1>3. YellowPagesTypeOK
  BY EmptySeq DEF Init, YellowPagesInit, YellowPagesTypeOK
<1> QED
  BY <1>1, <1>2, <1>3 DEF Init, TypeOK, Phases

LEMMA LoopsType ==
  ASSUME TypeOK, Loops
  PROVE  TypeOK'
<1>0. AgentsTypeOK /\ ItemListsTypeOK /\ YellowPagesTypeOK
  BY DEF TypeOK
<1>a. ASSUME NEW i \in Ids
      PROVE  {i} \subseteq Ids /\ AfterStop({i}) \in [Ids -> Agent]
  BY <1>0, AfterStopType DEF AgentsTypeOK
<1>1. ASSUME NEW i \in Ids, UpdateAgent(i) PROVE TypeOK'
  <2>1. ContributorUpdate(i) \/ PetitionerUpdate(i)
    BY <1>1 DEF UpdateAgent
  <2>2. AgentsTypeOK' /\ ItemListsTypeOK'
    BY <1>0, <2>1, ContributorUpdateType, PetitionerUpdateType
  <2>3. UNCHANGED << mccByItem, ypUp, phase, payer, clicks, faults >> /\ todo' \subseteq todo
    BY <1>1 DEF UpdateAgent, Visit, ypVars, userVars
  <2> QED
    BY <2>2, <2>3 DEF TypeOK, YellowPagesTypeOK
<1>2. ASSUME NEW i \in Ids, ExchangeAgent(i) PROVE TypeOK'
  <2>0. todo' \subseteq todo
    BY <1>2 DEF ExchangeAgent, Visit
  <2>a. agent[i].give \in Items /\ agent[i].want \in Items
    BY <1>0, AgentParts
  <2>1. CASE MCCExchange(i)
    <3>1. CASE Abort
      BY <2>0, <3>1
      DEF Abort, TypeOK, Phases, AgentsTypeOK, ItemListsTypeOK, YellowPagesTypeOK, agentVars,
          containerVars, netVars, nodeVars, ypVars, userVars
    <3>2. CASE ~Abort
      <4>1. /\ CanRemove(agent[i].node, agent[i].give)
            /\ Exchange(agent[i].node, agent[i].give, agent[i].want)
            /\ UNCHANGED << used, money >>
        BY <2>1, <3>2 DEF MCCExchange
      <4>2. ItemListsTypeOK'
        BY <1>0, <2>a, <4>1, ExchangeType
      <4>3. UnregisterPackets({i}, "exchange", ypUp) \subseteq Packet
        BY <1>0, <1>a, UnregisterPacketsType DEF StopCalls
      <4>4. outgoing' \subseteq Packet
        BY <1>0, <2>1, <3>2, <4>3, SendType DEF MCCExchange
      <4>5. agent' \in [Ids -> Agent]
        BY <1>a, <2>1, <3>2 DEF MCCExchange
      <4>6. UNCHANGED << containerVars, msgs, ypVars, phase, userVars >>
        BY <2>1, <3>2 DEF MCCExchange
      <4> QED
        BY <2>0, <4>2, <4>4, <4>5, <4>6
        DEF TypeOK, AgentsTypeOK, YellowPagesTypeOK, containerVars, ypVars, userVars
    <3> QED
      BY <3>1, <3>2
  <2>2. CASE MCPExchange(i)
    <3>1. CASE Abort
      BY <2>0, <3>1
      DEF Abort, TypeOK, Phases, AgentsTypeOK, ItemListsTypeOK, YellowPagesTypeOK, agentVars,
          containerVars, netVars, nodeVars, ypVars, userVars
    <3>2. CASE ~Abort
      <4>1. /\ CanRemove(agent[i].node, agent[i].give)
            /\ Exchange(agent[i].node, agent[i].give, agent[i].want)
            /\ UNCHANGED << used, money >>
        BY <2>2, <3>2 DEF MCPExchange
      <4>2. ItemListsTypeOK'
        BY <1>0, <2>a, <4>1, ExchangeType
      <4>3. agent' \in [Ids -> Agent]
        BY <1>a, <2>2, <3>2 DEF MCPExchange
      <4>4. UNCHANGED << containerVars, netVars, ypVars, phase, userVars >>
        BY <2>2, <3>2 DEF MCPExchange
      <4> QED
        BY <2>0, <4>2, <4>3, <4>4
        DEF TypeOK, AgentsTypeOK, YellowPagesTypeOK, containerVars, netVars, ypVars, userVars
    <3> QED
      BY <3>1, <3>2
  <2>3. CASE AskPayment(i)
    BY <2>0, <2>3
    DEF AskPayment, TypeOK, AgentsTypeOK, ItemListsTypeOK, YellowPagesTypeOK, agentVars,
        containerVars, netVars, nodeVars, ypVars
  <2> QED
    BY <1>2, <2>1, <2>2, <2>3 DEF ExchangeAgent
<1>3. ASSUME NEW i \in Ids, PruneAgent(i) PROVE TypeOK'
  <2>1. UnregisterPackets({i}, "prune", ypUp) \subseteq Packet
    BY <1>0, <1>a, UnregisterPacketsType DEF StopCalls
  <2>2. outgoing' \subseteq Packet
    BY <1>0, <1>3, <2>1, SendType DEF PruneAgent
  <2>3. agent' \in [Ids -> Agent]
    BY <1>a, <1>3 DEF PruneAgent
  <2>4. /\ UNCHANGED << containerVars, msgs, nodeVars, ypVars, phase, userVars >>
        /\ todo' \subseteq todo
    BY <1>3 DEF PruneAgent, Visit
  <2> QED
    BY <2>2, <2>3, <2>4
    DEF TypeOK, AgentsTypeOK, ItemListsTypeOK, YellowPagesTypeOK, containerVars, nodeVars,
        ypVars, userVars
<1>4. ASSUME UpdateEnds \/ ExchangeEnds \/ PruneEnds PROVE TypeOK'
  BY <1>4
  DEF UpdateEnds, ExchangeEnds, PruneEnds, LoopEnds, TypeOK, Phases, AgentsTypeOK,
      ItemListsTypeOK, YellowPagesTypeOK, agentVars, containerVars, netVars, nodeVars, ypVars,
      userVars
<1> QED
  BY <1>1, <1>2, <1>3, <1>4 DEF Loops

LEMMA UserType ==
  ASSUME TypeOK, User
  PROVE  TypeOK'
<1>0. AgentsTypeOK /\ ItemListsTypeOK /\ YellowPagesTypeOK
  BY DEF TypeOK
<1>a. ASSUME NEW b \in Buttons, Click(b) PROVE clicks' \in [Buttons -> Nat]
  BY <1>a DEF Click, TypeOK
<1>b. /\ "CreateMCCs" \in Buttons /\ "Clear" \in Buttons /\ "SpawnMCP" \in Buttons
      /\ "Sell" \in Buttons /\ "Pay" \in Buttons
  BY DEF Buttons
<1>c. ASSUME GUIDone
      PROVE  phase' \in Phases /\ todo' \subseteq Ids /\ faults' \in [Failures -> Nat]
  BY <1>c DEF GUIDone, Phases, TypeOK
<1>1. CASE CreateMCCs
  <2> DEFINE new == {OfferId(o) : o \in Offers}
  <2>1. clicks' \in [Buttons -> Nat] /\ phase' \in Phases /\ todo' \subseteq Ids
        /\ faults' \in [Failures -> Nat]
    BY <1>a, <1>b, <1>c, <1>1 DEF CreateMCCs
  <2>2. items \in [Nodes -> [Items -> Nat]] /\ nextId \in Nat /\ 1 <= nextId
    BY <1>0, MaxAgentsAssumption DEF ItemListsTypeOK, AgentsTypeOK
  <2>3. Cardinality(Offers) \in Nat
    BY <2>2, OffersFinite, FS_CardinalityType
  <2>4. nextId + Cardinality(Offers) <= MaxAgents + 1
    BY <1>1 DEF CreateMCCs
  <2>5. nextId' \in 1..(MaxAgents + 1)
    BY <1>1, <2>2, <2>3, <2>4, MaxAgentsAssumption DEF CreateMCCs
  <2>6. new \subseteq Ids
    <3> SUFFICES ASSUME NEW o \in Offers PROVE OfferId(o) \in Ids
      OBVIOUS
    <3>1. OfferId(o) \in nextId..(nextId + Cardinality(Offers) - 1)
      BY <2>2, OfferIdType
    <3> QED
      BY <2>2, <2>3, <2>4, <3>1, MaxAgentsAssumption DEF Ids
  <2>7. ASSUME NEW i \in Ids
        PROVE  (IF i \in new THEN LET o == CHOOSE o \in Offers : OfferId(o) = i
                                  IN  NewMCC(o[1], o[2], o[3])
                             ELSE agent[i]) \in Agent
    <3>1. CASE i \in new
      <4>1. PICK o \in Offers : o = CHOOSE p \in Offers : OfferId(p) = i
        BY <3>1
      <4>2. o[1] \in Nodes /\ o[2] \in Items /\ o[3] \in Items
        BY OfferParts
      <4>3. NewMCC(o[1], o[2], o[3]) \in Agent
        BY <4>2, NewAgentType DEF NewMCC
      <4> QED
        BY <3>1, <4>1, <4>3
    <3>2. CASE i \notin new
      BY <1>0, <3>2 DEF AgentsTypeOK
    <3> QED
      BY <3>1, <3>2
  <2>8. agent' \in [Ids -> Agent]
    BY <1>1, <2>7 DEF CreateMCCs
  <2>9. /\ pending' = pending \cup new
        /\ UNCHANGED << present, netVars, nodeVars, ypVars, payer >>
    BY <1>1 DEF CreateMCCs
  <2> HIDE DEF new
  <2> QED
    BY <2>1, <2>5, <2>6, <2>8, <2>9
    DEF TypeOK, AgentsTypeOK, ItemListsTypeOK, YellowPagesTypeOK, netVars, nodeVars, ypVars
<1>2. CASE ClearAgents
  <2>1. clicks' \in [Buttons -> Nat] /\ phase' \in Phases /\ todo' \subseteq Ids
        /\ faults' \in [Failures -> Nat]
    BY <1>a, <1>b, <1>c, <1>2 DEF ClearAgents
  <2>2. agent' \in [Ids -> Agent]
    BY <1>0, <1>2, AfterStopType DEF ClearAgents, AgentsTypeOK
  <2>3. UnregisterPackets(present, "gui", ypUp) \subseteq Packet
    <3>1. present \subseteq Ids
      BY <1>0 DEF AgentsTypeOK
    <3> QED
      BY <1>0, <3>1, UnregisterPacketsType DEF StopCalls
  <2>4. outgoing' \subseteq Packet
    BY <1>0, <1>2, <2>3, SendType DEF ClearAgents
  <2>5. UNCHANGED << containerVars, msgs, nodeVars, ypVars, payer >>
    BY <1>2 DEF ClearAgents
  <2> QED
    BY <2>1, <2>2, <2>4, <2>5
    DEF TypeOK, AgentsTypeOK, ItemListsTypeOK, YellowPagesTypeOK, containerVars, nodeVars, ypVars
<1>3. ASSUME NEW n \in Nodes, NEW want \in Items, NEW give \in Items, SpawnMCP(n, want, give)
      PROVE  TypeOK'
  <2>1. clicks' \in [Buttons -> Nat] /\ phase' \in Phases /\ todo' \subseteq Ids
        /\ faults' \in [Failures -> Nat]
    BY <1>a, <1>b, <1>c, <1>3 DEF SpawnMCP
  <2>2. nextId \in Ids /\ NewMCP(n, want, give, 0) \in Agent
    <3>1. 0 \in 0..MaxSearchDepth
      BY DEF MaxSearchDepth
    <3> QED
      BY <1>3, <3>1, NewAgentsTypes DEF SpawnMCP, AddAgent
  <2>3. agent' \in [Ids -> Agent]
    BY <1>0, <1>3, <2>2 DEF SpawnMCP, AgentsTypeOK
  <2>4. present' \subseteq Ids /\ pending' \subseteq Ids /\ nextId' \in 1..(MaxAgents + 1)
    BY <1>0, <1>3, <2>2, MaxAgentsAssumption DEF SpawnMCP, AddAgent, AgentsTypeOK, Ids
  <2>5. UNCHANGED << netVars, nodeVars, ypVars, payer >>
    BY <1>3 DEF SpawnMCP
  <2> QED
    BY <2>1, <2>3, <2>4, <2>5
    DEF TypeOK, AgentsTypeOK, ItemListsTypeOK, YellowPagesTypeOK, netVars, nodeVars, ypVars
<1>4. ASSUME NEW n \in Nodes, NEW x \in Items, Sell(n, x)
      PROVE  TypeOK'
  <2>1. clicks' \in [Buttons -> Nat] /\ phase' \in Phases /\ todo' \subseteq Ids
        /\ faults' \in [Failures -> Nat]
    BY <1>a, <1>b, <1>c, <1>4 DEF Sell
  <2>2. ItemListsTypeOK'
    <3>1. items[n][x] - 1 \in Nat /\ numberOfItems[n] - 1 \in Int /\ money[n] + ITEMPRICE \in Nat
      BY <1>0, <1>4 DEF Sell, ItemListsTypeOK, ITEMPRICE
    <3> QED
      BY <1>0, <1>4, <3>1 DEF Sell, RemoveItem, ItemListsTypeOK
  <2>3. UNCHANGED << agentVars, ypVars, payer >>
    BY <1>4 DEF Sell
  <2> QED
    BY <2>1, <2>2, <2>3
    DEF TypeOK, AgentsTypeOK, YellowPagesTypeOK, agentVars, containerVars, netVars, ypVars
<1>5. ASSUME NEW yes \in BOOLEAN, Pay(yes)
      PROVE  TypeOK'
  <2>1. clicks' \in [Buttons -> Nat] /\ phase' \in Phases /\ todo' \subseteq Ids
        /\ faults' \in [Failures -> Nat]
    BY <1>a, <1>b, <1>c, <1>5 DEF Pay
  <2>2. payer \in Ids
    BY <1>5 DEF Pay, TypeOK
  <2>3. agent[payer].want \in Items
    BY <1>0, <2>2, AgentParts
  <2>4. ItemListsTypeOK'
    <3>1. CASE yes /\ money[agent[payer].node] >= ITEMPRICE
      <4>1. PICK n : n = agent[payer].node
        OBVIOUS
      <4>2. /\ AddItem(n, agent[payer].want)
            /\ money' = [money EXCEPT ![n] = @ - ITEMPRICE]
            /\ UNCHANGED used
        BY <1>5, <3>1, <4>1 DEF Pay
      <4>3. CASE n \in Nodes
        <5>1. items[n][agent[payer].want] + 1 \in Nat /\ numberOfItems[n] + 1 \in Int
          BY <1>0, <2>3, <4>3 DEF ItemListsTypeOK
        <5>2. money[n] - ITEMPRICE \in Nat
          BY <1>0, <3>1, <4>1, <4>3 DEF ItemListsTypeOK, ITEMPRICE
        <5> QED
          BY <1>0, <2>3, <4>2, <4>3, <5>1, <5>2 DEF AddItem, ItemListsTypeOK
      <4>4. CASE n \notin Nodes
        BY <1>0, <4>2, <4>4 DEF AddItem, ItemListsTypeOK
      <4> QED
        BY <4>3, <4>4
    <3>2. CASE ~(yes /\ money[agent[payer].node] >= ITEMPRICE)
      BY <1>0, <1>5, <3>2 DEF Pay, ItemListsTypeOK
    <3> QED
      BY <3>1, <3>2
  <2>5. agent' \in [Ids -> Agent]
    BY <1>0, <1>5, AfterStopType DEF Pay, AgentsTypeOK
  <2>6. UNCHANGED << containerVars, netVars, ypVars >> /\ payer' = Nobody
    BY <1>5 DEF Pay
  <2> QED
    BY <2>1, <2>4, <2>5, <2>6
    DEF TypeOK, AgentsTypeOK, YellowPagesTypeOK, containerVars, netVars, ypVars
<1>6. CASE PayFreed
  <2>1. clicks' \in [Buttons -> Nat]
    BY <1>a, <1>b, <1>6 DEF PayFreed
  <2> QED
    BY <1>6, <2>1
    DEF PayFreed, TypeOK, Phases, AgentsTypeOK, ItemListsTypeOK, YellowPagesTypeOK, agentVars,
        containerVars, netVars, nodeVars, ypVars
<1> QED
  BY <1>1, <1>2, <1>3, <1>4, <1>5, <1>6 DEF User

LEMMA NetworkType ==
  ASSUME TypeOK, Deliver \/ FrameEnds \/ YellowPages
  PROVE  TypeOK'
<1>0. AgentsTypeOK /\ ItemListsTypeOK /\ YellowPagesTypeOK
  BY DEF TypeOK
<1>1. CASE Deliver
  <2>1. PICK m \in {p \in msgs : p.type \notin ToYellowPages} :
          \/ m.dst \in Reachable /\ (ContributorReceive(m) \/ PetitionerReceive(m))
          \/ Discard(m)
    BY <1>1 DEF Deliver
  <2>2. m.dst \in Ids
    BY <1>0, <2>1, PacketParts DEF AgentsTypeOK
  <2>3. AgentsTypeOK' /\ ItemListsTypeOK'
    <3>1. CASE ContributorReceive(m)
      BY <1>0, <2>2, <3>1, ContributorReceiveType
    <3>2. CASE PetitionerReceive(m)
      BY <1>0, <2>2, <3>2, PetitionerReceiveType
    <3>3. CASE Discard(m)
      BY <1>0, <3>3
      DEF Discard, AgentsTypeOK, ItemListsTypeOK, containerVars, nodeVars
    <3> QED
      BY <2>1, <3>1, <3>2, <3>3
  <2>4. UNCHANGED << ypVars, frameVars, userVars >>
    BY <1>1 DEF Deliver
  <2> QED
    BY <2>3, <2>4 DEF TypeOK, YellowPagesTypeOK, ypVars, frameVars, userVars
<1>2. CASE FrameEnds
  BY <1>2
  DEF FrameEnds, SurvivingAgents, Reachable, TypeOK, Phases, AgentsTypeOK, ItemListsTypeOK,
      YellowPagesTypeOK, nodeVars, ypVars, userVars
<1>3. CASE YellowPages
  <2>1. msgs \subseteq Packet /\ outgoing \subseteq Packet
    BY <1>0 DEF AgentsTypeOK
  <2>2. YellowPagesTypeOK' /\ msgs' \subseteq Packet /\ outgoing' \subseteq Packet
    BY <1>0, <1>3, <2>1, YellowPagesStepType DEF YellowPages
  <2>3. UNCHANGED << agent, containerVars, nodeVars, frameVars, userVars >>
    BY <1>3 DEF YellowPages
  <2> QED
    BY <2>2, <2>3
    DEF TypeOK, AgentsTypeOK, ItemListsTypeOK, containerVars, nodeVars, frameVars, userVars
<1> QED
  BY <1>1, <1>2, <1>3

(* A process that is gone leaves the types intact.                         *)
LEMMA ClusterGoneType ==
  ASSUME TypeOK, ClusterGone, msgs' \subseteq Packet, faults' \in [Failures -> Nat]
  PROVE  TypeOK'
<1>1. agent' \in [Ids -> Agent]
  BY NoAgentType DEF ClusterGone
<1>2. nextId' \in 1..(MaxAgents + 1)
  BY MaxAgentsAssumption DEF ClusterGone
<1> QED
  BY <1>1, <1>2
  DEF ClusterGone, TypeOK, Phases, AgentsTypeOK, ItemListsTypeOK, YellowPagesTypeOK, nodeVars,
      ypVars

LEMMA FaultsType ==
  ASSUME TypeOK, YellowPagesStarts \/ StartCluster \/ Faults
  PROVE  TypeOK'
<1>0. AgentsTypeOK /\ ItemListsTypeOK /\ YellowPagesTypeOK
  BY DEF TypeOK
<1>a. ASSUME NEW f \in Failures, Fail(f) PROVE faults' \in [Failures -> Nat]
  BY <1>a DEF Fail, TypeOK
<1>b. /\ "CloseCluster" \in Failures /\ "KillCluster" \in Failures
      /\ "CloseYellowPages" \in Failures
  BY DEF Failures
<1>1. CASE YellowPagesStarts
  BY <1>1
  DEF YellowPagesStarts, YellowPagesStart, TypeOK, AgentsTypeOK, ItemListsTypeOK,
      YellowPagesTypeOK, containerVars, netVars, nodeVars, frameVars, userVars
<1>2. CASE StartCluster
  <2>1. PICK dist \in InitialItems : StartNodes(dist)
    BY <1>2 DEF StartCluster
  <2>2. ItemListsTypeOK'
    BY <2>1, InitialItemsAssumption, ItemsPerNodeAssumption
    DEF StartNodes, ItemListsTypeOK, StartMoney
  <2> QED
    BY <1>2, <2>2
    DEF StartCluster, TypeOK, Phases, AgentsTypeOK, YellowPagesTypeOK, containerVars, ypVars
<1>3. CASE YellowPagesEnds
  <2>1. faults' \in [Failures -> Nat]
    BY <1>a, <1>b, <1>3 DEF YellowPagesEnds
  <2>2. PICK unsent : YellowPagesStop(unsent)
    BY <1>3 DEF YellowPagesEnds
  <2>3. YellowPagesTypeOK' /\ msgs' \subseteq Packet /\ outgoing' \subseteq Packet
    BY <1>0, <2>2, EmptySeq DEF YellowPagesStop, YellowPagesTypeOK, AgentsTypeOK
  <2>4. UNCHANGED << agent, containerVars, nodeVars, frameVars, payer, clicks >>
    BY <1>3 DEF YellowPagesEnds
  <2> QED
    BY <2>1, <2>3, <2>4
    DEF TypeOK, AgentsTypeOK, ItemListsTypeOK, containerVars, nodeVars, frameVars
<1>4. CASE CloseCluster
  <2>1. UnregisterPackets(present, "close", ypUp) \subseteq Packet
    <3>1. present \subseteq Ids
      BY <1>0 DEF AgentsTypeOK
    <3> QED
      BY <1>0, <3>1, UnregisterPacketsType DEF StopCalls
  <2>2. msgs' \subseteq Packet
    BY <1>0, <1>4, <2>1 DEF CloseCluster, AgentsTypeOK
  <2>3. faults' \in [Failures -> Nat] /\ ClusterGone
    BY <1>a, <1>b, <1>4 DEF CloseCluster
  <2> QED
    BY <2>2, <2>3, ClusterGoneType
<1>5. CASE KillCluster
  <2>1. msgs' \subseteq Packet
    BY <1>0, <1>5 DEF KillCluster, AgentsTypeOK
  <2>2. faults' \in [Failures -> Nat] /\ ClusterGone
    BY <1>a, <1>b, <1>5 DEF KillCluster
  <2> QED
    BY <2>1, <2>2, ClusterGoneType
<1> QED
  BY <1>1, <1>2, <1>3, <1>4, <1>5 DEF Faults

LEMMA TypeStep == TypeOK /\ [Next]_vars => TypeOK'
<1> SUFFICES ASSUME TypeOK, [Next]_vars PROVE TypeOK'
  OBVIOUS
<1>1. CASE NoClick
  BY <1>1
  DEF NoClick, GUIDone, TypeOK, Phases, AgentsTypeOK, ItemListsTypeOK, YellowPagesTypeOK,
      agentVars, containerVars, netVars, nodeVars, ypVars
<1>2. CASE UNCHANGED vars
  BY <1>2
  DEF vars, TypeOK, AgentsTypeOK, ItemListsTypeOK, YellowPagesTypeOK, agentVars, containerVars,
      netVars, nodeVars, ypVars, frameVars, userVars
<1> QED
  BY <1>1, <1>2, LoopsType, UserType, NetworkType, FaultsType DEF Next

(* Every variable keeps its type: whatever the user clicks, whatever order *)
(* packets arrive in and whichever process ends, ids, addresses, items and *)
(* packets are what the code takes them for.                               *)
THEOREM TypeCorrect == Spec => []TypeOK
<1>1. TypeOK /\ [Next]_vars => TypeOK'
  BY TypeStep
<1> QED
  BY <1>1, TypeInit, PTL DEF Spec

-----------------------------------------------------------------------------
(* Wealth.                                                                 *)

LEMMA WealthKept ==
  ASSUME NodeWealth, UNCHANGED << money, numberOfItems >>
  PROVE  NodeWealth'
  BY DEF NodeWealth

LEMMA WealthStarts ==
  ASSUME money = [n \in Nodes |-> StartMoney], numberOfItems = [n \in Nodes |-> ItemsPerNode]
  PROVE  NodeWealth
  BY DEF NodeWealth

LEMMA WealthExchanged ==
  ASSUME NodeWealth, ItemListsTypeOK, NEW n, NEW out, NEW in, Exchange(n, out, in),
         UNCHANGED money
  PROVE  NodeWealth'
<1>1. numberOfItems' = numberOfItems
  <2>1. ASSUME n \in Nodes PROVE (numberOfItems[n] - 1) + 1 = numberOfItems[n]
    BY <2>1 DEF ItemListsTypeOK
  <2> QED
    BY <2>1 DEF Exchange, ItemListsTypeOK
<1> QED
  BY <1>1, WealthKept

LEMMA WealthStep ==
  ASSUME TypeOK, NodeWealth, [Next]_vars
  PROVE  NodeWealth'
<1>0. ItemListsTypeOK
  BY DEF TypeOK
<1>1. ASSUME NEW i \in Ids, ExchangeAgent(i) PROVE NodeWealth'
  <2>1. CASE Abort \/ AskPayment(i)
    BY <2>1, WealthKept DEF Abort, AskPayment, nodeVars
  <2>2. CASE ~Abort /\ (MCCExchange(i) \/ MCPExchange(i))
    <3>1. Exchange(agent[i].node, agent[i].give, agent[i].want) /\ UNCHANGED money
      BY <2>2 DEF MCCExchange, MCPExchange
    <3> QED
      BY <1>0, <3>1, WealthExchanged
  <2> QED
    BY <1>1, <2>1, <2>2 DEF ExchangeAgent
<1>2. ASSUME NEW n \in Nodes, NEW x \in Items, Sell(n, x) PROVE NodeWealth'
  <2> SUFFICES ASSUME NEW k \in Nodes
               PROVE  money'[k] + ITEMPRICE * numberOfItems'[k]
                        = StartMoney + ITEMPRICE * ItemsPerNode
    BY DEF NodeWealth
  <2>1. /\ money' = [money EXCEPT ![n] = @ + ITEMPRICE]
        /\ numberOfItems' = [numberOfItems EXCEPT ![n] = @ - 1]
    BY <1>2 DEF Sell, RemoveItem
  <2>2. /\ money[k] \in Nat /\ numberOfItems[k] \in Int
        /\ money[k] + ITEMPRICE * numberOfItems[k] = StartMoney + ITEMPRICE * ItemsPerNode
    BY <1>0 DEF ItemListsTypeOK, NodeWealth
  <2>3. CASE k = n
    <3>1. money'[k] = money[k] + ITEMPRICE /\ numberOfItems'[k] = numberOfItems[k] - 1
      BY <1>0, <2>1, <2>3 DEF ItemListsTypeOK
    <3> QED
      BY <2>2, <3>1, ItemsPerNodeAssumption DEF ITEMPRICE, StartMoney
  <2>4. CASE k # n
    BY <1>0, <2>1, <2>2, <2>4 DEF ItemListsTypeOK
  <2> QED
    BY <2>3, <2>4
<1>3. ASSUME NEW yes \in BOOLEAN, Pay(yes) PROVE NodeWealth'
  <2> DEFINE n == agent[payer].node
  <2>1. CASE yes /\ money[n] >= ITEMPRICE
    <3>1. /\ money' = [money EXCEPT ![n] = @ - ITEMPRICE]
          /\ numberOfItems' = [numberOfItems EXCEPT ![n] = @ + 1]
      BY <1>3, <2>1 DEF Pay, AddItem
    <3> SUFFICES ASSUME NEW k \in Nodes
                 PROVE  money'[k] + ITEMPRICE * numberOfItems'[k]
                          = StartMoney + ITEMPRICE * ItemsPerNode
      BY DEF NodeWealth
    <3>2. /\ money[k] \in Nat /\ numberOfItems[k] \in Int
          /\ money[k] + ITEMPRICE * numberOfItems[k] = StartMoney + ITEMPRICE * ItemsPerNode
      BY <1>0 DEF ItemListsTypeOK, NodeWealth
    <3> HIDE DEF n
    <3>3. CASE k = n
      <4>1. money'[k] = money[k] - ITEMPRICE /\ numberOfItems'[k] = numberOfItems[k] + 1
        BY <1>0, <3>1, <3>3 DEF ItemListsTypeOK
      <4> QED
        BY <3>2, <4>1, ItemsPerNodeAssumption DEF ITEMPRICE, StartMoney
    <3>4. CASE k # n
      BY <1>0, <3>1, <3>2, <3>4 DEF ItemListsTypeOK
    <3> QED
      BY <3>3, <3>4
  <2>2. CASE ~(yes /\ money[n] >= ITEMPRICE)
    BY <1>3, <2>2, WealthKept DEF Pay
  <2> QED
    BY <2>1, <2>2
<1>4. CASE StartCluster
  <2>1. money' = [n \in Nodes |-> StartMoney] /\ numberOfItems' = [n \in Nodes |-> ItemsPerNode]
    BY <1>4 DEF StartCluster, StartNodes
  <2> QED
    BY <2>1 DEF NodeWealth
<1>5. ASSUME NEW i \in Ids, UpdateAgent(i) \/ PruneAgent(i) PROVE NodeWealth'
  <2>1. UNCHANGED << money, numberOfItems >>
    BY <1>5
    DEF UpdateAgent, PruneAgent, ContributorUpdate, MCCRegister, MCCConclude, MCCDestroy,
        UCCStart, PetitionerUpdate, MCPQuery, MCPIterate, MCPConclude, UCPStart, UCPConclude,
        nodeVars
  <2> QED
    BY <2>1, WealthKept
<1>6. CASE Deliver
  <2>1. UNCHANGED << money, numberOfItems >>
    BY <1>6
    DEF Deliver, Discard, ContributorReceive, ReceiveRegisterAck, ReceiveNegotiationRequest,
        NegotiationRequestBusy, NegotiationRequestUsed, NegotiationRequestAccepted,
        ReceiveItemRequest, ReceiveConstraintAcceptance, PetitionerReceive, ReceiveMCCsForItem,
        ReceiveNegotiationResult, ReceiveConstraintRequest, nodeVars
  <2> QED
    BY <2>1, WealthKept
<1>7. CASE \/ UpdateEnds \/ ExchangeEnds \/ PruneEnds
           \/ NoClick \/ CreateMCCs \/ ClearAgents \/ PayFreed
           \/ \E n \in Nodes, want, give \in Items : SpawnMCP(n, want, give)
           \/ FrameEnds \/ YellowPages \/ YellowPagesStarts \/ Faults
           \/ UNCHANGED vars
  <2>1. UNCHANGED << money, numberOfItems >>
    BY <1>7
    DEF UpdateEnds, ExchangeEnds, PruneEnds, LoopEnds, NoClick, CreateMCCs, ClearAgents,
        SpawnMCP, PayFreed, FrameEnds, YellowPages, YellowPagesStarts, Faults, YellowPagesEnds,
        CloseCluster, KillCluster, ClusterGone, nodeVars, vars
  <2> QED
    BY <2>1, WealthKept
<1> QED
  BY <1>1, <1>2, <1>3, <1>4, <1>5, <1>6, <1>7 DEF Next, Loops, User

(* No exchange, sale or purchase makes or destroys wealth, even those the  *)
(* code makes for an MCC that never struck a bargain: a node's money and   *)
(* the price of all its items add up to what it started with.              *)
THEOREM WealthIsKept == Spec => []NodeWealth
<1>1. Init => NodeWealth
  BY WealthStarts DEF Init, NodesInit
<1>2. TypeOK /\ NodeWealth /\ [Next]_vars => NodeWealth'
  BY WealthStep
<1> QED
  BY <1>1, <1>2, TypeCorrect, PTL DEF Spec

-----------------------------------------------------------------------------
(* What an agent is for does not change while it lives.                    *)

SameIdentity(a, b) ==
  /\ a.kind = b.kind /\ a.node = b.node /\ a.location = b.location
  /\ a.give = b.give /\ a.want = b.want

(* Agent j is new in this step.                                            *)
Created(j) ==
  /\ agent[j].kind = "none"
  /\ agent'[j].state = 0
  /\ ~agent'[j].success
  /\ agent'[j].kind = "MCC" => agent'[j].node \in Nodes

(* No agent of the process is another one after the step.                  *)
IdentitiesKept == \A j \in Ids : SameIdentity(agent'[j], agent[j]) \/ Created(j)

(* The updates of an agent keep what it is for.                            *)
LEMMA AgentFields ==
  ASSUME NEW a \in Agent
  PROVE  /\ SameIdentity(a, a)
         /\ SameIdentity([a EXCEPT !.valid = FALSE], a)
         /\ [a EXCEPT !.valid = FALSE].state = a.state
         /\ [a EXCEPT !.valid = FALSE].success = a.success
         /\ \A s : /\ SameIdentity([a EXCEPT !.state = s], a)
                   /\ [a EXCEPT !.state = s].state = s
                   /\ [a EXCEPT !.state = s].success = a.success
         /\ \A s, b : /\ SameIdentity([a EXCEPT !.success = b, !.state = s], a)
                      /\ [a EXCEPT !.success = b, !.state = s].state = s
                      /\ [a EXCEPT !.success = b, !.state = s].success = b
         /\ \A c : /\ SameIdentity([a EXCEPT !.child = c], a)
                   /\ [a EXCEPT !.child = c].state = a.state
                   /\ [a EXCEPT !.child = c].success = a.success
         /\ \A s, r, k :
              /\ SameIdentity([a EXCEPT !.registers = r, !.index = k, !.state = s], a)
              /\ [a EXCEPT !.registers = r, !.index = k, !.state = s].success = a.success
         /\ SameIdentity(NextContributor(a), a)
         /\ NextContributor(a).success = a.success
         /\ SameIdentity(SearchingDeeper(a), a)
         /\ SearchingDeeper(a).state = UCP_IDLE
         /\ SearchingDeeper(a).success = a.success
<1>1. /\ SameIdentity(a, a)
      /\ SameIdentity([a EXCEPT !.valid = FALSE], a)
      /\ [a EXCEPT !.valid = FALSE].state = a.state
      /\ [a EXCEPT !.valid = FALSE].success = a.success
  BY DEF Agent, SameIdentity
<1>2. ASSUME NEW s
      PROVE  /\ SameIdentity([a EXCEPT !.state = s], a)
             /\ [a EXCEPT !.state = s].state = s
             /\ [a EXCEPT !.state = s].success = a.success
  BY DEF Agent, SameIdentity
<1>3. ASSUME NEW s, NEW b
      PROVE  /\ SameIdentity([a EXCEPT !.success = b, !.state = s], a)
             /\ [a EXCEPT !.success = b, !.state = s].state = s
             /\ [a EXCEPT !.success = b, !.state = s].success = b
  BY DEF Agent, SameIdentity
<1>4. ASSUME NEW c
      PROVE  /\ SameIdentity([a EXCEPT !.child = c], a)
             /\ [a EXCEPT !.child = c].state = a.state
             /\ [a EXCEPT !.child = c].success = a.success
  BY DEF Agent, SameIdentity
<1>5. ASSUME NEW s, NEW r, NEW k
      PROVE  /\ SameIdentity([a EXCEPT !.registers = r, !.index = k, !.state = s], a)
             /\ [a EXCEPT !.registers = r, !.index = k, !.state = s].success = a.success
  BY DEF Agent, SameIdentity
<1>6. /\ SameIdentity(NextContributor(a), a)
      /\ NextContributor(a).success = a.success
  BY DEF Agent, SameIdentity, NextContributor
<1>7. /\ SameIdentity(SearchingDeeper(a), a)
      /\ SearchingDeeper(a).state = UCP_IDLE
      /\ SearchingDeeper(a).success = a.success
  BY DEF Agent, SameIdentity, SearchingDeeper
<1> QED
  BY <1>1, <1>2, <1>3, <1>4, <1>5, <1>6, <1>7

(* Nobody is created, and nobody becomes another agent.                    *)
AllSame == \A j \in Ids : SameIdentity(agent'[j], agent[j])

LEMMA SameAgents ==
  ASSUME AgentsTypeOK, agent' = agent
  PROVE  AllSame
  BY AgentParts, AgentFields DEF AllSame

LEMMA OneUpdated ==
  ASSUME AgentsTypeOK, NEW i \in Ids, NEW e, SameIdentity(e, agent[i]),
         agent' = [agent EXCEPT ![i] = e]
  PROVE  AllSame
<1> SUFFICES ASSUME NEW j \in Ids PROVE SameIdentity(agent'[j], agent[j])
  BY DEF AllSame
<1>1. SameIdentity(agent[j], agent[j])
  BY AgentParts, AgentFields
<1> QED
  BY <1>1 DEF AgentsTypeOK

LEMMA StoppedSame ==
  ASSUME AgentsTypeOK, NEW S, NEW j \in Ids
  PROVE  SameIdentity(AfterStop(S)[j], agent[j])
  BY AfterStopKeeps DEF SameIdentity, AgentsTypeOK

LEMMA SomeStopped ==
  ASSUME AgentsTypeOK, NEW S, agent' = AfterStop(S)
  PROVE  AllSame
  BY StoppedSame DEF AllSame

LEMMA KeptBySame ==
  ASSUME AgentsTypeOK, FreshIds, AllSame, nextId' = nextId
  PROVE  IdentitiesKept /\ FreshIds'
<1>1. IdentitiesKept
  BY DEF AllSame, IdentitiesKept
<1>2. FreshIds'
  BY DEF FreshIds, AllSame, SameIdentity
<1> QED
  BY <1>1, <1>2

LEMMA KeptByCreateChild ==
  ASSUME AgentsTypeOK, FreshIds, NEW i \in Ids, NEW parent \in Agent, NEW child,
         SameIdentity(parent, agent[i]), agent[i].kind # "none",
         child.kind # "MCC", child.state = 0, ~child.success,
         CreateChild(i, parent, child)
  PROVE  IdentitiesKept /\ FreshIds'
<1>1. nextId \in Ids /\ agent[nextId].kind = "none" /\ nextId \in Nat
  BY MaxAgentsAssumption DEF CreateChild, AddAgent, FreshIds, AgentsTypeOK, Ids
<1>2. nextId # i
  BY <1>1
<1>3. ASSUME NEW j \in Ids
      PROVE  IF j = nextId THEN agent'[j] = child
             ELSE SameIdentity(agent'[j], agent[j])
  <2>1. CASE j = nextId
    BY <2>1 DEF CreateChild
  <2>2. CASE j = i
    <3>1. agent'[j] = [parent EXCEPT !.child = nextId]
      BY <1>2, <2>2 DEF CreateChild
    <3>2. SameIdentity(agent'[j], parent)
      <4>1. SameIdentity([parent EXCEPT !.child = nextId], parent)
        BY AgentFields
      <4> QED
        BY <3>1, <4>1
    <3> QED
      BY <1>2, <2>2, <3>2 DEF SameIdentity
  <2>3. CASE j # nextId /\ j # i
    <3>1. agent'[j] = agent[j]
      BY <2>3 DEF CreateChild
    <3> QED
      BY <2>3, <3>1 DEF SameIdentity
  <2> QED
    BY <2>1, <2>2, <2>3
<1>4. IdentitiesKept
  BY <1>1, <1>3 DEF IdentitiesKept, Created
<1>5. FreshIds'
  <2> SUFFICES ASSUME NEW j \in Ids, j >= nextId' PROVE agent'[j].kind = "none"
    BY DEF FreshIds
  <2>1. j >= nextId /\ j # nextId
    <3>1. nextId' = nextId + 1 /\ j \in Nat
      BY MaxAgentsAssumption DEF CreateChild, AddAgent, Ids
    <3> QED
      BY <1>1, <3>1
  <2> QED
    BY <1>3, <2>1 DEF FreshIds, SameIdentity
<1> QED
  BY <1>4, <1>5

LEMMA KeptByContributorUpdate ==
  ASSUME AgentsTypeOK, NEW i \in Ids, ContributorUpdate(i)
  PROVE  AllSame
<1>0. agent[i] \in Agent /\ agent[i].child \in Ids \cup {Nobody}
  BY AgentParts
<1>1. CASE MCCRegister(i)
  <2>1. PICK s : agent' = [agent EXCEPT ![i] = [@ EXCEPT !.state = s]]
    BY <1>1 DEF MCCRegister
  <2>2. SameIdentity([agent[i] EXCEPT !.state = s], agent[i])
    BY <1>0, AgentFields
  <2> QED
    BY <2>1, <2>2, OneUpdated
<1>2. CASE MCCConclude(i)
  <2>1. CASE agent[agent[i].child].success
    <3>1. agent' = [agent EXCEPT ![i] = [@ EXCEPT !.state = MCC_FINISHED]]
      BY <1>2, <2>1 DEF MCCConclude
    <3>2. SameIdentity([agent[i] EXCEPT !.state = MCC_FINISHED], agent[i])
      BY <1>0, AgentFields
    <3> QED
      BY <3>1, <3>2, OneUpdated
  <2>2. CASE ~agent[agent[i].child].success
    <3> DEFINE ucc == agent[i].child
    <3>1. ucc \in Ids
      BY <1>0, <1>2 DEF MCCConclude, UCCHasResult
    <3>2. agent' = [[agent EXCEPT ![ucc].valid = FALSE] EXCEPT ![i].state = MCC_IDLE]
      BY <1>2, <2>2 DEF MCCConclude
    <3> HIDE DEF ucc
    <3> SUFFICES ASSUME NEW j \in Ids PROVE SameIdentity(agent'[j], agent[j])
      BY DEF AllSame
    <3>3. PICK f \in [Ids -> Agent] : f = [agent EXCEPT ![ucc].valid = FALSE]
      <4>1. agent \in [Ids -> Agent] /\ agent[ucc] \in Agent
        BY <3>1, AgentParts
      <4>2. [agent[ucc] EXCEPT !.valid = FALSE] \in Agent
        BY <4>1, AgentWith
      <4> QED
        BY <3>1, <4>1, <4>2
    <3>4. SameIdentity(f[j], agent[j])
      <4>1. agent[j] \in Agent /\ agent \in [Ids -> Agent]
        BY AgentParts
      <4>2. f[j] = agent[j] \/ f[j] = [agent[j] EXCEPT !.valid = FALSE]
        BY <3>1, <3>3, <4>1
      <4> QED
        BY <4>1, <4>2, AgentFields, ZenonT(40)
    <3>5. SameIdentity(agent'[j], f[j])
      <4>1. f[j] \in Agent
        OBVIOUS
      <4>2. SameIdentity(f[j], f[j]) /\ SameIdentity([f[j] EXCEPT !.state = MCC_IDLE], f[j])
        BY <4>1, AgentFields
      <4>3. agent'[j] = f[j] \/ agent'[j] = [f[j] EXCEPT !.state = MCC_IDLE]
        BY <3>2, <3>3
      <4> QED
        BY <4>2, <4>3
    <3> QED
      BY <3>4, <3>5 DEF SameIdentity
  <2> QED
    BY <2>1, <2>2
<1>3. CASE MCCDestroy(i)
  <2>1. agent' = [agent EXCEPT ![i] = [@ EXCEPT !.valid = FALSE]]
    BY <1>3 DEF MCCDestroy
  <2>2. SameIdentity([agent[i] EXCEPT !.valid = FALSE], agent[i])
    BY <1>0, AgentFields
  <2> QED
    BY <2>1, <2>2, OneUpdated
<1>4. CASE UCCStart(i)
  <2>1. agent' = [agent EXCEPT ![i] = [@ EXCEPT !.state = UCC_WAITING_REQUEST]]
    BY <1>4 DEF UCCStart
  <2>2. SameIdentity([agent[i] EXCEPT !.state = UCC_WAITING_REQUEST], agent[i])
    BY <1>0, AgentFields
  <2> QED
    BY <2>1, <2>2, OneUpdated
<1> QED
  BY <1>1, <1>2, <1>3, <1>4 DEF ContributorUpdate

LEMMA KeptByPetitionerUpdate ==
  ASSUME AgentsTypeOK, NEW i \in Ids, PetitionerUpdate(i)
  PROVE  AllSame
<1>0. agent \in [Ids -> Agent] /\ agent[i] \in Agent
  BY AgentParts
<1>1. CASE MCPQuery(i) \/ MCPIterate(i) \/ UCPStart(i)
  <2>1. PICK s : agent' = [agent EXCEPT ![i] = [@ EXCEPT !.state = s]]
    BY <1>1 DEF MCPQuery, MCPIterate, UCPStart
  <2>2. SameIdentity([agent[i] EXCEPT !.state = s], agent[i])
    BY <1>0, AgentFields
  <2> QED
    BY <2>1, <2>2, OneUpdated
<1>2. CASE UCPConclude(i) \/ (MCPConclude(i) /\ agent[agent[i].child].success)
  <2>1. PICK b, s : agent' = [agent EXCEPT ![i] = [@ EXCEPT !.success = b, !.state = s]]
    BY <1>2 DEF UCPConclude, MCPConclude
  <2>2. SameIdentity([agent[i] EXCEPT !.success = b, !.state = s], agent[i])
    BY <1>0, AgentFields
  <2> QED
    BY <2>1, <2>2, OneUpdated
<1>3. CASE MCPConclude(i) /\ ~agent[agent[i].child].success
  <2>1. PICK f \in [Ids -> Agent] : f = AfterStop({agent[i].child})
    BY <1>0, AfterStopType
  <2>2. agent' = [f EXCEPT ![i] = NextContributor(@)]
    BY <1>3, <2>1 DEF MCPConclude
  <2> SUFFICES ASSUME NEW j \in Ids PROVE SameIdentity(agent'[j], agent[j])
    BY DEF AllSame
  <2>3. SameIdentity(f[j], agent[j])
    BY <2>1, StoppedSame
  <2>4. SameIdentity(agent'[j], f[j])
    <3>1. agent'[j] = f[j] \/ agent'[j] = NextContributor(f[j])
      BY <2>2
    <3> QED
      BY <3>1, AgentFields
  <2> QED
    BY <2>3, <2>4 DEF SameIdentity
<1> QED
  BY <1>1, <1>2, <1>3 DEF PetitionerUpdate

LEMMA KeptByContributorReceive ==
  ASSUME AgentsTypeOK, FreshIds, NEW m \in msgs, m.dst \in Ids, ContributorReceive(m)
  PROVE  IdentitiesKept /\ FreshIds'
<1>0. agent \in [Ids -> Agent] /\ agent[m.dst] \in Agent
  BY AgentParts
<1>1. CASE ReceiveRegisterAck(m) \/ ReceiveItemRequest(m)
  <2>1. PICK s : agent' = [agent EXCEPT ![m.dst] = [@ EXCEPT !.state = s]]
    BY <1>1 DEF ReceiveRegisterAck, ReceiveItemRequest
  <2>2. SameIdentity([agent[m.dst] EXCEPT !.state = s], agent[m.dst])
    BY <1>0, AgentFields
  <2>3. AllSame
    BY <2>1, <2>2, OneUpdated
  <2>4. nextId' = nextId
    BY <1>1 DEF ReceiveRegisterAck, ReceiveItemRequest, containerVars
  <2> QED
    BY <2>3, <2>4, KeptBySame
<1>2. CASE ReceiveConstraintAcceptance(m)
  <2>1. agent' = [agent EXCEPT ![m.dst] =
                    [@ EXCEPT !.success = m.accepted, !.state = UCC_FINISHED]]
    BY <1>2 DEF ReceiveConstraintAcceptance
  <2>2. SameIdentity([agent[m.dst] EXCEPT !.success = m.accepted, !.state = UCC_FINISHED],
                     agent[m.dst])
    BY <1>0, AgentFields
  <2>3. AllSame
    BY <2>1, <2>2, OneUpdated
  <2>4. nextId' = nextId
    BY <1>2 DEF ReceiveConstraintAcceptance, containerVars
  <2> QED
    BY <2>3, <2>4, KeptBySame
<1>3. CASE ReceiveNegotiationRequest(m)
  <2>1. CASE NegotiationRequestBusy(m) \/ NegotiationRequestUsed(m)
    <3>1. agent' = agent /\ nextId' = nextId
      BY <2>1 DEF NegotiationRequestBusy, NegotiationRequestUsed, containerVars
    <3> QED
      BY <3>1, SameAgents, KeptBySame
  <2>2. CASE NegotiationRequestAccepted(m)
    <3> DEFINE mcc == agent[m.dst]
               parent == [mcc EXCEPT !.state = MCC_NEGOCIATING]
               child == NewUCC(mcc.node, mcc.give, mcc.want)
    <3>1. parent \in Agent
      <4>1. MCC_NEGOCIATING \in 0..5
        BY DEF MCC_NEGOCIATING
      <4> QED
        BY <1>0, <4>1, AgentWith
    <3>2. SameIdentity(parent, agent[m.dst])
      BY <1>0, AgentFields
    <3>3. agent[m.dst].kind # "none"
      BY <1>3 DEF ReceiveNegotiationRequest
    <3>4. child.kind # "MCC" /\ child.state = 0 /\ ~child.success
      BY DEF NewUCC, NewAgent
    <3>5. CreateChild(m.dst, parent, child)
      BY <2>2 DEF NegotiationRequestAccepted
    <3> HIDE DEF parent, child
    <3> QED
      BY <3>1, <3>2, <3>3, <3>4, <3>5, KeptByCreateChild
  <2> QED
    BY <1>3, <2>1, <2>2 DEF ReceiveNegotiationRequest
<1> QED
  BY <1>1, <1>2, <1>3 DEF ContributorReceive

LEMMA KeptByPetitionerReceive ==
  ASSUME AgentsTypeOK, FreshIds, NEW m \in msgs, m.dst \in Ids, PetitionerReceive(m)
  PROVE  IdentitiesKept /\ FreshIds'
<1>0. /\ agent \in [Ids -> Agent] /\ agent[m.dst] \in Agent
      /\ agent[m.dst].depth \in 0..MaxSearchDepth
  BY AgentParts
<1>1. CASE ReceiveMCCsForItem(m)
  <2>1. PICK s, r, k : agent' = [agent EXCEPT ![m.dst] =
                                  [@ EXCEPT !.registers = r, !.index = k, !.state = s]]
    BY <1>1 DEF ReceiveMCCsForItem
  <2>2. SameIdentity([agent[m.dst] EXCEPT !.registers = r, !.index = k, !.state = s],
                     agent[m.dst])
    BY <1>0, AgentFields
  <2>3. AllSame
    BY <2>1, <2>2, OneUpdated
  <2>4. nextId' = nextId
    BY <1>1 DEF ReceiveMCCsForItem, containerVars
  <2> QED
    BY <2>3, <2>4, KeptBySame
<1>2. CASE ReceiveNegotiationResult(m) /\ ~m.available
  <2>1. agent' = [agent EXCEPT ![m.dst] = NextContributor(@)] /\ nextId' = nextId
    BY <1>2 DEF ReceiveNegotiationResult, containerVars
  <2>2. SameIdentity(NextContributor(agent[m.dst]), agent[m.dst])
    BY <1>0, AgentFields
  <2>3. AllSame
    BY <2>1, <2>2, OneUpdated
  <2> QED
    BY <2>1, <2>3, KeptBySame
<1>3. CASE ReceiveNegotiationResult(m) /\ m.available
  <2> DEFINE mcp == agent[m.dst]
             parent == [mcp EXCEPT !.state = MCP_NEGOCIATING_UCP_RES]
             child == NewUCP(mcp.want, mcp.give, m.location, mcp.depth)
  <2>1. parent \in Agent
    <3>1. MCP_NEGOCIATING_UCP_RES \in 0..5
      BY DEF MCP_NEGOCIATING_UCP_RES
    <3> QED
      BY <1>0, <3>1, AgentWith
  <2>2. SameIdentity(parent, agent[m.dst])
    BY <1>0, AgentFields
  <2>3. agent[m.dst].kind # "none"
    BY <1>3 DEF ReceiveNegotiationResult, Is
  <2>4. child.kind # "MCC" /\ child.state = 0 /\ ~child.success
    BY DEF NewUCP, NewAgent
  <2>5. CreateChild(m.dst, parent, child)
    BY <1>3 DEF ReceiveNegotiationResult
  <2> HIDE DEF parent, child
  <2> QED
    BY <2>1, <2>2, <2>3, <2>4, <2>5, KeptByCreateChild
<1>4. CASE ReceiveConstraintRequest(m)
  <2>0. agent[m.dst].kind # "none"
    BY <1>4 DEF ReceiveConstraintRequest, Is
  <2>1. CASE ConstraintMet(m)
    <3>1. /\ agent' = [agent EXCEPT ![m.dst] =
                         [@ EXCEPT !.success = TRUE, !.state = UCP_FINISHED]]
          /\ nextId' = nextId
      BY <2>1 DEF ConstraintMet, containerVars
    <3>2. SameIdentity([agent[m.dst] EXCEPT !.success = TRUE, !.state = UCP_FINISHED],
                       agent[m.dst])
      BY <1>0, AgentFields
    <3>3. AllSame
      BY <3>1, <3>2, OneUpdated
    <3> QED
      BY <3>1, <3>3, KeptBySame
  <2>2. CASE ConstraintTooDeep(m)
    <3>1. /\ agent' = [agent EXCEPT ![m.dst] = [@ EXCEPT !.state = UCP_FINISHED]]
          /\ nextId' = nextId
      BY <2>2 DEF ConstraintTooDeep, containerVars
    <3>2. SameIdentity([agent[m.dst] EXCEPT !.state = UCP_FINISHED], agent[m.dst])
      BY <1>0, AgentFields
    <3>3. AllSame
      BY <3>1, <3>2, OneUpdated
    <3> QED
      BY <3>1, <3>3, KeptBySame
  <2>3. CASE agent[m.dst].depth # MaxSearchDepth /\ ConstraintSearched(m)
    <3> DEFINE ucp == agent[m.dst]
               parent == SearchingDeeper(ucp)
               child == NewMCP(ScratchNode, m.item, ucp.give, ucp.depth + 1)
    <3>1. parent \in Agent
      BY <1>0, <2>3, SearchingDeeperType
    <3>2. SameIdentity(parent, agent[m.dst])
      BY <1>0, AgentFields
    <3>3. child.kind # "MCC" /\ child.state = 0 /\ ~child.success
      BY DEF NewMCP, NewAgent
    <3>4. CreateChild(m.dst, parent, child)
      BY <2>3 DEF ConstraintSearched
    <3> HIDE DEF parent, child
    <3> QED
      BY <2>0, <3>1, <3>2, <3>3, <3>4, KeptByCreateChild
  <2> QED
    BY <1>4, <2>1, <2>2, <2>3 DEF ReceiveConstraintRequest
<1> QED
  BY <1>1, <1>2, <1>3, <1>4 DEF PetitionerReceive

LEMMA KeptByUser ==
  ASSUME TypeOK, FreshIds, User
  PROVE  IdentitiesKept /\ FreshIds'
<1>0. AgentsTypeOK /\ agent \in [Ids -> Agent] /\ items \in [Nodes -> [Items -> Nat]]
  BY DEF TypeOK, AgentsTypeOK, ItemListsTypeOK
<1>a. nextId \in Nat /\ 1 <= nextId
  BY <1>0, MaxAgentsAssumption DEF AgentsTypeOK
<1>1. CASE CreateMCCs
  <2> DEFINE new == {OfferId(o) : o \in Offers}
  <2>1. /\ agent' = [i \in Ids |->
                       IF i \in new
                       THEN LET o == CHOOSE o \in Offers : OfferId(o) = i
                            IN  NewMCC(o[1], o[2], o[3])
                       ELSE agent[i]]
        /\ nextId' = nextId + Cardinality(Offers)
    BY <1>1 DEF CreateMCCs
  <2>2. ASSUME NEW i \in new
        PROVE  i \in nextId..(nextId' - 1)
    <3>1. PICK o \in Offers : i = OfferId(o)
      OBVIOUS
    <3> QED
      BY <1>0, <1>a, <2>1, <3>1, OfferIdType
  <2>3. Cardinality(Offers) \in Nat
    BY <1>0, OffersFinite, FS_CardinalityType
  <2>4. ASSUME NEW j \in Ids, j \in new PROVE Created(j)
    <3>1. PICK o \in Offers : o = CHOOSE p \in Offers : OfferId(p) = j
      BY <2>4
    <3>2. agent'[j] = NewMCC(o[1], o[2], o[3])
      BY <2>1, <2>4, <3>1
    <3>3. o[1] \in Nodes
      BY OfferParts
    <3>4. agent[j].kind = "none"
      BY <1>a, <2>2, <2>4 DEF FreshIds
    <3> QED
      BY <3>2, <3>3, <3>4 DEF Created, NewMCC, NewAgent
  <2>5. ASSUME NEW j \in Ids, j \notin new PROVE agent'[j] = agent[j]
    BY <2>1, <2>5
  <2> HIDE DEF new
  <2>6. IdentitiesKept
    BY <2>4, <2>5 DEF IdentitiesKept, SameIdentity
  <2>7. FreshIds'
    <3> SUFFICES ASSUME NEW j \in Ids, j >= nextId' PROVE agent'[j].kind = "none"
      BY DEF FreshIds
    <3>1. j \in Nat /\ j \notin new /\ j >= nextId
      BY <1>a, <2>1, <2>2, <2>3, IdsArePositive
    <3> QED
      BY <2>5, <3>1 DEF FreshIds
  <2> QED
    BY <2>6, <2>7
<1>2. CASE ClearAgents \/ \E yes \in BOOLEAN : Pay(yes)
  <2>1. nextId' = nextId /\ \E S : agent' = AfterStop(S)
    BY <1>2 DEF ClearAgents, Pay, containerVars
  <2> QED
    BY <1>0, <2>1, SomeStopped, KeptBySame
<1>3. ASSUME NEW n \in Nodes, NEW want \in Items, NEW give \in Items, SpawnMCP(n, want, give)
      PROVE  IdentitiesKept /\ FreshIds'
  <2>1. /\ agent' = [agent EXCEPT ![nextId] = NewMCP(n, want, give, 0)]
        /\ nextId \in Ids /\ nextId' = nextId + 1
    BY <1>3 DEF SpawnMCP, AddAgent
  <2>2. ASSUME NEW j \in Ids, j # nextId PROVE agent'[j] = agent[j]
    BY <1>0, <2>1, <2>2
  <2>3. Created(nextId)
    <3>1. agent'[nextId] = NewMCP(n, want, give, 0)
      BY <1>0, <2>1
    <3>2. agent[nextId].kind = "none"
      BY <1>a, <2>1 DEF FreshIds
    <3>3. /\ NewMCP(n, want, give, 0).kind = "MCP" /\ NewMCP(n, want, give, 0).state = 0
          /\ ~NewMCP(n, want, give, 0).success
      BY DEF NewMCP, NewAgent
    <3> QED
      BY <3>1, <3>2, <3>3 DEF Created
  <2>4. IdentitiesKept
    BY <2>2, <2>3 DEF IdentitiesKept, SameIdentity
  <2>5. FreshIds'
    <3> SUFFICES ASSUME NEW j \in Ids, j >= nextId' PROVE agent'[j].kind = "none"
      BY DEF FreshIds
    <3>1. j \in Nat /\ j # nextId /\ j >= nextId
      BY <1>a, <2>1, IdsArePositive
    <3> QED
      BY <2>2, <3>1 DEF FreshIds
  <2> QED
    BY <2>4, <2>5
<1>4. CASE PayFreed \/ \E n \in Nodes, x \in Items : Sell(n, x)
  <2>1. agent' = agent /\ nextId' = nextId
    BY <1>4 DEF PayFreed, Sell, agentVars, containerVars
  <2> QED
    BY <1>0, <2>1, SameAgents, KeptBySame
<1> QED
  BY <1>1, <1>2, <1>3, <1>4 DEF User

(* No step but the end of the process makes an agent another one, and the  *)
(* counter of ids stays ahead of the agents.                               *)
LEMMA IdentityStep ==
  ASSUME TypeOK, FreshIds, [Next]_vars, ~CloseCluster, ~KillCluster
  PROVE  IdentitiesKept /\ FreshIds'
<1>0. AgentsTypeOK
  BY DEF TypeOK
<1>1. ASSUME NEW i \in Ids, UpdateAgent(i) PROVE IdentitiesKept /\ FreshIds'
  <2>1. AllSame
    BY <1>0, <1>1, KeptByContributorUpdate, KeptByPetitionerUpdate DEF UpdateAgent
  <2>2. nextId' = nextId
    BY <1>1
    DEF UpdateAgent, ContributorUpdate, MCCRegister, MCCConclude, MCCDestroy, UCCStart,
        PetitionerUpdate, MCPQuery, MCPIterate, MCPConclude, UCPStart, UCPConclude,
        containerVars
  <2> QED
    BY <1>0, <2>1, <2>2, KeptBySame
<1>2. ASSUME NEW i \in Ids, ExchangeAgent(i) \/ PruneAgent(i) PROVE IdentitiesKept /\ FreshIds'
  <2>1. nextId' = nextId /\ (agent' = agent \/ \E S : agent' = AfterStop(S))
    BY <1>2
    DEF ExchangeAgent, MCCExchange, MCPExchange, AskPayment, Abort, PruneAgent, agentVars,
        containerVars
  <2> QED
    BY <1>0, <2>1, SomeStopped, SameAgents, KeptBySame
<1>3. CASE Deliver
  <2>1. PICK m \in {p \in msgs : p.type \notin ToYellowPages} :
          \/ m.dst \in Reachable /\ (ContributorReceive(m) \/ PetitionerReceive(m))
          \/ Discard(m)
    BY <1>3 DEF Deliver
  <2>2. m.dst \in Ids
    BY <1>0, <2>1, PacketParts DEF AgentsTypeOK
  <2>3. CASE Discard(m)
    <3>1. agent' = agent /\ nextId' = nextId
      BY <2>3 DEF Discard, containerVars
    <3> QED
      BY <1>0, <3>1, SameAgents, KeptBySame
  <2> QED
    BY <1>0, <2>1, <2>2, <2>3, KeptByContributorReceive, KeptByPetitionerReceive
<1>4. CASE \/ UpdateEnds \/ ExchangeEnds \/ PruneEnds \/ NoClick \/ FrameEnds \/ YellowPages
           \/ YellowPagesEnds \/ YellowPagesStarts \/ StartCluster \/ UNCHANGED vars
  <2>1. agent' = agent /\ nextId' = nextId
    BY <1>4
    DEF UpdateEnds, ExchangeEnds, PruneEnds, LoopEnds, NoClick, FrameEnds, YellowPages,
        YellowPagesEnds, YellowPagesStarts, StartCluster, vars, agentVars, containerVars
  <2> QED
    BY <1>0, <2>1, SameAgents, KeptBySame
<1> QED
  BY <1>1, <1>2, <1>3, <1>4, KeptByUser DEF Next, Loops, Faults

-----------------------------------------------------------------------------
(* Bargains.                                                               *)

(* A UCP that concluded with success accepted UCC c.                       *)
AcceptedBy(u, c) ==
  /\ agent[u].kind = "UCP" /\ agent[u].success
  /\ agent[u].location = c
  /\ agent[u].give = agent[c].want

(* What a step may do to the verdict of agent j: a UCP never takes its     *)
(* success back, and a UCC succeeds only when it was accepted.             *)
SuccessKept(j) ==
  /\ agent[j].kind = "UCP" /\ agent[j].success => agent'[j].success
  /\ agent'[j].kind = "UCP" /\ agent'[j].success => agent'[j].state = UCP_FINISHED
  /\ agent'[j].kind = "UCC" /\ agent'[j].success =>
       agent[j].success \/ \E u \in Ids : AcceptedBy(u, j)

NewPacketsFaithful ==
  \A m \in msgs' \cup outgoing' : m \in msgs \cup outgoing \/ Faithful(m)'

LEMMA FaithfulKept ==
  ASSUME TypeOK, IdentitiesKept, \A j \in Ids : SuccessKept(j), NEW m \in Packet, Faithful(m)
  PROVE  Faithful(m)'
<1>a. ASSUME NEW j \in Ids, agent[j].kind # "none"
      PROVE  SameIdentity(agent'[j], agent[j])
  BY <1>a DEF IdentitiesKept, Created
<1>1. ASSUME m.type = "ItemRequest"
      PROVE  agent'[m.src].kind = "UCP" /\ agent'[m.src].location = m.dst
  <2>1. m.src \in Ids
    BY <1>1, PacketParts
  <2>2. agent[m.src].kind = "UCP" /\ agent[m.src].location = m.dst
    BY <1>1 DEF Faithful
  <2>3. SameIdentity(agent'[m.src], agent[m.src])
    BY <1>a, <2>1, <2>2
  <2> QED
    BY <2>2, <2>3 DEF SameIdentity
<1>2. ASSUME m.type = "ConstraintRequest"
      PROVE  /\ agent'[m.dst].kind = "UCP" /\ agent'[m.dst].location = m.src
             /\ agent'[m.src].kind = "UCC" /\ agent'[m.src].want = m.item
  <2>1. m.src \in Ids /\ m.dst \in Ids
    BY <1>2, PacketParts DEF ToYellowPages
  <2>2. /\ agent[m.dst].kind = "UCP" /\ agent[m.dst].location = m.src
        /\ agent[m.src].kind = "UCC" /\ agent[m.src].want = m.item
    BY <1>2 DEF Faithful
  <2>3. SameIdentity(agent'[m.src], agent[m.src]) /\ SameIdentity(agent'[m.dst], agent[m.dst])
    BY <1>a, <2>1, <2>2
  <2> QED
    BY <2>2, <2>3 DEF SameIdentity
<1>3. ASSUME m.type = "ConstraintAcceptance", m.accepted
      PROVE  /\ agent'[m.src].kind = "UCP" /\ agent'[m.src].location = m.dst
             /\ agent'[m.src].success
             /\ agent'[m.dst].kind = "UCC" /\ agent'[m.src].give = agent'[m.dst].want
  <2>1. m.src \in Ids /\ m.dst \in Ids
    BY <1>3, PacketParts DEF ToYellowPages
  <2>2. /\ agent[m.src].kind = "UCP" /\ agent[m.src].location = m.dst
        /\ agent[m.src].success
        /\ agent[m.dst].kind = "UCC" /\ agent[m.src].give = agent[m.dst].want
    BY <1>3 DEF Faithful
  <2>3. SameIdentity(agent'[m.src], agent[m.src]) /\ SameIdentity(agent'[m.dst], agent[m.dst])
    BY <1>a, <2>1, <2>2
  <2>4. agent'[m.src].success
    BY <2>1, <2>2 DEF SuccessKept
  <2> QED
    BY <2>2, <2>3, <2>4 DEF SameIdentity
<1> QED
  BY <1>1, <1>2, <1>3 DEF Faithful

LEMMA AgreementKept ==
  ASSUME Agreement, IdentitiesKept, \A j \in Ids : SuccessKept(j)
  PROVE  Agreement'
<1> SUFFICES ASSUME NEW c \in Ids, agent'[c].kind = "UCC", agent'[c].success
             PROVE  \E u \in Ids : /\ agent'[u].kind = "UCP" /\ agent'[u].success
                                   /\ agent'[u].location = c
                                   /\ agent'[u].give = agent'[c].want
  BY DEF Agreement
<1>1. SameIdentity(agent'[c], agent[c])
  BY DEF IdentitiesKept, Created
<1>2. PICK u \in Ids : AcceptedBy(u, c)
  <2>1. CASE agent[c].success
    BY <1>1, <2>1 DEF Agreement, SameIdentity, AcceptedBy
  <2>2. CASE ~agent[c].success
    BY <2>2 DEF SuccessKept
  <2> QED
    BY <2>1, <2>2
<1>3. SameIdentity(agent'[u], agent[u]) /\ agent'[u].success
  BY <1>2 DEF AcceptedBy, IdentitiesKept, Created, SuccessKept
<1> QED
  BY <1>1, <1>2, <1>3 DEF AcceptedBy, SameIdentity

LEMMA BargainCarried ==
  ASSUME TypeOK, BargainInv, IdentitiesKept, FreshIds', \A j \in Ids : SuccessKept(j),
         NewPacketsFaithful
  PROVE  BargainInv'
<1>1. SuccessIsFinal'
  BY DEF SuccessIsFinal, SuccessKept
<1>2. FaithfulPackets'
  <2> SUFFICES ASSUME NEW m \in msgs' \cup outgoing' PROVE Faithful(m)'
    BY DEF FaithfulPackets
  <2>1. CASE m \in msgs \cup outgoing
    <3>1. m \in Packet
      BY <2>1 DEF TypeOK, AgentsTypeOK
    <3>2. Faithful(m)
      BY <2>1 DEF BargainInv, FaithfulPackets
    <3> QED
      BY <3>1, <3>2, FaithfulKept
  <2> QED
    BY <2>1 DEF NewPacketsFaithful
<1>3. Agreement'
  BY AgreementKept DEF BargainInv
<1> QED
  BY <1>1, <1>2, <1>3 DEF BargainInv

(* A step that neither gives nor takes success, and a verdict it leaves.   *)
LEMMA SuccessOfSame ==
  ASSUME SuccessIsFinal, NEW j \in Ids, agent'[j].kind = agent[j].kind,
         agent'[j].success = agent[j].success,
         agent[j].kind = "UCP" => agent'[j].state = agent[j].state
  PROVE  SuccessKept(j)
  BY DEF SuccessIsFinal, SuccessKept

LEMMA SuccessOfUpdated ==
  ASSUME AgentsTypeOK, SuccessIsFinal, NEW i \in Ids, NEW e,
         agent' = [agent EXCEPT ![i] = e], e.kind = agent[i].kind,
         agent[i].kind = "UCP" => /\ agent[i].success => e.success
                                  /\ e.success => e.state = UCP_FINISHED,
         agent[i].kind = "UCC" =>
           (e.success => agent[i].success \/ \E u \in Ids : AcceptedBy(u, i))
  PROVE  \A j \in Ids : SuccessKept(j)
<1> SUFFICES ASSUME NEW j \in Ids PROVE SuccessKept(j)
  OBVIOUS
<1>1. CASE j = i
  <2>1. agent'[j] = e
    BY <1>1 DEF AgentsTypeOK
  <2> QED
    BY <1>1, <2>1 DEF SuccessKept
<1>2. CASE j # i
  <2>1. agent'[j] = agent[j]
    BY <1>2 DEF AgentsTypeOK
  <2> QED
    BY <2>1, SuccessOfSame
<1> QED
  BY <1>1, <1>2

LEMMA SuccessOfStopped ==
  ASSUME AgentsTypeOK, SuccessIsFinal, NEW S, agent' = AfterStop(S)
  PROVE  \A j \in Ids : SuccessKept(j)
<1> SUFFICES ASSUME NEW j \in Ids PROVE SuccessKept(j)
  OBVIOUS
<1>1. /\ agent'[j].kind = agent[j].kind /\ agent'[j].success = agent[j].success
      /\ agent[j].kind = "UCP" => agent'[j].state = agent[j].state
  BY AfterStopKeeps DEF AgentsTypeOK
<1> QED
  BY <1>1, SuccessOfSame

LEMMA SuccessOfParent ==
  ASSUME AgentsTypeOK, SuccessIsFinal, NEW i \in Ids, NEW parent \in Agent, NEW child,
         parent.kind = agent[i].kind, parent.success = agent[i].success,
         agent[i].kind # "UCP" \/ ~agent[i].success,
         nextId \in Ids => agent[nextId].kind = "none",
         ~child.success, CreateChild(i, parent, child)
  PROVE  \A j \in Ids : SuccessKept(j)
<1> SUFFICES ASSUME NEW j \in Ids PROVE SuccessKept(j)
  OBVIOUS
<1>1. CASE j = nextId
  <2>1. agent'[j] = child
    BY <1>1 DEF CreateChild
  <2> QED
    BY <1>1, <2>1 DEF SuccessKept
<1>2. CASE j # nextId /\ j = i
  <2>1. agent'[j] = [parent EXCEPT !.child = nextId]
    BY <1>2 DEF CreateChild
  <2>2. /\ [parent EXCEPT !.child = nextId].kind = parent.kind
        /\ [parent EXCEPT !.child = nextId].success = parent.success
    BY AgentFields DEF SameIdentity
  <2> QED
    BY <1>2, <2>1, <2>2 DEF SuccessKept
<1>3. CASE j # nextId /\ j # i
  <2>1. agent'[j] = agent[j]
    BY <1>3 DEF CreateChild
  <2> QED
    BY <2>1, SuccessOfSame
<1> QED
  BY <1>1, <1>2, <1>3

(* Packets that say nothing about a bargain.                               *)
Harmless(P) ==
  \A m \in P : /\ m.type \notin {"ItemRequest", "ConstraintRequest"}
               /\ m.type = "ConstraintAcceptance" => ~m.accepted

LEMMA HarmlessPackets ==
  ASSUME NEW P, Harmless(P), msgs' \cup outgoing' \subseteq msgs \cup outgoing \cup P
  PROVE  NewPacketsFaithful
  BY DEF Harmless, NewPacketsFaithful, Faithful

LEMMA HarmlessEmpty == Harmless({})
  BY DEF Harmless

LEMMA HarmlessUnregister ==
  ASSUME NEW S, NEW call, NEW connected
  PROVE  Harmless(UnregisterPackets(S, call, connected))
  BY DEF Harmless, UnregisterPackets

LEMMA BargainOfContributorUpdate ==
  ASSUME TypeOK, BargainInv, NEW i \in Ids, ContributorUpdate(i)
  PROVE  (\A j \in Ids : SuccessKept(j)) /\ NewPacketsFaithful
<1>0. /\ AgentsTypeOK /\ SuccessIsFinal
      /\ agent[i] \in Agent /\ agent[i].child \in Ids \cup {Nobody}
  BY AgentParts DEF TypeOK, BargainInv
<1>1. \A j \in Ids : SuccessKept(j)
  <2>1. CASE \/ MCCRegister(i) \/ UCCStart(i)
             \/ (MCCConclude(i) /\ agent[agent[i].child].success)
    <3>1. PICK s : agent' = [agent EXCEPT ![i] = [@ EXCEPT !.state = s]]
      BY <2>1 DEF MCCRegister, UCCStart, MCCConclude
    <3>2. agent[i].kind \in {"MCC", "UCC"}
      BY <2>1 DEF MCCRegister, UCCStart, MCCConclude, UCCHasResult, Is
    <3>3. PICK e : e = [agent[i] EXCEPT !.state = s]
      OBVIOUS
    <3>4. e.kind = agent[i].kind /\ e.success = agent[i].success
      BY <1>0, <3>3, AgentFields DEF SameIdentity
    <3> QED
      BY <1>0, <3>1, <3>2, <3>3, <3>4, SuccessOfUpdated
  <2>2. CASE MCCDestroy(i)
    <3>1. agent' = [agent EXCEPT ![i] = [@ EXCEPT !.valid = FALSE]]
      BY <2>2 DEF MCCDestroy
    <3>2. agent[i].kind = "MCC"
      BY <2>2 DEF MCCDestroy, Is
    <3>3. PICK e : e = [agent[i] EXCEPT !.valid = FALSE]
      OBVIOUS
    <3>4. e.kind = agent[i].kind
      BY <1>0, <3>3, AgentFields DEF SameIdentity
    <3> QED
      BY <1>0, <3>1, <3>2, <3>3, <3>4, SuccessOfUpdated
  <2>3. CASE MCCConclude(i) /\ ~agent[agent[i].child].success
    <3> DEFINE ucc == agent[i].child
    <3>1. ucc \in Ids
      BY <1>0, <2>3 DEF MCCConclude, UCCHasResult
    <3>2. agent' = [[agent EXCEPT ![ucc].valid = FALSE] EXCEPT ![i].state = MCC_IDLE]
      BY <2>3 DEF MCCConclude
    <3>3. agent[i].kind = "MCC"
      BY <2>3 DEF MCCConclude, UCCHasResult, Is
    <3> HIDE DEF ucc
    <3> SUFFICES ASSUME NEW j \in Ids PROVE SuccessKept(j)
      OBVIOUS
    <3>4. PICK f \in [Ids -> Agent] : f = [agent EXCEPT ![ucc].valid = FALSE]
      <4>1. agent \in [Ids -> Agent] /\ agent[ucc] \in Agent
        BY <1>0, <3>1, AgentParts
      <4>2. [agent[ucc] EXCEPT !.valid = FALSE] \in Agent
        BY <4>1, AgentWith
      <4> QED
        BY <3>1, <4>1, <4>2
    <3>5. f[j].kind = agent[j].kind /\ f[j].success = agent[j].success
            /\ f[j].state = agent[j].state
      <4>1. agent[j] \in Agent /\ agent \in [Ids -> Agent]
        BY <1>0, AgentParts
      <4>2. PICK g : g = [agent[j] EXCEPT !.valid = FALSE]
        OBVIOUS
      <4>3. g.kind = agent[j].kind /\ g.success = agent[j].success /\ g.state = agent[j].state
        BY <4>1, <4>2, AgentFields DEF SameIdentity
      <4>4. f[j] = agent[j] \/ f[j] = g
        BY <3>1, <3>4, <4>1, <4>2
      <4> QED
        BY <4>3, <4>4
    <3>6. /\ agent'[j].kind = f[j].kind /\ agent'[j].success = f[j].success
          /\ agent[j].kind = "UCP" => agent'[j].state = f[j].state
      <4>1. f[j] \in Agent
        OBVIOUS
      <4>2. PICK g : g = [f[j] EXCEPT !.state = MCC_IDLE]
        OBVIOUS
      <4>3. g.kind = f[j].kind /\ g.success = f[j].success
        BY <4>1, <4>2, AgentFields DEF SameIdentity
      <4>4. agent'[j] = f[j] \/ (j = i /\ agent'[j] = g)
        BY <3>2, <3>4, <4>2
      <4> QED
        BY <3>3, <4>3, <4>4
    <3> QED
      BY <1>0, <3>5, <3>6, SuccessOfSame
  <2> QED
    BY <2>1, <2>2, <2>3 DEF ContributorUpdate
<1>2. NewPacketsFaithful
  <2>1. CASE MCCRegister(i)
    <3> DEFINE P == {[type |-> "RegisterMCC", src |-> i, item |-> agent[i].give]}
    <3>1. Harmless(P)
      BY DEF Harmless
    <3>2. msgs' \cup outgoing' \subseteq msgs \cup outgoing \cup P
      BY <2>1 DEF MCCRegister, Send
    <3> QED
      BY <3>1, <3>2, HarmlessPackets
  <2>2. CASE MCCConclude(i) \/ MCCDestroy(i) \/ UCCStart(i)
    <3>1. msgs' \cup outgoing' \subseteq msgs \cup outgoing \cup {}
      BY <2>2 DEF MCCConclude, MCCDestroy, UCCStart, netVars
    <3> QED
      BY <3>1, HarmlessEmpty, HarmlessPackets
  <2> QED
    BY <2>1, <2>2 DEF ContributorUpdate
<1> QED
  BY <1>1, <1>2

LEMMA BargainOfPetitionerUpdate ==
  ASSUME TypeOK, BargainInv, NEW i \in Ids, PetitionerUpdate(i),
         IdentitiesKept
  PROVE  (\A j \in Ids : SuccessKept(j)) /\ NewPacketsFaithful
<1>0. /\ AgentsTypeOK /\ SuccessIsFinal
      /\ agent \in [Ids -> Agent] /\ agent[i] \in Agent
      /\ agent[i].child \in Ids \cup {Nobody} /\ agent[i].success \in BOOLEAN
  BY AgentParts DEF TypeOK, BargainInv, Agent
<1>1. \A j \in Ids : SuccessKept(j)
  <2>1. CASE MCPQuery(i) \/ MCPIterate(i) \/ UCPStart(i)
    <3>1. PICK s : agent' = [agent EXCEPT ![i] = [@ EXCEPT !.state = s]]
      BY <2>1 DEF MCPQuery, MCPIterate, UCPStart
    <3>2. agent[i].kind = "MCP" \/ (agent[i].kind = "UCP" /\ ~agent[i].success)
      BY <1>0, <2>1
      DEF MCPQuery, MCPIterate, UCPStart, Is, SuccessIsFinal, UCP_INIT, UCP_FINISHED
    <3>3. PICK e : e = [agent[i] EXCEPT !.state = s]
      OBVIOUS
    <3>4. e.kind = agent[i].kind /\ e.success = agent[i].success
      BY <1>0, <3>3, AgentFields DEF SameIdentity
    <3> QED
      BY <1>0, <3>1, <3>2, <3>3, <3>4, SuccessOfUpdated
  <2>2. CASE UCPConclude(i)
    <3>1. PICK b : agent' = [agent EXCEPT ![i] = [@ EXCEPT !.success = b, !.state = UCP_FINISHED]]
      BY <2>2 DEF UCPConclude
    <3>2. agent[i].kind = "UCP" /\ ~agent[i].success
      BY <1>0, <2>2 DEF UCPConclude, Is, SuccessIsFinal, UCP_IDLE, UCP_FINISHED
    <3>3. PICK e : e = [agent[i] EXCEPT !.success = b, !.state = UCP_FINISHED]
      OBVIOUS
    <3>4. e.kind = agent[i].kind /\ e.state = UCP_FINISHED
      BY <1>0, <3>3, AgentFields DEF SameIdentity
    <3> QED
      BY <1>0, <3>1, <3>2, <3>3, <3>4, SuccessOfUpdated
  <2>3. CASE MCPConclude(i) /\ agent[agent[i].child].success
    <3>1. agent' = [agent EXCEPT ![i] = [@ EXCEPT !.success = TRUE, !.state = MCP_FINISHED]]
      BY <2>3 DEF MCPConclude
    <3>2. agent[i].kind = "MCP"
      BY <2>3 DEF MCPConclude, UCPHasResult, Is
    <3>3. PICK e : e = [agent[i] EXCEPT !.success = TRUE, !.state = MCP_FINISHED]
      OBVIOUS
    <3>4. e.kind = agent[i].kind
      BY <1>0, <3>3, AgentFields DEF SameIdentity
    <3> QED
      BY <1>0, <3>1, <3>2, <3>3, <3>4, SuccessOfUpdated
  <2>4. CASE MCPConclude(i) /\ ~agent[agent[i].child].success
    <3>1. PICK f \in [Ids -> Agent] : f = AfterStop({agent[i].child})
      BY <1>0, AfterStopType
    <3>2. agent' = [f EXCEPT ![i] = NextContributor(@)] /\ agent[i].kind = "MCP"
      BY <2>4, <3>1 DEF MCPConclude, UCPHasResult, Is
    <3> SUFFICES ASSUME NEW j \in Ids PROVE SuccessKept(j)
      OBVIOUS
    <3>3. /\ f[j].kind = agent[j].kind /\ f[j].success = agent[j].success
          /\ agent[j].kind = "UCP" => f[j].state = agent[j].state
      BY <1>0, <3>1, AfterStopKeeps
    <3>4. NextContributor(f[j]).kind = f[j].kind /\ NextContributor(f[j]).success = f[j].success
      BY AgentFields DEF SameIdentity
    <3>5. agent'[j] = f[j] \/ (j = i /\ agent'[j] = NextContributor(f[j]))
      BY <3>2
    <3>6. /\ agent'[j].kind = agent[j].kind /\ agent'[j].success = agent[j].success
          /\ agent[j].kind = "UCP" => agent'[j].state = agent[j].state
      BY <3>2, <3>3, <3>4, <3>5
    <3> QED
      BY <1>0, <3>6, SuccessOfSame
  <2> QED
    BY <2>1, <2>2, <2>3, <2>4 DEF PetitionerUpdate
<1>2. NewPacketsFaithful
  <2>1. CASE MCPQuery(i)
    <3> DEFINE P == {[type |-> "QueryMCCsForItem", src |-> i, item |-> agent[i].want]}
    <3>1. Harmless(P)
      BY DEF Harmless
    <3>2. msgs' \cup outgoing' \subseteq msgs \cup outgoing \cup P
      BY <2>1 DEF MCPQuery, Send
    <3> QED
      BY <3>1, <3>2, HarmlessPackets
  <2>2. CASE MCPIterate(i)
    <3> DEFINE P == {[type |-> "NegotiationRequest", src |-> i,
                      dst |-> agent[i].registers[agent[i].index + 1]]}
    <3>1. Harmless(P)
      BY DEF Harmless
    <3>2. msgs' \cup outgoing' \subseteq msgs \cup outgoing \cup P
      BY <2>2 DEF MCPIterate, Send
    <3> QED
      BY <3>1, <3>2, HarmlessPackets
  <2>3. CASE MCPConclude(i)
    <3>1. msgs' \cup outgoing' \subseteq msgs \cup outgoing \cup {}
      BY <2>3 DEF MCPConclude, netVars
    <3> QED
      BY <3>1, HarmlessEmpty, HarmlessPackets
  <2>4. CASE UCPStart(i)
    <3> DEFINE req == [type |-> "ItemRequest", src |-> i, dst |-> agent[i].location]
    <3>1. msgs' \cup outgoing' \subseteq msgs \cup outgoing \cup {req}
      BY <2>4 DEF UCPStart, Send, PacketTo
    <3>2. agent[i].kind = "UCP"
      BY <2>4 DEF UCPStart, Is
    <3>3. agent'[i].kind = "UCP" /\ agent'[i].location = agent[i].location
      BY <3>2 DEF IdentitiesKept, Created, SameIdentity
    <3>4. ASSUME NEW m, m = req PROVE Faithful(m)'
      BY <3>3, <3>4 DEF Faithful
    <3> HIDE DEF req
    <3> QED
      BY <3>1, <3>4 DEF NewPacketsFaithful
  <2>5. CASE UCPConclude(i)
    <3> DEFINE P == {[type |-> "ConstraintAcceptance", src |-> i,
                      dst |-> agent[i].location, accepted |-> FALSE]}
    <3>1. Harmless(P)
      BY DEF Harmless
    <3>2. msgs' \cup outgoing' \subseteq msgs \cup outgoing \cup P
      BY <2>5 DEF UCPConclude, Send, PacketTo
    <3> QED
      BY <3>1, <3>2, HarmlessPackets
  <2> QED
    BY <2>1, <2>2, <2>3, <2>4, <2>5 DEF PetitionerUpdate
<1> QED
  BY <1>1, <1>2

LEMMA BargainOfContributorReceive ==
  ASSUME TypeOK, BargainInv, NEW m \in msgs, m.dst \in Ids, ContributorReceive(m),
         IdentitiesKept
  PROVE  (\A j \in Ids : SuccessKept(j)) /\ NewPacketsFaithful
<1>0. /\ AgentsTypeOK /\ SuccessIsFinal
      /\ agent \in [Ids -> Agent] /\ agent[m.dst] \in Agent /\ m \in Packet /\ Faithful(m)
  BY AgentParts DEF TypeOK, AgentsTypeOK, BargainInv, FaithfulPackets
<1>1. CASE ReceiveRegisterAck(m) \/ ReceiveItemRequest(m)
  <2>1. \A j \in Ids : SuccessKept(j)
    <3>1. PICK s : agent' = [agent EXCEPT ![m.dst] = [@ EXCEPT !.state = s]]
      BY <1>1 DEF ReceiveRegisterAck, ReceiveItemRequest
    <3>2. agent[m.dst].kind \in {"MCC", "UCC"}
      BY <1>1 DEF ReceiveRegisterAck, ReceiveItemRequest, Is
    <3>3. PICK e : e = [agent[m.dst] EXCEPT !.state = s]
      OBVIOUS
    <3>4. e.kind = agent[m.dst].kind /\ e.success = agent[m.dst].success
      BY <1>0, <3>3, AgentFields DEF SameIdentity
    <3> QED
      BY <1>0, <3>1, <3>2, <3>3, <3>4, SuccessOfUpdated
  <2>2. CASE ReceiveRegisterAck(m)
    <3>1. msgs' \cup outgoing' \subseteq msgs \cup outgoing \cup {}
      BY <2>2 DEF ReceiveRegisterAck
    <3> QED
      BY <2>1, <3>1, HarmlessEmpty, HarmlessPackets
  <2>3. CASE ReceiveItemRequest(m)
    <3> DEFINE req == [type |-> "ConstraintRequest", src |-> m.dst, dst |-> m.src,
                       item |-> agent[m.dst].want]
    <3>1. msgs' \cup outgoing' \subseteq msgs \cup outgoing \cup {req}
      BY <2>3 DEF ReceiveItemRequest, Send
    <3>2. /\ m.type = "ItemRequest" /\ m.src \in Ids
          /\ agent[m.src].kind = "UCP" /\ agent[m.src].location = m.dst
      BY <1>0, <2>3, PacketParts DEF ReceiveItemRequest, Faithful
    <3>3. agent'[m.src].kind = "UCP" /\ agent'[m.src].location = m.dst
      BY <3>2 DEF IdentitiesKept, Created, SameIdentity
    <3>4. agent'[m.dst].kind = "UCC" /\ agent'[m.dst].want = agent[m.dst].want
      BY <2>3 DEF ReceiveItemRequest, Is, IdentitiesKept, Created, SameIdentity
    <3>5. ASSUME NEW p, p = req PROVE Faithful(p)'
      BY <3>3, <3>4, <3>5 DEF Faithful
    <3> HIDE DEF req
    <3> QED
      BY <2>1, <3>1, <3>5 DEF NewPacketsFaithful
  <2> QED
    BY <1>1, <2>2, <2>3
<1>2. CASE ReceiveNegotiationRequest(m)
  <2>1. CASE NegotiationRequestBusy(m) \/ NegotiationRequestUsed(m)
    <3>1. agent' = agent
      BY <2>1 DEF NegotiationRequestBusy, NegotiationRequestUsed
    <3>2. \A j \in Ids : SuccessKept(j)
      BY <1>0, <3>1, SuccessOfSame
    <3>3. PICK b, loc : outgoing' = outgoing \cup {NegotiationResult(m, b, loc)}
      BY <2>1 DEF NegotiationRequestBusy, NegotiationRequestUsed, Send
    <3>4. Harmless({NegotiationResult(m, b, loc)})
      BY DEF Harmless, NegotiationResult
    <3>5. msgs' \cup outgoing' \subseteq msgs \cup outgoing \cup {NegotiationResult(m, b, loc)}
      BY <1>2, <3>3 DEF ReceiveNegotiationRequest
    <3> QED
      BY <3>2, <3>4, <3>5, HarmlessPackets
  <2>2. CASE NegotiationRequestAccepted(m)
    <3> DEFINE mcc == agent[m.dst]
               parent == [mcc EXCEPT !.state = MCC_NEGOCIATING]
               child == NewUCC(mcc.node, mcc.give, mcc.want)
    <3>1. parent \in Agent
      <4>1. MCC_NEGOCIATING \in 0..5
        BY DEF MCC_NEGOCIATING
      <4> QED
        BY <1>0, <4>1, AgentWith
    <3>2. parent.kind = agent[m.dst].kind /\ parent.success = agent[m.dst].success
      BY <1>0, AgentFields DEF SameIdentity
    <3>3. agent[m.dst].kind = "MCC"
      BY <1>2 DEF ReceiveNegotiationRequest
    <3>4. ~child.success
      BY DEF NewUCC, NewAgent
    <3>5. CreateChild(m.dst, parent, child)
      BY <2>2 DEF NegotiationRequestAccepted
    <3>6. nextId \in Ids => agent[nextId].kind = "none"
      BY IdsArePositive DEF BargainInv, FreshIds
    <3> HIDE DEF parent, child
    <3>7. \A j \in Ids : SuccessKept(j)
      BY <1>0, <3>1, <3>2, <3>3, <3>4, <3>5, <3>6, SuccessOfParent
    <3>8. Harmless({NegotiationResult(m, TRUE, nextId)})
      BY DEF Harmless, NegotiationResult
    <3>9. msgs' \cup outgoing' \subseteq
            msgs \cup outgoing \cup {NegotiationResult(m, TRUE, nextId)}
      BY <1>2, <2>2 DEF ReceiveNegotiationRequest, NegotiationRequestAccepted, Send
    <3> QED
      BY <3>7, <3>8, <3>9, HarmlessPackets
  <2> QED
    BY <1>2, <2>1, <2>2 DEF ReceiveNegotiationRequest
<1>3. CASE ReceiveConstraintAcceptance(m)
  <2>1. /\ agent' = [agent EXCEPT ![m.dst] =
                       [@ EXCEPT !.success = m.accepted, !.state = UCC_FINISHED]]
        /\ m.type = "ConstraintAcceptance" /\ agent[m.dst].kind = "UCC"
    BY <1>3 DEF ReceiveConstraintAcceptance, Is
  <2>2. m.src \in Ids
    BY <1>0, <2>1, PacketParts
  <2>3. m.accepted => AcceptedBy(m.src, m.dst)
    BY <1>0, <2>1 DEF Faithful, AcceptedBy
  <2>4. PICK e : e = [agent[m.dst] EXCEPT !.success = m.accepted, !.state = UCC_FINISHED]
    OBVIOUS
  <2>5. e.kind = agent[m.dst].kind /\ e.success = m.accepted
    BY <1>0, <2>4, AgentFields DEF SameIdentity
  <2>6. \A j \in Ids : SuccessKept(j)
    BY <1>0, <2>1, <2>2, <2>3, <2>4, <2>5, SuccessOfUpdated
  <2>7. msgs' \cup outgoing' \subseteq msgs \cup outgoing \cup {}
    BY <1>3 DEF ReceiveConstraintAcceptance
  <2> QED
    BY <2>6, <2>7, HarmlessEmpty, HarmlessPackets
<1> QED
  BY <1>1, <1>2, <1>3 DEF ContributorReceive

LEMMA BargainOfPetitionerReceive ==
  ASSUME TypeOK, BargainInv, NEW m \in msgs, m.dst \in Ids, PetitionerReceive(m),
         IdentitiesKept
  PROVE  (\A j \in Ids : SuccessKept(j)) /\ NewPacketsFaithful
<1>0. /\ AgentsTypeOK /\ SuccessIsFinal
      /\ agent \in [Ids -> Agent] /\ agent[m.dst] \in Agent /\ m \in Packet /\ Faithful(m)
      /\ agent[m.dst].depth \in 0..MaxSearchDepth /\ agent[m.dst].success \in BOOLEAN
  BY AgentParts DEF TypeOK, AgentsTypeOK, BargainInv, FaithfulPackets, Agent
<1>a. nextId \in Ids => agent[nextId].kind = "none"
  BY IdsArePositive DEF BargainInv, FreshIds
<1>1. CASE ReceiveMCCsForItem(m)
  <2>1. PICK s, r, k : agent' = [agent EXCEPT ![m.dst] =
                                  [@ EXCEPT !.registers = r, !.index = k, !.state = s]]
    BY <1>1 DEF ReceiveMCCsForItem
  <2>2. agent[m.dst].kind = "MCP"
    BY <1>1 DEF ReceiveMCCsForItem, Is
  <2>3. PICK e : e = [agent[m.dst] EXCEPT !.registers = r, !.index = k, !.state = s]
    OBVIOUS
  <2>4. e.kind = agent[m.dst].kind
    BY <1>0, <2>3, AgentFields DEF SameIdentity
  <2>5. \A j \in Ids : SuccessKept(j)
    BY <1>0, <2>1, <2>2, <2>3, <2>4, SuccessOfUpdated
  <2>6. msgs' \cup outgoing' \subseteq msgs \cup outgoing \cup {}
    BY <1>1 DEF ReceiveMCCsForItem
  <2> QED
    BY <2>5, <2>6, HarmlessEmpty, HarmlessPackets
<1>2. CASE ReceiveNegotiationResult(m)
  <2>0. msgs' \cup outgoing' \subseteq msgs \cup outgoing \cup {}
    BY <1>2 DEF ReceiveNegotiationResult
  <2>a. agent[m.dst].kind = "MCP"
    BY <1>2 DEF ReceiveNegotiationResult, Is
  <2>1. CASE ~m.available
    <3>1. agent' = [agent EXCEPT ![m.dst] = NextContributor(@)]
      BY <1>2, <2>1 DEF ReceiveNegotiationResult
    <3>2. NextContributor(agent[m.dst]).kind = agent[m.dst].kind
      BY <1>0, AgentFields DEF SameIdentity
    <3>3. \A j \in Ids : SuccessKept(j)
      BY <1>0, <2>a, <3>1, <3>2, SuccessOfUpdated
    <3> QED
      BY <2>0, <3>3, HarmlessEmpty, HarmlessPackets
  <2>2. CASE m.available
    <3> DEFINE mcp == agent[m.dst]
               parent == [mcp EXCEPT !.state = MCP_NEGOCIATING_UCP_RES]
               child == NewUCP(mcp.want, mcp.give, m.location, mcp.depth)
    <3>1. parent \in Agent
      <4>1. MCP_NEGOCIATING_UCP_RES \in 0..5
        BY DEF MCP_NEGOCIATING_UCP_RES
      <4> QED
        BY <1>0, <4>1, AgentWith
    <3>2. parent.kind = agent[m.dst].kind /\ parent.success = agent[m.dst].success
      BY <1>0, AgentFields DEF SameIdentity
    <3>3. ~child.success
      BY DEF NewUCP, NewAgent
    <3>4. CreateChild(m.dst, parent, child)
      BY <1>2, <2>2 DEF ReceiveNegotiationResult
    <3> HIDE DEF parent, child
    <3>5. \A j \in Ids : SuccessKept(j)
      BY <1>0, <1>a, <2>a, <3>1, <3>2, <3>3, <3>4, SuccessOfParent
    <3> QED
      BY <2>0, <3>5, HarmlessEmpty, HarmlessPackets
  <2> QED
    BY <2>1, <2>2
<1>3. CASE ReceiveConstraintRequest(m)
  <2>0. agent[m.dst].kind = "UCP" /\ ~agent[m.dst].success /\ m.type = "ConstraintRequest"
    BY <1>0, <1>3
    DEF ReceiveConstraintRequest, Is, SuccessIsFinal, UCP_REQUEST_ITEM, UCP_IDLE, UCP_FINISHED
  <2>a. msgs' \subseteq msgs
    BY <1>3 DEF ReceiveConstraintRequest
  <2>1. CASE m.item = agent[m.dst].give /\ ConstraintMet(m)
    <3>1. agent' = [agent EXCEPT ![m.dst] =
                      [@ EXCEPT !.success = TRUE, !.state = UCP_FINISHED]]
      BY <2>1 DEF ConstraintMet
    <3>2. PICK e : e = [agent[m.dst] EXCEPT !.success = TRUE, !.state = UCP_FINISHED]
      OBVIOUS
    <3>3. /\ e.kind = agent[m.dst].kind /\ e.success = TRUE /\ e.state = UCP_FINISHED
          /\ e.location = agent[m.dst].location /\ e.give = agent[m.dst].give
      BY <1>0, <3>2, AgentFields DEF SameIdentity
    <3>4. \A j \in Ids : SuccessKept(j)
      BY <1>0, <2>0, <3>1, <3>2, <3>3, SuccessOfUpdated
    <3>5. agent'[m.dst] = e
      BY <1>0, <3>1, <3>2
    <3>6. /\ m.src \in Ids /\ agent[m.dst].location = m.src
          /\ agent[m.src].kind = "UCC" /\ agent[m.src].want = m.item
      BY <1>0, <2>0, PacketParts DEF Faithful
    <3>7. agent'[m.src].kind = "UCC" /\ agent'[m.src].want = m.item
      BY <3>6 DEF IdentitiesKept, Created, SameIdentity
    <3>8. ASSUME NEW p, p = Acceptance(m, TRUE) PROVE Faithful(p)'
      BY <2>0, <2>1, <3>3, <3>5, <3>6, <3>7, <3>8 DEF Faithful, Acceptance
    <3>9. msgs' \cup outgoing' \subseteq msgs \cup outgoing \cup {Acceptance(m, TRUE)}
      BY <2>a, <2>1 DEF ConstraintMet, Send
    <3> QED
      BY <3>4, <3>8, <3>9 DEF NewPacketsFaithful
  <2>2. CASE ConstraintTooDeep(m)
    <3>1. agent' = [agent EXCEPT ![m.dst] = [@ EXCEPT !.state = UCP_FINISHED]]
      BY <2>2 DEF ConstraintTooDeep
    <3>2. PICK e : e = [agent[m.dst] EXCEPT !.state = UCP_FINISHED]
      OBVIOUS
    <3>3. e.kind = agent[m.dst].kind /\ e.state = UCP_FINISHED
      BY <1>0, <3>2, AgentFields DEF SameIdentity
    <3>4. \A j \in Ids : SuccessKept(j)
      BY <1>0, <2>0, <3>1, <3>2, <3>3, SuccessOfUpdated
    <3> DEFINE P == {Acceptance(m, agent[m.dst].success)}
    <3>5. Harmless(P)
      BY <2>0 DEF Harmless, Acceptance
    <3>6. msgs' \cup outgoing' \subseteq msgs \cup outgoing \cup P
      BY <2>a, <2>2 DEF ConstraintTooDeep, Send
    <3> QED
      BY <3>4, <3>5, <3>6, HarmlessPackets
  <2>3. CASE agent[m.dst].depth # MaxSearchDepth /\ ConstraintSearched(m)
    <3> DEFINE ucp == agent[m.dst]
               parent == SearchingDeeper(ucp)
               child == NewMCP(ScratchNode, m.item, ucp.give, ucp.depth + 1)
    <3>1. parent \in Agent
      BY <1>0, <2>3, SearchingDeeperType
    <3>2. parent.kind = agent[m.dst].kind /\ parent.success = agent[m.dst].success
      BY <1>0, AgentFields DEF SameIdentity
    <3>3. ~child.success
      BY DEF NewMCP, NewAgent
    <3>4. CreateChild(m.dst, parent, child)
      BY <2>3 DEF ConstraintSearched
    <3> HIDE DEF parent, child
    <3>5. \A j \in Ids : SuccessKept(j)
      BY <1>0, <1>a, <2>0, <3>1, <3>2, <3>3, <3>4, SuccessOfParent
    <3>6. msgs' \cup outgoing' \subseteq msgs \cup outgoing \cup {}
      BY <2>a, <2>3 DEF ConstraintSearched
    <3> QED
      BY <3>5, <3>6, HarmlessEmpty, HarmlessPackets
  <2> QED
    BY <1>3, <2>1, <2>2, <2>3 DEF ReceiveConstraintRequest
<1> QED
  BY <1>1, <1>2, <1>3 DEF PetitionerReceive

LEMMA BargainOfUser ==
  ASSUME TypeOK, BargainInv, User
  PROVE  (\A j \in Ids : SuccessKept(j)) /\ NewPacketsFaithful
<1>0. AgentsTypeOK /\ SuccessIsFinal /\ agent \in [Ids -> Agent]
  BY DEF TypeOK, AgentsTypeOK, BargainInv
<1>1. CASE CreateMCCs
  <2> DEFINE new == {OfferId(o) : o \in Offers}
  <2>1. agent' = [i \in Ids |->
                    IF i \in new
                    THEN LET o == CHOOSE o \in Offers : OfferId(o) = i
                         IN  NewMCC(o[1], o[2], o[3])
                    ELSE agent[i]]
    BY <1>1 DEF CreateMCCs
  <2> HIDE DEF new
  <2>2. ASSUME NEW j \in Ids PROVE SuccessKept(j)
    <3>1. CASE j \in new
      <4>1. PICK n, x, y : agent'[j] = NewMCC(n, x, y)
        BY <2>1, <3>1
      <4>2. agent'[j].kind = "MCC"
        BY <4>1 DEF NewMCC, NewAgent
      <4>3. agent[j].kind # "UCP"
        <5>1. IdentitiesKept
          BY <1>1, KeptByUser DEF User, BargainInv
        <5> QED
          BY <4>2, <5>1 DEF IdentitiesKept, Created, SameIdentity
      <4> QED
        BY <4>2, <4>3 DEF SuccessKept
    <3>2. CASE j \notin new
      <4>1. agent'[j] = agent[j]
        BY <2>1, <3>2
      <4> QED
        BY <1>0, <4>1, SuccessOfSame
    <3> QED
      BY <3>1, <3>2
  <2>3. msgs' \cup outgoing' \subseteq msgs \cup outgoing \cup {}
    BY <1>1 DEF CreateMCCs, netVars
  <2> QED
    BY <2>2, <2>3, HarmlessEmpty, HarmlessPackets
<1>2. CASE ClearAgents
  <2>1. \A j \in Ids : SuccessKept(j)
    BY <1>0, <1>2, SuccessOfStopped DEF ClearAgents
  <2>2. Harmless(UnregisterPackets(present, "gui", ypUp))
    BY HarmlessUnregister
  <2>3. msgs' \cup outgoing' \subseteq
          msgs \cup outgoing \cup UnregisterPackets(present, "gui", ypUp)
    BY <1>2 DEF ClearAgents, Send
  <2> QED
    BY <2>1, <2>2, <2>3, HarmlessPackets
<1>3. ASSUME NEW n \in Nodes, NEW want \in Items, NEW give \in Items, SpawnMCP(n, want, give)
      PROVE  (\A j \in Ids : SuccessKept(j)) /\ NewPacketsFaithful
  <2>1. agent' = [agent EXCEPT ![nextId] = NewMCP(n, want, give, 0)] /\ nextId \in Ids
    BY <1>3 DEF SpawnMCP, AddAgent
  <2>2. ASSUME NEW j \in Ids PROVE SuccessKept(j)
    <3>1. CASE j = nextId
      <4>1. agent'[j] = NewMCP(n, want, give, 0)
        BY <1>0, <2>1, <3>1
      <4>2. agent[j].kind = "none"
        BY <3>1, IdsArePositive DEF BargainInv, FreshIds
      <4>3. ~agent'[j].success
        BY <4>1 DEF NewMCP, NewAgent
      <4> QED
        BY <4>2, <4>3 DEF SuccessKept
    <3>2. CASE j # nextId
      <4>1. agent'[j] = agent[j]
        BY <1>0, <2>1, <3>2
      <4> QED
        BY <1>0, <4>1, SuccessOfSame
    <3> QED
      BY <3>1, <3>2
  <2>3. msgs' \cup outgoing' \subseteq msgs \cup outgoing \cup {}
    BY <1>3 DEF SpawnMCP, netVars
  <2> QED
    BY <2>2, <2>3, HarmlessEmpty, HarmlessPackets
<1>4. CASE PayFreed \/ \E n \in Nodes, x \in Items : Sell(n, x)
  <2>1. agent' = agent /\ msgs' = msgs /\ outgoing' = outgoing
    BY <1>4 DEF PayFreed, Sell, agentVars, netVars
  <2>2. \A j \in Ids : SuccessKept(j)
    BY <1>0, <2>1, SuccessOfSame
  <2> QED
    BY <2>1, <2>2 DEF NewPacketsFaithful
<1>5. ASSUME NEW yes \in BOOLEAN, Pay(yes)
      PROVE  (\A j \in Ids : SuccessKept(j)) /\ NewPacketsFaithful
  <2>1. agent' = AfterStop({payer}) /\ msgs' = msgs /\ outgoing' = outgoing
    BY <1>5 DEF Pay, netVars
  <2>2. \A j \in Ids : SuccessKept(j)
    BY <1>0, <2>1, SuccessOfStopped
  <2> QED
    BY <2>1, <2>2 DEF NewPacketsFaithful
<1> QED
  BY <1>1, <1>2, <1>3, <1>4, <1>5 DEF User

(* When the process ends, its agents and the packets between them go.      *)
LEMMA BargainGone ==
  ASSUME TypeOK, CloseCluster \/ KillCluster
  PROVE  BargainInv'
<1>1. \A j \in Ids : agent'[j].kind = "none"
  BY NoAgentType DEF CloseCluster, KillCluster, ClusterGone
<1>2. ASSUME NEW m \in msgs' \cup outgoing'
      PROVE  m.type \notin {"ItemRequest", "ConstraintRequest", "ConstraintAcceptance"}
  BY DEF CloseCluster, KillCluster, ClusterGone, ToYellowPages
<1>3. FreshIds' /\ SuccessIsFinal' /\ Agreement'
  BY <1>1 DEF FreshIds, SuccessIsFinal, Agreement
<1>4. FaithfulPackets'
  BY <1>2 DEF FaithfulPackets, Faithful
<1> QED
  BY <1>3, <1>4 DEF BargainInv

LEMMA BargainStep ==
  ASSUME TypeOK, BargainInv, [Next]_vars
  PROVE  BargainInv'
<1>0. AgentsTypeOK /\ FreshIds /\ SuccessIsFinal
  BY DEF TypeOK, BargainInv
<1> SUFFICES ASSUME ~CloseCluster, ~KillCluster PROVE BargainInv'
  BY BargainGone
<1>a. IdentitiesKept /\ FreshIds'
  BY <1>0, IdentityStep
<1> SUFFICES (\A j \in Ids : SuccessKept(j)) /\ NewPacketsFaithful
  BY <1>a, BargainCarried
<1>1. ASSUME NEW i \in Ids, UpdateAgent(i)
      PROVE  (\A j \in Ids : SuccessKept(j)) /\ NewPacketsFaithful
  BY <1>a, <1>1, BargainOfContributorUpdate, BargainOfPetitionerUpdate DEF UpdateAgent
<1>2. ASSUME NEW i \in Ids, ExchangeAgent(i) \/ PruneAgent(i)
      PROVE  (\A j \in Ids : SuccessKept(j)) /\ NewPacketsFaithful
  <2>1. \A j \in Ids : SuccessKept(j)
    <3>1. agent' = agent \/ \E S : agent' = AfterStop(S)
      BY <1>2
      DEF ExchangeAgent, MCCExchange, MCPExchange, AskPayment, Abort, PruneAgent, agentVars
    <3>2. agent' = agent => \A j \in Ids : SuccessKept(j)
      BY <1>0, SuccessOfSame
    <3> QED
      BY <1>0, <3>1, <3>2, SuccessOfStopped
  <2>2. \E P : Harmless(P) /\ msgs' \cup outgoing' \subseteq msgs \cup outgoing \cup P
    <3>1. CASE \/ Abort \/ AskPayment(i) \/ MCPExchange(i)
      <4>1. msgs' \cup outgoing' \subseteq msgs \cup outgoing \cup {}
        BY <3>1 DEF MCPExchange, AskPayment, Abort, agentVars, netVars
      <4> QED
        BY <4>1, HarmlessEmpty
    <3>2. CASE MCCExchange(i) /\ ~Abort
      <4>1. msgs' \cup outgoing' \subseteq
              msgs \cup outgoing \cup UnregisterPackets({i}, "exchange", ypUp)
        BY <3>2 DEF MCCExchange, Send
      <4> QED
        BY <4>1, HarmlessUnregister
    <3>3. CASE PruneAgent(i)
      <4>1. msgs' \cup outgoing' \subseteq
              msgs \cup outgoing \cup UnregisterPackets({i}, "prune", ypUp)
        BY <3>3 DEF PruneAgent, Send
      <4> QED
        BY <4>1, HarmlessUnregister
    <3> QED
      BY <1>2, <3>1, <3>2, <3>3 DEF ExchangeAgent
  <2> QED
    BY <2>1, <2>2, HarmlessPackets
<1>3. CASE Deliver
  <2>1. PICK m \in {p \in msgs : p.type \notin ToYellowPages} :
          \/ m.dst \in Reachable /\ (ContributorReceive(m) \/ PetitionerReceive(m))
          \/ Discard(m)
    BY <1>3 DEF Deliver
  <2>2. m.dst \in Ids
    BY <1>0, <2>1, PacketParts DEF AgentsTypeOK
  <2>3. CASE Discard(m)
    <3>1. \A j \in Ids : SuccessKept(j)
      BY <1>0, <2>3, SuccessOfSame DEF Discard
    <3>2. msgs' \cup outgoing' \subseteq msgs \cup outgoing \cup {}
      BY <2>3 DEF Discard
    <3> QED
      BY <3>1, <3>2, HarmlessEmpty, HarmlessPackets
  <2> QED
    BY <1>a, <2>1, <2>2, <2>3, BargainOfContributorReceive, BargainOfPetitionerReceive
<1>4. CASE YellowPages
  <2>1. \A j \in Ids : SuccessKept(j)
    BY <1>0, <1>4, SuccessOfSame DEF YellowPages
  <2>2. PICK m \in msgs : HandleRegister(m) \/ HandleQuery(m) \/ HandleUnregister(m)
    BY <1>4 DEF YellowPages, YellowPagesStep
  <2>3. PICK p : /\ p.type \notin {"ItemRequest", "ConstraintRequest", "ConstraintAcceptance"}
                 /\ msgs' \cup outgoing' \subseteq msgs \cup outgoing \cup {p}
    BY <2>2 DEF HandleRegister, HandleQuery, HandleUnregister
  <2>4. Harmless({p})
    BY <2>3 DEF Harmless
  <2> QED
    BY <2>1, <2>3, <2>4, HarmlessPackets
<1>5. CASE \/ UpdateEnds \/ ExchangeEnds \/ PruneEnds \/ NoClick \/ FrameEnds
           \/ YellowPagesEnds \/ YellowPagesStarts \/ StartCluster \/ UNCHANGED vars
  <2>1. agent' = agent /\ msgs' \cup outgoing' \subseteq msgs \cup outgoing \cup {}
    BY <1>5
    DEF UpdateEnds, ExchangeEnds, PruneEnds, LoopEnds, NoClick, FrameEnds, YellowPagesEnds,
        YellowPagesStop, YellowPagesStarts, YellowPagesStart, StartCluster, vars, agentVars,
        netVars
  <2>2. \A j \in Ids : SuccessKept(j)
    BY <1>0, <2>1, SuccessOfSame
  <2> QED
    BY <2>1, <2>2, HarmlessEmpty, HarmlessPackets
<1> QED
  BY <1>1, <1>2, <1>3, <1>4, <1>5, BargainOfUser DEF Next, Loops, Faults

LEMMA BargainInit == Init => BargainInv
<1> SUFFICES ASSUME Init PROVE BargainInv
  OBVIOUS
<1>1. \A j \in Ids : agent[j].kind = "none"
  BY NoAgentType DEF Init, AgentsInit
<1> QED
  BY <1>1
  DEF Init, AgentsInit, BargainInv, FreshIds, SuccessIsFinal, FaithfulPackets, Agreement

(* The packets of a bargain are true to the agents that exchange them, in  *)
(* every order of delivery and through the end of either process: what the *)
(* invariant of the bargain says holds always.                             *)
THEOREM BargainsAreTrue == Spec => []BargainInv
<1>1. TypeOK /\ BargainInv /\ [Next]_vars => BargainInv'
  BY BargainStep
<1> QED
  BY <1>1, BargainInit, TypeCorrect, PTL DEF Spec

(* A UCC that concludes with success was accepted by a UCP that concluded  *)
(* with success too and gives what the UCC asked for: the two sides of a   *)
(* bargain never disagree on a bargain that a UCC books.                   *)
THEOREM SidesAgree == Spec => []Agreement
<1>1. BargainInv => Agreement
  BY DEF BargainInv
<1> QED
  BY <1>1, BargainsAreTrue, PTL

-----------------------------------------------------------------------------
(* Reservations.                                                           *)

(* No MCC starts to negotiate in this step.                                *)
NoneStarts ==
  \A j \in Ids :
    agent[j].kind = "MCC" /\ agent'[j].state = MCC_NEGOCIATING => agent[j].state = MCC_NEGOCIATING

(* What an MCC that negotiates after a step says of the one before it.     *)
LEMMA StillNegotiating ==
  ASSUME IdentitiesKept, NEW j \in Ids, agent'[j].kind = "MCC"
  PROVE  /\ Negotiating(j)' => agent[j].kind = "MCC"
         /\ agent[j].kind = "MCC"
              => agent'[j].node = agent[j].node /\ agent'[j].give = agent[j].give
         /\ agent[j].kind # "MCC" => agent'[j].node \in Nodes
  BY DEF IdentitiesKept, Created, SameIdentity, Negotiating, Is, MCC_NEGOCIATING

LEMMA ReservationCarried ==
  ASSUME ReservationInv, IdentitiesKept, NoneStarts, UNCHANGED used,
         phase' = "down" => phase = "down" /\ UNCHANGED agent
  PROVE  ReservationInv'
<1>1. ASSUME NEW j \in Ids, Negotiating(j)'
      PROVE  /\ Negotiating(j)
             /\ agent'[j].node = agent[j].node /\ agent'[j].give = agent[j].give
  <2>1. agent'[j].kind = "MCC" /\ agent'[j].state = MCC_NEGOCIATING
    BY <1>1 DEF Negotiating, Is
  <2> QED
    BY <1>1, <2>1, StillNegotiating DEF NoneStarts, Negotiating, Is
<1>2. MarkedWhileNegotiating'
  <2> SUFFICES ASSUME NEW j \in Ids, agent'[j].kind = "MCC"
               PROVE  /\ agent'[j].node \in Nodes
                      /\ Negotiating(j)' => used'[agent'[j].node][agent'[j].give]
    BY DEF MarkedWhileNegotiating
  <2>1. agent'[j].node \in Nodes
    BY StillNegotiating DEF ReservationInv, MarkedWhileNegotiating
  <2>2. ASSUME Negotiating(j)' PROVE used'[agent'[j].node][agent'[j].give]
    BY <1>1, <2>2 DEF ReservationInv, MarkedWhileNegotiating, Negotiating, Is
  <2> QED
    BY <2>1, <2>2
<1>3. ExclusiveNegotiation'
  <2> SUFFICES ASSUME NEW i \in Ids, NEW j \in Ids, Negotiating(i)', Negotiating(j)', i # j
               PROVE  << agent'[i].node, agent'[i].give >> # << agent'[j].node, agent'[j].give >>
    BY DEF ExclusiveNegotiation
  <2>1. << agent[i].node, agent[i].give >> # << agent[j].node, agent[j].give >>
    BY <1>1 DEF ReservationInv, ExclusiveNegotiation
  <2> QED
    BY <1>1, <2>1
<1>4. DownIsEmpty'
  BY DEF ReservationInv, DownIsEmpty
<1> QED
  BY <1>2, <1>3, <1>4 DEF ReservationInv

LEMMA NoneStartsOne ==
  ASSUME AgentsTypeOK, NEW i \in Ids, NEW e, agent' = [agent EXCEPT ![i] = e],
         agent[i].kind # "MCC" \/ e.state # MCC_NEGOCIATING
  PROVE  NoneStarts
<1> SUFFICES ASSUME NEW j \in Ids, agent[j].kind = "MCC", agent'[j].state = MCC_NEGOCIATING
             PROVE  agent[j].state = MCC_NEGOCIATING
  BY DEF NoneStarts
<1>1. agent'[j] = IF j = i THEN e ELSE agent[j]
  BY DEF AgentsTypeOK
<1> QED
  BY <1>1

LEMMA NoneStartsStopped ==
  ASSUME AgentsTypeOK, NEW S, agent' = AfterStop(S)
  PROVE  NoneStarts
  BY AfterStopKeeps DEF NoneStarts, AgentsTypeOK, MCC_FINISHED, MCC_NEGOCIATING

LEMMA NoneStartsSame ==
  ASSUME agent' = agent
  PROVE  NoneStarts
  BY DEF NoneStarts

LEMMA NoneStartsCreateChild ==
  ASSUME AgentsTypeOK, NEW i \in Ids, NEW parent, NEW child, agent[i].kind # "MCC",
         nextId \in Ids => agent[nextId].kind = "none", CreateChild(i, parent, child)
  PROVE  NoneStarts
<1> SUFFICES ASSUME NEW j \in Ids, agent[j].kind = "MCC", agent'[j].state = MCC_NEGOCIATING
             PROVE  agent[j].state = MCC_NEGOCIATING
  BY DEF NoneStarts
<1>1. agent'[j] = agent[j]
  BY DEF CreateChild
<1> QED
  BY <1>1

(* The MCC that concludes takes the mark off; no other MCC needs it, since *)
(* none negotiates the same item of the same node.                         *)
LEMMA ReservationConcluded ==
  ASSUME TypeOK, ReservationInv, NEW i \in Ids, MCCConclude(i), IdentitiesKept,
         phase' = phase, phase # "down"
  PROVE  ReservationInv'
<1>0. AgentsTypeOK /\ agent \in [Ids -> Agent] /\ agent[i] \in Agent
      /\ agent[i].child \in Ids \cup {Nobody}
  BY AgentParts DEF TypeOK
<1>1. Negotiating(i) /\ agent[i].kind = "MCC"
  BY DEF MCCConclude, UCCHasResult, Negotiating, Is
<1>2. used' = [used EXCEPT ![agent[i].node][agent[i].give] = FALSE]
  BY DEF MCCConclude, SetItemUsed
<1>3. agent'[i].state # MCC_NEGOCIATING
      /\ \A j \in Ids \ {i} : agent'[j].state = agent[j].state
  <2>1. CASE agent[agent[i].child].success
    <3>1. agent' = [agent EXCEPT ![i] = [@ EXCEPT !.state = MCC_FINISHED]]
      BY <2>1 DEF MCCConclude
    <3>2. PICK e : e = [agent[i] EXCEPT !.state = MCC_FINISHED]
      OBVIOUS
    <3>3. e.state = MCC_FINISHED
      BY <1>0, <3>2, AgentFields
    <3> QED
      BY <1>0, <3>1, <3>2, <3>3 DEF MCC_FINISHED, MCC_NEGOCIATING
  <2>2. CASE ~agent[agent[i].child].success
    <3> DEFINE ucc == agent[i].child
    <3>1. ucc \in Ids
      BY <1>0 DEF MCCConclude, UCCHasResult
    <3>2. agent' = [[agent EXCEPT ![ucc].valid = FALSE] EXCEPT ![i].state = MCC_IDLE]
      BY <2>2 DEF MCCConclude
    <3> HIDE DEF ucc
    <3>3. PICK f \in [Ids -> Agent] : f = [agent EXCEPT ![ucc].valid = FALSE]
      <4>1. agent[ucc] \in Agent
        BY <1>0, <3>1
      <4>2. [agent[ucc] EXCEPT !.valid = FALSE] \in Agent
        BY <4>1, AgentWith
      <4> QED
        BY <1>0, <3>1, <4>2
    <3>4. ASSUME NEW j \in Ids PROVE f[j].state = agent[j].state
      <4>1. PICK g : g = [agent[j] EXCEPT !.valid = FALSE]
        OBVIOUS
      <4>2. agent[j] \in Agent
        BY <1>0
      <4>3. g.state = agent[j].state
        BY <4>1, <4>2, AgentFields
      <4>4. f[j] = agent[j] \/ f[j] = g
        BY <1>0, <3>1, <3>3, <4>1
      <4> QED
        BY <4>3, <4>4
    <3>5. PICK e : e = [f[i] EXCEPT !.state = MCC_IDLE]
      OBVIOUS
    <3>6. f[i] \in Agent
      OBVIOUS
    <3>7. e.state = MCC_IDLE
      BY <3>5, <3>6, AgentFields
    <3>8. agent' = [f EXCEPT ![i] = e]
      BY <3>2, <3>3, <3>5
    <3> QED
      BY <3>4, <3>7, <3>8 DEF MCC_IDLE, MCC_NEGOCIATING
  <2> QED
    BY <2>1, <2>2
<1>4. ASSUME NEW j \in Ids, Negotiating(j)'
      PROVE  /\ j # i /\ Negotiating(j) /\ agent[j].kind = "MCC"
             /\ agent'[j].node = agent[j].node /\ agent'[j].give = agent[j].give
  <2>1. agent'[j].kind = "MCC" /\ agent'[j].state = MCC_NEGOCIATING
    BY <1>4 DEF Negotiating, Is
  <2> QED
    BY <1>3, <1>4, <2>1, StillNegotiating DEF Negotiating, Is
<1>5. MarkedWhileNegotiating'
  <2> SUFFICES ASSUME NEW j \in Ids, agent'[j].kind = "MCC"
               PROVE  /\ agent'[j].node \in Nodes
                      /\ Negotiating(j)' => used'[agent'[j].node][agent'[j].give]
    BY DEF MarkedWhileNegotiating
  <2>1. agent'[j].node \in Nodes
    BY StillNegotiating DEF ReservationInv, MarkedWhileNegotiating
  <2>2. ASSUME Negotiating(j)' PROVE used'[agent'[j].node][agent'[j].give]
    <3>1. used[agent[j].node][agent[j].give]
      BY <1>4, <2>2 DEF ReservationInv, MarkedWhileNegotiating
    <3>2. << agent[i].node, agent[i].give >> # << agent[j].node, agent[j].give >>
      BY <1>1, <1>4, <2>2 DEF ReservationInv, ExclusiveNegotiation
    <3>3. used \in [Nodes -> [Items -> BOOLEAN]] /\ agent[j].give \in Items
          /\ agent[j].node \in Nodes
      BY <1>0, <1>4, <2>1, <2>2, AgentParts DEF TypeOK, ItemListsTypeOK
    <3>4. used'[agent[j].node][agent[j].give]
      BY <1>2, <3>1, <3>2, <3>3
    <3> QED
      BY <1>4, <2>2, <3>4
  <2> QED
    BY <2>1, <2>2
<1>6. ExclusiveNegotiation'
  <2> SUFFICES ASSUME NEW k \in Ids, NEW j \in Ids, Negotiating(k)', Negotiating(j)', k # j
               PROVE  << agent'[k].node, agent'[k].give >> # << agent'[j].node, agent'[j].give >>
    BY DEF ExclusiveNegotiation
  <2>1. << agent[k].node, agent[k].give >> # << agent[j].node, agent[j].give >>
    BY <1>4 DEF ReservationInv, ExclusiveNegotiation
  <2> QED
    BY <1>4, <2>1
<1> QED
  BY <1>5, <1>6 DEF ReservationInv, DownIsEmpty

(* The MCC that accepts a petitioner found the item unmarked, so no other  *)
(* negotiates it, and marks it.                                            *)
LEMMA ReservationAccepted ==
  ASSUME TypeOK, FreshIds, ReservationInv, NEW m \in msgs, m.dst \in Ids,
         agent[m.dst].kind = "MCC", NegotiationRequestAccepted(m), IdentitiesKept,
         phase' = phase, phase # "down"
  PROVE  ReservationInv'
<1> DEFINE i == m.dst
<1>0. /\ AgentsTypeOK /\ agent \in [Ids -> Agent] /\ agent[i] \in Agent
      /\ agent[i].give \in Items /\ agent[i].node \in Nodes
      /\ used \in [Nodes -> [Items -> BOOLEAN]]
  BY AgentParts DEF TypeOK, ItemListsTypeOK, ReservationInv, MarkedWhileNegotiating
<1>1. used' = [used EXCEPT ![agent[i].node][agent[i].give] = TRUE]
      /\ ~used[agent[i].node][agent[i].give]
  BY DEF NegotiationRequestAccepted, SetItemUsed
<1>2. ASSUME NEW j \in Ids, j # i, agent[j].kind = "MCC" PROVE agent'[j] = agent[j]
  <2>1. nextId \in Ids /\ agent[nextId].kind = "none"
    BY IdsArePositive DEF NegotiationRequestAccepted, CreateChild, AddAgent, FreshIds
  <2> QED
    BY <1>2, <2>1 DEF NegotiationRequestAccepted, CreateChild
<1>3. ASSUME NEW j \in Ids, j # i, Negotiating(j)'
      PROVE  /\ Negotiating(j) /\ agent[j].kind = "MCC"
             /\ agent'[j].node = agent[j].node /\ agent'[j].give = agent[j].give
             /\ agent[j].node \in Nodes /\ agent[j].give \in Items
             /\ used[agent[j].node][agent[j].give]
             /\ << agent[j].node, agent[j].give >> # << agent[i].node, agent[i].give >>
  <2>1. agent'[j].kind = "MCC" /\ agent[j].kind = "MCC"
    BY <1>3, StillNegotiating DEF Negotiating, Is
  <2>2. agent'[j] = agent[j]
    BY <1>2, <1>3, <2>1
  <2>3. Negotiating(j)
    BY <1>3, <2>2 DEF Negotiating, Is
  <2>4. used[agent[j].node][agent[j].give] /\ agent[j].node \in Nodes
    BY <2>1, <2>3 DEF ReservationInv, MarkedWhileNegotiating
  <2>5. agent[j].give \in Items
    BY <1>0, AgentParts
  <2> QED
    BY <1>1, <2>1, <2>2, <2>3, <2>4, <2>5
<1>4. agent'[i].kind = "MCC" /\ agent'[i].node = agent[i].node /\ agent'[i].give = agent[i].give
  BY DEF IdentitiesKept, Created, SameIdentity
<1>5. MarkedWhileNegotiating'
  <2> SUFFICES ASSUME NEW j \in Ids, agent'[j].kind = "MCC"
               PROVE  /\ agent'[j].node \in Nodes
                      /\ Negotiating(j)' => used'[agent'[j].node][agent'[j].give]
    BY DEF MarkedWhileNegotiating
  <2>1. agent'[j].node \in Nodes
    BY StillNegotiating DEF ReservationInv, MarkedWhileNegotiating
  <2>2. ASSUME Negotiating(j)' PROVE used'[agent'[j].node][agent'[j].give]
    <3>1. CASE j = i
      BY <1>0, <1>1, <1>4, <3>1
    <3>2. CASE j # i
      BY <1>0, <1>1, <1>3, <2>2, <3>2
    <3> QED
      BY <3>1, <3>2
  <2> QED
    BY <2>1, <2>2
<1>6. ExclusiveNegotiation'
  <2> SUFFICES ASSUME NEW k \in Ids, NEW j \in Ids, Negotiating(k)', Negotiating(j)', k # j
               PROVE  << agent'[k].node, agent'[k].give >> # << agent'[j].node, agent'[j].give >>
    BY DEF ExclusiveNegotiation
  <2>1. CASE k # i /\ j # i
    BY <1>3, <2>1 DEF ReservationInv, ExclusiveNegotiation
  <2>2. CASE k = i
    BY <1>3, <1>4, <2>2
  <2>3. CASE j = i
    BY <1>3, <1>4, <2>3
  <2> QED
    BY <2>1, <2>2, <2>3
<1> QED
  BY <1>5, <1>6 DEF ReservationInv, DownIsEmpty

LEMMA ReservationOfUpdate ==
  ASSUME TypeOK, FreshIds, ReservationInv, NEW i \in Ids, UpdateAgent(i), IdentitiesKept
  PROVE  ReservationInv'
<1>0. AgentsTypeOK /\ agent \in [Ids -> Agent] /\ agent[i] \in Agent
      /\ phase' = phase /\ phase # "down"
  BY AgentParts DEF TypeOK, UpdateAgent, Visit
<1>1. CASE MCCConclude(i)
  BY <1>0, <1>1, ReservationConcluded
<1>2. CASE ContributorUpdate(i) /\ ~MCCConclude(i)
  <2>1. used' = used
    BY <1>2 DEF ContributorUpdate, MCCRegister, MCCDestroy, UCCStart, nodeVars
  <2>2. NoneStarts
    <3>1. CASE MCCRegister(i) \/ UCCStart(i)
      <4>1. PICK s : /\ agent' = [agent EXCEPT ![i] = [@ EXCEPT !.state = s]]
                     /\ agent[i].kind # "MCC" \/ s # MCC_NEGOCIATING
        BY <3>1
        DEF MCCRegister, UCCStart, Is, MCC_REGISTERING, MCC_FINISHED, MCC_NEGOCIATING
      <4>2. PICK e : e = [agent[i] EXCEPT !.state = s]
        OBVIOUS
      <4>3. e.state = s
        BY <1>0, <4>2, AgentFields
      <4> QED
        BY <1>0, <4>1, <4>2, <4>3, NoneStartsOne
    <3>2. CASE MCCDestroy(i)
      <4>1. PICK e : e = [agent[i] EXCEPT !.valid = FALSE]
        OBVIOUS
      <4>2. agent' = [agent EXCEPT ![i] = e] /\ agent[i].state = MCC_FINISHED
        BY <3>2, <4>1 DEF MCCDestroy, Is
      <4>3. e.state = agent[i].state
        BY <1>0, <4>1, AgentFields
      <4>4. e.state # MCC_NEGOCIATING
        BY <4>2, <4>3 DEF MCC_FINISHED, MCC_NEGOCIATING
      <4> QED
        BY <1>0, <4>2, <4>4, NoneStartsOne
    <3> QED
      BY <1>2, <3>1, <3>2 DEF ContributorUpdate
  <2> QED
    BY <1>0, <2>1, <2>2, ReservationCarried
<1>3. CASE PetitionerUpdate(i)
  <2>1. used' = used
    BY <1>3
    DEF PetitionerUpdate, MCPQuery, MCPIterate, MCPConclude, UCPStart, UCPConclude, nodeVars
  <2>2. agent[i].kind # "MCC"
    BY <1>3
    DEF PetitionerUpdate, MCPQuery, MCPIterate, MCPConclude, UCPHasResult, UCPStart,
        UCPConclude, Is
  <2>3. NoneStarts
    <3>1. CASE MCPConclude(i) /\ ~agent[agent[i].child].success
      <4>1. PICK f \in [Ids -> Agent] : f = AfterStop({agent[i].child})
        BY <1>0, AfterStopType
      <4>2. agent' = [f EXCEPT ![i] = NextContributor(@)]
        BY <3>1, <4>1 DEF MCPConclude
      <4>3. ASSUME NEW j \in Ids, agent[j].kind = "MCC", agent'[j].state = MCC_NEGOCIATING
            PROVE  agent[j].state = MCC_NEGOCIATING
        <5>1. agent'[j] = f[j]
          BY <2>2, <4>2, <4>3
        <5> QED
          BY <1>0, <4>1, <4>3, <5>1, AfterStopKeeps DEF MCC_FINISHED, MCC_NEGOCIATING
      <4> QED
        BY <4>3 DEF NoneStarts
    <3>2. CASE ~(MCPConclude(i) /\ ~agent[agent[i].child].success)
      <4>1. PICK e : agent' = [agent EXCEPT ![i] = e]
        BY <1>3, <3>2
        DEF PetitionerUpdate, MCPQuery, MCPIterate, MCPConclude, UCPStart, UCPConclude
      <4> QED
        BY <1>0, <2>2, <4>1, NoneStartsOne
    <3> QED
      BY <3>1, <3>2
  <2> QED
    BY <1>0, <2>1, <2>3, ReservationCarried
<1> QED
  BY <1>1, <1>2, <1>3 DEF UpdateAgent

LEMMA ReservationOfDeliver ==
  ASSUME TypeOK, FreshIds, ReservationInv, Deliver, IdentitiesKept
  PROVE  ReservationInv'
<1>0. AgentsTypeOK /\ phase' = phase /\ phase # "down"
  BY DEF TypeOK, Deliver, frameVars
<1>a. nextId \in Ids => agent[nextId].kind = "none"
  <2>1. nextId \in Ids => nextId \in Nat
    BY IdsArePositive
  <2>2. nextId \in Nat => nextId >= nextId
    OBVIOUS
  <2> QED
    BY <2>1, <2>2 DEF FreshIds
<1>1. PICK m \in {p \in msgs : p.type \notin ToYellowPages} :
        \/ m.dst \in Reachable /\ (ContributorReceive(m) \/ PetitionerReceive(m))
        \/ Discard(m)
  BY DEF Deliver
<1>2. m \in msgs /\ m.dst \in Ids
  BY <1>0, <1>1, PacketParts DEF AgentsTypeOK
<1>3. CASE ReceiveNegotiationRequest(m)
  <2>1. CASE NegotiationRequestAccepted(m)
    <3>1. agent[m.dst].kind = "MCC"
      BY <1>3 DEF ReceiveNegotiationRequest
    <3> QED
      BY <1>0, <1>2, <2>1, <3>1, ReservationAccepted
  <2>2. CASE NegotiationRequestBusy(m) \/ NegotiationRequestUsed(m)
    <3>1. agent' = agent /\ used' = used
      BY <2>2 DEF NegotiationRequestBusy, NegotiationRequestUsed, nodeVars
    <3> QED
      BY <1>0, <3>1, NoneStartsSame, ReservationCarried
  <2> QED
    BY <1>3, <2>1, <2>2 DEF ReceiveNegotiationRequest
<1>4. CASE ContributorReceive(m) /\ ~ReceiveNegotiationRequest(m)
  <2>1. used' = used
    BY <1>4
    DEF ContributorReceive, ReceiveRegisterAck, ReceiveItemRequest,
        ReceiveConstraintAcceptance, nodeVars
  <2>2. CASE ReceiveRegisterAck(m)
    <3>1. PICK e : e = [agent[m.dst] EXCEPT !.state = MCC_IDLE]
      OBVIOUS
    <3>2. agent' = [agent EXCEPT ![m.dst] = e]
      BY <2>2, <3>1 DEF ReceiveRegisterAck
    <3>3. e.state # MCC_NEGOCIATING
      <4>1. agent[m.dst] \in Agent
        BY <1>0, <1>2, AgentParts
      <4>2. e.state = MCC_IDLE
        BY <3>1, <4>1, AgentFields
      <4> QED
        BY <4>2 DEF MCC_IDLE, MCC_NEGOCIATING
    <3> QED
      BY <1>0, <1>2, <2>1, <3>2, <3>3, NoneStartsOne, ReservationCarried
  <2>3. CASE ReceiveItemRequest(m) \/ ReceiveConstraintAcceptance(m)
    <3>1. PICK e : agent' = [agent EXCEPT ![m.dst] = e]
      BY <2>3 DEF ReceiveItemRequest, ReceiveConstraintAcceptance
    <3>2. agent[m.dst].kind # "MCC"
      BY <2>3 DEF ReceiveItemRequest, ReceiveConstraintAcceptance, Is
    <3> QED
      BY <1>0, <1>2, <2>1, <3>1, <3>2, NoneStartsOne, ReservationCarried
  <2> QED
    BY <1>4, <2>2, <2>3 DEF ContributorReceive
<1>5. CASE PetitionerReceive(m)
  <2>1. used' = used
    BY <1>5
    DEF PetitionerReceive, ReceiveMCCsForItem, ReceiveNegotiationResult,
        ReceiveConstraintRequest, nodeVars
  <2>2. agent[m.dst].kind # "MCC"
    BY <1>5
    DEF PetitionerReceive, ReceiveMCCsForItem, ReceiveNegotiationResult,
        ReceiveConstraintRequest, Is
  <2>3. CASE \E e : agent' = [agent EXCEPT ![m.dst] = e]
    BY <1>0, <1>2, <2>1, <2>2, <2>3, NoneStartsOne, ReservationCarried
  <2>4. CASE \E parent, child : CreateChild(m.dst, parent, child)
    BY <1>0, <1>2, <1>a, <2>1, <2>2, <2>4, NoneStartsCreateChild, ReservationCarried
  <2>5. \/ \E e : agent' = [agent EXCEPT ![m.dst] = e]
        \/ \E parent, child : CreateChild(m.dst, parent, child)
    <3>1. CASE ReceiveMCCsForItem(m)
      BY <3>1 DEF ReceiveMCCsForItem
    <3>2. CASE ReceiveNegotiationResult(m)
      BY <3>2 DEF ReceiveNegotiationResult
    <3>3. CASE ReceiveConstraintRequest(m)
      BY <3>3 DEF ReceiveConstraintRequest, ConstraintMet, ConstraintTooDeep, ConstraintSearched
    <3> QED
      BY <1>5, <3>1, <3>2, <3>3 DEF PetitionerReceive
  <2> QED
    BY <2>3, <2>4, <2>5
<1>6. CASE Discard(m)
  BY <1>0, <1>6, NoneStartsSame, ReservationCarried DEF Discard, nodeVars
<1> QED
  BY <1>1, <1>3, <1>4, <1>5, <1>6

LEMMA ReservationOfUser ==
  ASSUME TypeOK, FreshIds, ReservationInv, User, IdentitiesKept
  PROVE  ReservationInv'
<1>0. AgentsTypeOK /\ agent \in [Ids -> Agent]
  BY DEF TypeOK, AgentsTypeOK
<1>1. used' = used /\ phase' # "down"
  BY DEF User, CreateMCCs, ClearAgents, SpawnMCP, Sell, Pay, PayFreed, GUIDone, nodeVars
<1>2. NoneStarts
  <2>1. CASE CreateMCCs
    <3> DEFINE new == {OfferId(o) : o \in Offers}
    <3> SUFFICES ASSUME NEW j \in Ids, agent'[j].state = MCC_NEGOCIATING
                 PROVE  agent[j].state = MCC_NEGOCIATING
      BY DEF NoneStarts
    <3>1. agent'[j] = agent[j] \/ \E n, x, y : agent'[j] = NewMCC(n, x, y)
      BY <2>1 DEF CreateMCCs
    <3>2. \A n, x, y : NewMCC(n, x, y).state # MCC_NEGOCIATING
      BY DEF NewMCC, NewAgent, MCC_NEGOCIATING
    <3> QED
      BY <3>1, <3>2
  <2>2. CASE ClearAgents \/ \E yes \in BOOLEAN : Pay(yes)
    BY <1>0, <2>2, NoneStartsStopped DEF ClearAgents, Pay
  <2>3. ASSUME NEW n \in Nodes, NEW want \in Items, NEW give \in Items, SpawnMCP(n, want, give)
        PROVE  NoneStarts
    <3>1. agent' = [agent EXCEPT ![nextId] = NewMCP(n, want, give, 0)] /\ nextId \in Ids
      BY <2>3 DEF SpawnMCP, AddAgent
    <3>2. agent[nextId].kind = "none"
      BY <3>1, IdsArePositive DEF FreshIds
    <3> QED
      BY <1>0, <3>1, <3>2, NoneStartsOne
  <2>4. CASE PayFreed \/ \E n \in Nodes, x \in Items : Sell(n, x)
    BY <2>4, NoneStartsSame DEF PayFreed, Sell, agentVars
  <2> QED
    BY <2>1, <2>2, <2>3, <2>4 DEF User
<1> QED
  BY <1>1, <1>2, ReservationCarried

(* Without agents nobody negotiates, whatever is marked.                   *)
LEMMA ReservationOfNobody ==
  ASSUME \A j \in Ids : agent[j].kind = "none"
  PROVE  ReservationInv
  BY DEF ReservationInv, MarkedWhileNegotiating, ExclusiveNegotiation, DownIsEmpty, Negotiating,
     Is

LEMMA ReservationStep ==
  ASSUME TypeOK, FreshIds, ReservationInv, [Next]_vars
  PROVE  ReservationInv'
<1>0. AgentsTypeOK
  BY DEF TypeOK
<1>1. CASE CloseCluster \/ KillCluster
  <2>1. \A j \in Ids : agent'[j].kind = "none"
    BY <1>1, NoAgentType DEF CloseCluster, KillCluster, ClusterGone
  <2> QED
    BY <2>1 DEF ReservationInv, MarkedWhileNegotiating, ExclusiveNegotiation, DownIsEmpty,
       Negotiating, Is
<1>2. CASE StartCluster
  <2>1. \A j \in Ids : agent'[j].kind = "none"
    BY <1>2 DEF StartCluster, ReservationInv, DownIsEmpty
  <2> QED
    BY <2>1 DEF ReservationInv, MarkedWhileNegotiating, ExclusiveNegotiation, DownIsEmpty,
       Negotiating, Is
<1> SUFFICES ASSUME ~CloseCluster, ~KillCluster, ~StartCluster PROVE ReservationInv'
  BY <1>1, <1>2
<1>3. IdentitiesKept
  BY IdentityStep
<1>4. ASSUME NEW i \in Ids, UpdateAgent(i) PROVE ReservationInv'
  BY <1>3, <1>4, ReservationOfUpdate
<1>5. ASSUME NEW i \in Ids, ExchangeAgent(i) \/ PruneAgent(i) PROVE ReservationInv'
  <2>1. /\ agent' = agent \/ \E S : agent' = AfterStop(S)
        /\ used' = used
        /\ phase' # "down"
    BY <1>5
    DEF ExchangeAgent, MCCExchange, MCPExchange, AskPayment, Abort, PruneAgent, Visit,
        agentVars, nodeVars
  <2>2. NoneStarts
    BY <1>0, <2>1, NoneStartsSame, NoneStartsStopped
  <2> QED
    BY <1>3, <2>1, <2>2, ReservationCarried
<1>6. CASE Deliver
  BY <1>3, <1>6, ReservationOfDeliver
<1>7. CASE User
  BY <1>3, <1>7, ReservationOfUser
<1>8. CASE \/ UpdateEnds \/ ExchangeEnds \/ PruneEnds \/ NoClick \/ FrameEnds \/ YellowPages
           \/ YellowPagesEnds \/ YellowPagesStarts \/ UNCHANGED vars
  <2>1. agent' = agent /\ used' = used /\ (phase' = "down" => phase = "down")
    BY <1>8
    DEF UpdateEnds, ExchangeEnds, PruneEnds, LoopEnds, NoClick, GUIDone, FrameEnds, YellowPages,
        YellowPagesEnds, YellowPagesStarts, vars, agentVars, nodeVars, frameVars
  <2> QED
    BY <1>3, <2>1, NoneStartsSame, ReservationCarried
<1> QED
  BY <1>4, <1>5, <1>6, <1>7, <1>8 DEF Next, Loops, Faults

LEMMA ReservationInit == Init => ReservationInv
<1> SUFFICES ASSUME Init PROVE ReservationInv
  OBVIOUS
<1>1. \A j \in Ids : agent[j].kind = "none"
  BY NoAgentType DEF Init, AgentsInit
<1> QED
  BY <1>1, ReservationOfNobody

(* An item is marked as long as an MCC negotiates it, and no two MCCs of a *)
(* node negotiate the same item: also when negotiations are refused, when  *)
(* their agents are stopped, and when the process ends in the middle.      *)
THEOREM NegotiationsAreReserved == Spec => []ReservationInv
<1>1. BargainInv => FreshIds
  BY DEF BargainInv
<1>2. TypeOK /\ FreshIds /\ ReservationInv /\ [Next]_vars => ReservationInv'
  BY ReservationStep
<1> QED
  BY <1>1, <1>2, ReservationInit, TypeCorrect, BargainsAreTrue, PTL DEF Spec

(* Two MCCs of a node never negotiate the same item at once, so a single   *)
(* spare copy is never promised to two petitioners.                        *)
THEOREM NegotiationsExclude == Spec => []ExclusiveNegotiation
<1>1. ReservationInv => ExclusiveNegotiation
  BY DEF ReservationInv
<1> QED
  BY <1>1, NegotiationsAreReserved, PTL

=============================================================================
