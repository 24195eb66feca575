--------------------------- MODULE Ownership_proofs ---------------------------
(***************************************************************************)
(* Proofs about who works for whom, and what follows: no agent works for   *)
(* nobody when a frame starts, the node cluster implements Barter, and     *)
(* exchanges conserve the items.                                           *)
(***************************************************************************)
EXTENDS ClusterBarter, Trade_proofs

Nested(m) == agent[m].kind = "MCP" /\ agent[m].depth > 0

(* A nested search trades with no one: it gets no further than its list.   *)
Quiet(m) ==
  Nested(m) =>
    /\ agent[m].state \in {MCP_INIT, MCP_REQUESTING_MCCs, MCP_ITERATING_OVER_MCCs}
    /\ agent[m].child = Nobody

QuietSearches == \A m \in Ids : Quiet(m)

-----------------------------------------------------------------------------
(* What a step may do to the agents that work for each other.              *)

(* Only the update() of an MCC ends its negotiation, and its life.         *)
MCCTurn(j) ==
  LET a == agent[j]
      b == agent'[j]
  IN  a.kind = "MCC" =>
        /\ a.valid /\ ~b.valid => a.state = MCC_FINISHED /\ UpdateAgent(j)
        /\ a.state = MCC_NEGOCIATING =>
             \/ b.state = a.state
             \/ UpdateAgent(j) /\ b.state = MCC_FINISHED
             \/ UpdateAgent(j) /\ b.state = MCC_IDLE /\ ~agent'[a.child].valid

(* A UCC is destroyed by its MCC.                                          *)
UCCTurn(j) ==
  agent[j].kind = "UCC" /\ agent[j].valid /\ ~agent'[j].valid =>
    \E p \in Ids :
      /\ agent[p].kind = "MCC" /\ agent[p].child = j
      /\ \/ Refused(j) /\ Negotiating(p) /\ agent'[p].state = MCC_IDLE
         \/ ExchangeAgent(p)
         \/ PruneAgent(p)

(* The child of search j and the one below it are destroyed.               *)
SearchStopped(j) ==
  agent[j].child # Nobody =>
    /\ ~agent'[agent[j].child].valid
    /\ ChildOf(j).child # Nobody => ~agent'[ChildOf(j).child].valid

(* MCP j leaves a state which is not the one it bargains in.               *)
MCPMoves(j) ==
  LET a == agent[j]
      b == agent'[j]
  IN  \/ a.state = MCP_INIT /\ b.state = MCP_REQUESTING_MCCs /\ UpdateAgent(j)
      \/ a.state = MCP_REQUESTING_MCCs /\ b.state = MCP_ITERATING_OVER_MCCs
      \/ /\ a.state = MCP_ITERATING_OVER_MCCs /\ UpdateAgent(j)
         /\ b.state \in {MCP_WAIT_ACCEPTANCE, MCP_FINISHED}
      \/ /\ a.state = MCP_WAIT_ACCEPTANCE
         /\ b.state \in {MCP_NEGOCIATING_UCP_RES, MCP_ITERATING_OVER_MCCs}

MCPTurn(j) ==
  LET a == agent[j]
      b == agent'[j]
  IN  a.kind = "MCP" =>
        /\ \/ b.child = a.child
           \/ /\ a.state = MCP_WAIT_ACCEPTANCE /\ b.state = MCP_NEGOCIATING_UCP_RES
              /\ b.child = nextId
        /\ \/ b.success = a.success /\ b.state = a.state
           \/ b.success = a.success /\ MCPMoves(j)
           \/ /\ UCPHasResult(j) /\ ChildOf(j).success /\ UpdateAgent(j)
              /\ b.success /\ b.state = MCP_FINISHED
           \/ /\ UCPHasResult(j) /\ ~ChildOf(j).success /\ UpdateAgent(j)
              /\ b.success = a.success /\ b.state = MCP_ITERATING_OVER_MCCs
              /\ SearchStopped(j)
        /\ TopSearch(j) /\ a.valid /\ ~b.valid => MCPFinished(j) /\ SearchStopped(j)

(* A UCP is destroyed with the search that created it, or by it.           *)
UCPTurn(j) ==
  LET a == agent[j]
      b == agent'[j]
  IN  a.kind = "UCP" =>
        /\ b.child = a.child \/ (a.state = UCP_REQUEST_ITEM /\ b.state = UCP_IDLE)
        /\ \/ b.success = a.success /\ b.state = a.state
           \/ b.success = a.success /\ a.state = UCP_INIT /\ b.state = UCP_REQUEST_ITEM
           \/ b.success = a.success /\ a.state = UCP_REQUEST_ITEM /\ b.state = UCP_IDLE
           \/ a.state = UCP_REQUEST_ITEM /\ b.state = UCP_FINISHED
           \/ /\ a.state = UCP_IDLE /\ b.state = UCP_FINISHED /\ UpdateAgent(j)
              /\ a.child # Nobody
              /\ b.success => ChildOf(j).state = UCP_FINISHED
        /\ a.valid /\ ~b.valid =>
             \E q \in Ids :
               /\ agent[q].kind = "MCP" /\ agent[q].child = j
               /\ \/ UCPHasResult(q) /\ ~a.success /\ agent'[q].state = MCP_ITERATING_OVER_MCCs
                  \/ MCPFinished(q) /\ agent[q].valid /\ ~agent'[q].valid

Turn(j) == MCCTurn(j) /\ UCCTurn(j) /\ MCPTurn(j) /\ UCPTurn(j)

(* A new agent is valid, and someone who now waits for it has created it.  *)
Arrives(j) ==
  LET b == agent'[j]
  IN  b.kind # "none" =>
        /\ b.valid
        /\ b.kind = "UCC" =>
             \E p \in Ids : /\ Is(p, "MCC", MCC_IDLE) /\ agent'[p].state = MCC_NEGOCIATING
                            /\ agent'[p].child = j
        /\ b.kind = "UCP" =>
             \E q \in Ids : /\ Is(q, "MCP", MCP_WAIT_ACCEPTANCE)
                            /\ agent'[q].state = MCP_NEGOCIATING_UCP_RES
                            /\ agent'[q].child = j
                            /\ b.want = agent[q].want /\ b.give = agent[q].give
        /\ b.kind = "MCP" /\ b.depth = 0 => b.node \in Nodes
        /\ b.kind = "MCP" /\ b.depth > 0 =>
             \E u \in Ids : /\ Is(u, "UCP", UCP_REQUEST_ITEM) /\ agent'[u].state = UCP_IDLE
                            /\ agent'[u].child = j

Turns ==
  \A j \in Ids : IF agent[j].kind = "none" THEN Arrives(j) ELSE Turn(j)

LEMMA TurnOfSame ==
  ASSUME NEW j \in Ids, agent'[j] = agent[j]
  PROVE  Turn(j)
  BY DEF Turn, MCCTurn, UCCTurn, MCPTurn, UCPTurn

LEMMA TurnsOfSame ==
  ASSUME agent' = agent
  PROVE  Turns
<1> SUFFICES ASSUME NEW j \in Ids
             PROVE  IF agent[j].kind = "none" THEN Arrives(j) ELSE Turn(j)
  BY DEF Turns
<1>1. agent'[j] = agent[j]
  OBVIOUS
<1> QED
  BY <1>1, TurnOfSame DEF Arrives

LEMMA TurnsOfOne ==
  ASSUME AgentsTypeOK, NEW i \in Ids, NEW e, agent' = [agent EXCEPT ![i] = e],
         agent[i].kind # "none", Turn(i)
  PROVE  Turns
<1> SUFFICES ASSUME NEW j \in Ids, j # i
             PROVE  IF agent[j].kind = "none" THEN Arrives(j) ELSE Turn(j)
  BY DEF Turns
<1>1. agent'[j] = agent[j]
  BY DEF AgentsTypeOK
<1> QED
  BY <1>1, TurnOfSame DEF Arrives

(* Agent i changes its state, or its verdict and its state.                *)
LEMMA OneMoves ==
  ASSUME AgentsTypeOK, NEW i \in Ids, NEW s,
         agent' = [agent EXCEPT ![i] = [@ EXCEPT !.state = s]]
  PROVE  /\ agent'[i].state = s /\ agent'[i].success = agent[i].success
         /\ agent'[i].child = agent[i].child /\ agent'[i].valid = agent[i].valid
<1>1. agent[i] \in Agent /\ agent \in [Ids -> Agent]
  BY AgentParts
<1>2. agent'[i] = [agent[i] EXCEPT !.state = s]
  BY <1>1
<1> QED
  BY <1>1, <1>2 DEF Agent

LEMMA OneConcludes ==
  ASSUME AgentsTypeOK, NEW i \in Ids, NEW b \in BOOLEAN, NEW s,
         agent' = [agent EXCEPT ![i] = [@ EXCEPT !.success = b, !.state = s]]
  PROVE  /\ agent'[i].state = s /\ (agent'[i].success <=> b)
         /\ agent'[i].child = agent[i].child /\ agent'[i].valid = agent[i].valid
<1>1. agent[i] \in Agent /\ agent \in [Ids -> Agent]
  BY AgentParts
<1>2. agent'[i] = [agent[i] EXCEPT !.success = b, !.state = s]
  BY <1>1
<1> QED
  BY <1>1, <1>2 DEF Agent

(* Whom stop() reaches from agent i.                                       *)
LEMMA BelowIs ==
  ASSUME NEW S, NEW x
  PROVE  x \in Below(S) <=>
           x \in S \/ (x \in Ids /\ \E k \in S : k \in Ids /\ agent[k].child = x)
  BY DEF Below

LEMMA SearchIs ==
  ASSUME AgentsTypeOK, ChildrenTyped, QuietSearches, NEW i \in Ids,
         agent[i].kind \in {"MCP", "UCP"}, NEW x
  PROVE  x \in Search(i) <=>
           \/ x = i
           \/ /\ x \in Ids /\ agent[i].child \in Ids
              /\ x = agent[i].child \/ x = ChildOf(i).child
<1> DEFINE c == agent[i].child
<1>1. x \in Below({i}) <=> x = i \/ (x \in Ids /\ x = c)
  BY BelowIs
<1>2. \A y : y \in Below({i}) <=> y = i \/ (y \in Ids /\ y = c)
  BY BelowIs
<1>3. \A y : y \in Below(Below({i})) <=>
          y = i \/ (y \in Ids /\ y = c) \/ (y \in Ids /\ c \in Ids /\ y = agent[c].child)
  BY <1>2, BelowIs
<1>4. ASSUME c \in Ids, agent[c].child \in Ids
      PROVE  agent[agent[c].child].child = Nobody
  <2> DEFINE g == agent[c].child
  <2>1. agent[c].kind \in {"MCP", "UCP"} /\ c # Nobody /\ g # Nobody
    BY <1>4, IdsArePositive DEF ChildrenTyped, ChildOf
  <2>2. agent[i].kind = "UCP" => Nested(c)
    BY <2>1 DEF ChildrenTyped, ChildOf, Nested
  <2>3. agent[i].kind = "MCP" => agent[c].kind = "UCP"
    BY <2>1 DEF ChildrenTyped, ChildOf
  <2>4. agent[i].kind = "MCP" => Nested(g)
    BY <1>4, <2>1, <2>3 DEF ChildrenTyped, ChildOf, Nested
  <2> QED
    BY <1>4, <2>1, <2>2, <2>4 DEF QuietSearches, Quiet
<1>5. Search(i) = Below(Below(Below({i})))
  BY DEF Search
<1>6. x \in Search(i) <=> x \in Below(Below({i})) \/
         (x \in Ids /\ \E k \in Below(Below({i})) : k \in Ids /\ agent[k].child = x)
  BY <1>5, BelowIs
<1> QED
  BY <1>3, <1>4, <1>6, IdsArePositive DEF ChildOf

(* The stop() of an MCC, and that of a search of the user's.               *)
LEMMA TurnsOfStopped ==
  ASSUME AgentsTypeOK, ChildrenTyped, QuietSearches, NEW i \in Ids, agent' = AfterStop({i}),
         \/ /\ agent[i].kind = "MCC" /\ agent[i].state # MCC_NEGOCIATING
            /\ ExchangeAgent(i) \/ PruneAgent(i)
         \/ MCPFinished(i) /\ agent[i].valid
  PROVE  Turns
<1> SUFFICES ASSUME NEW j \in Ids
             PROVE  IF agent[j].kind = "none" THEN Arrives(j) ELSE Turn(j)
  BY DEF Turns
<1>1. \A k \in Ids :
        /\ agent'[k].kind = agent[k].kind
        /\ agent'[k].child = agent[k].child /\ agent'[k].success = agent[k].success
        /\ agent'[k].valid <=> agent[k].valid /\ k \notin DestroyedByStop({i})
        /\ agent'[k].state = IF k = i /\ agent[k].kind = "MCC" THEN MCC_FINISHED
                             ELSE agent[k].state
  BY StoppedFields DEF Ages, SameIdentity
<1>2. CASE agent[i].kind = "MCC"
  <2>1. \A k : k \in DestroyedByStop({i}) <=> k = agent[i].child /\ k # Nobody
    BY <1>2 DEF DestroyedByStop
  <2>2. agent[i].child # Nobody => ChildOf(i).kind = "UCC"
    BY <1>2 DEF ChildrenTyped
  <2>3. ExchangeAgent(i) \/ PruneAgent(i)
    BY <1>2 DEF MCPFinished, Is
  <2>4. j \in DestroyedByStop({i}) => agent[j].kind = "UCC" /\ agent[i].child = j
    BY <2>1, <2>2 DEF ChildOf
  <2>5. agent[i].state # MCC_NEGOCIATING
    BY <1>2 DEF MCPFinished, Is
  <2> QED
    BY <1>1, <1>2, <2>3, <2>4, <2>5
    DEF Turn, MCCTurn, UCCTurn, MCPTurn, UCPTurn, Arrives, TopSearch
<1>3. CASE MCPFinished(i) /\ agent[i].valid
  <2>1. agent[i].kind = "MCP" /\ agent[i].depth = 0
    BY <1>3 DEF MCPFinished, Is
  <2>2. \A k : k \in DestroyedByStop({i}) <=> k \in Search(i)
    BY <2>1 DEF DestroyedByStop
  <2> DEFINE c == agent[i].child
  <2>3. \A k \in Ids : k \in DestroyedByStop({i}) <=>
                         k = i \/ (c \in Ids /\ (k = c \/ k = ChildOf(i).child))
    BY <2>1, <2>2, SearchIs
  <2>4. /\ c \in Ids => agent[c].kind = "UCP"
        /\ c \in Ids /\ agent[c].child # Nobody =>
             /\ agent[c].child \in Ids
             /\ agent[agent[c].child].kind = "MCP" /\ agent[agent[c].child].depth > 0
    BY <2>1, IdsArePositive, AgentParts DEF ChildrenTyped, ChildOf
  <2>5. SearchStopped(i)
    BY <1>1, <2>3, <2>4, AgentParts DEF SearchStopped, ChildOf
  <2>6. agent'[i].valid = FALSE
    <3>1. agent'[i].valid \in BOOLEAN
      BY AfterStopType DEF AgentsTypeOK, Agent
    <3> QED
      BY <1>1, <2>3, <3>1
  <2>a. agent[j].valid /\ ~agent'[j].valid =>
          \/ j = i
          \/ j = c /\ agent[j].kind = "UCP"
          \/ agent[j].kind = "MCP" /\ agent[j].depth > 0
    <3>1. agent[j].valid /\ ~agent'[j].valid => j \in DestroyedByStop({i})
      BY <1>1
    <3>2. j # Nobody
      BY IdsArePositive
    <3> QED
      BY <2>3, <2>4, <3>1, <3>2 DEF ChildOf
  <2>7. MCCTurn(j) /\ UCCTurn(j)
    BY <1>1, <2>1, <2>a DEF MCCTurn, UCCTurn
  <2>8. MCPTurn(j)
    <3>1. TopSearch(j) /\ agent[j].valid /\ ~agent'[j].valid => j = i
      BY <2>a DEF TopSearch
    <3> QED
      BY <1>1, <1>3, <2>1, <2>5, <3>1 DEF MCPTurn
  <2>9. UCPTurn(j)
    <3>1. agent[j].kind = "UCP" /\ agent[j].valid /\ ~agent'[j].valid => j = c
      BY <2>1, <2>a
    <3> QED
      BY <1>1, <1>3, <2>1, <2>6, <3>1 DEF UCPTurn
  <2> QED
    BY <1>1, <2>7, <2>8, <2>9 DEF Turn, Arrives
<1> QED
  BY <1>2, <1>3

(* An agent that moves as one of these in a step of its own.               *)
LEMMA TurnsOfContributorUpdate ==
  ASSUME AgentsTypeOK, ChildrenTyped, NEW i \in Ids, UpdateAgent(i), ContributorUpdate(i)
  PROVE  Turns
<1> USE DEF Is
<1>1. CASE MCCRegister(i) \/ UCCStart(i)
  <2>1. PICK s : agent' = [agent EXCEPT ![i] = [@ EXCEPT !.state = s]]
    BY <1>1 DEF MCCRegister, UCCStart
  <2>2. agent[i].kind \in {"MCC", "UCC"}
        /\ (agent[i].kind = "MCC" => agent[i].state # MCC_NEGOCIATING)
    BY <1>1 DEF MCCRegister, UCCStart, MCC_INIT, MCC_NEGOCIATING
  <2>3. agent'[i].valid = agent[i].valid
    BY <2>1, OneMoves
  <2>4. Turn(i)
    BY <2>2, <2>3 DEF Turn, MCCTurn, UCCTurn, MCPTurn, UCPTurn
  <2> QED
    BY <2>1, <2>2, <2>4, TurnsOfOne
<1>2. CASE MCCConclude(i) /\ agent[agent[i].child].success
  <2>1. agent' = [agent EXCEPT ![i] = [@ EXCEPT !.state = MCC_FINISHED]]
    BY <1>2 DEF MCCConclude
  <2>2. agent[i].kind = "MCC"
    BY <1>2 DEF MCCConclude, UCCHasResult
  <2>3. agent'[i].valid = agent[i].valid /\ agent'[i].state = MCC_FINISHED
    BY <2>1, OneMoves
  <2>4. Turn(i)
    BY <2>2, <2>3 DEF Turn, MCCTurn, UCCTurn, MCPTurn, UCPTurn
  <2> QED
    BY <2>1, <2>2, <2>4, TurnsOfOne
<1>3. CASE MCCConclude(i) /\ ~agent[agent[i].child].success
  <2> DEFINE c == agent[i].child
  <2>1. /\ agent[i].kind = "MCC" /\ agent[i].state = MCC_NEGOCIATING
        /\ c \in Ids /\ agent[c].kind = "UCC" /\ Refused(c) /\ i # c
    BY <1>3, AgentParts DEF MCCConclude, UCCHasResult, ChildrenTyped, ChildOf, Refused
  <2>2. agent' = [[agent EXCEPT ![c].valid = FALSE] EXCEPT ![i].state = MCC_IDLE]
    BY <1>3 DEF MCCConclude
  <2>3. /\ agent'[c] = [agent[c] EXCEPT !.valid = FALSE]
        /\ agent'[i] = [agent[i] EXCEPT !.state = MCC_IDLE]
        /\ \A j \in Ids : j # i /\ j # c => agent'[j] = agent[j]
    BY <2>1, <2>2, AgentParts DEF AgentsTypeOK
  <2>4. /\ ~agent'[c].valid
        /\ agent'[i].state = MCC_IDLE /\ agent'[i].valid = agent[i].valid
    BY <2>1, <2>3, AgentParts DEF Agent
  <2>5. Turn(i)
    BY <2>1, <2>4 DEF Turn, MCCTurn, UCCTurn, MCPTurn, UCPTurn
  <2>6. Turn(c)
    BY <2>1, <2>4 DEF Turn, MCCTurn, UCCTurn, MCPTurn, UCPTurn, Negotiating
  <2> SUFFICES ASSUME NEW j \in Ids, j # i, j # c
               PROVE  IF agent[j].kind = "none" THEN Arrives(j) ELSE Turn(j)
    BY <2>1, <2>5, <2>6 DEF Turns
  <2> QED
    BY <2>3, TurnOfSame DEF Arrives
<1>4. CASE MCCDestroy(i)
  <2>1. agent' = [agent EXCEPT ![i] = [@ EXCEPT !.valid = FALSE]]
    BY <1>4 DEF MCCDestroy
  <2>2. agent[i].kind = "MCC" /\ agent[i].state = MCC_FINISHED
    BY <1>4 DEF MCCDestroy
  <2>3. agent'[i].state = agent[i].state
    BY <2>1, AgentParts DEF Agent
  <2>4. Turn(i)
    BY <2>2, <2>3 DEF Turn, MCCTurn, UCCTurn, MCPTurn, UCPTurn
  <2> QED
    BY <2>1, <2>2, <2>4, TurnsOfOne
<1> QED
  BY <1>1, <1>2, <1>3, <1>4 DEF ContributorUpdate

LEMMA TurnsOfPetitionerUpdate ==
  ASSUME AgentsTypeOK, ChildrenTyped, QuietSearches, NEW i \in Ids, UpdateAgent(i),
         PetitionerUpdate(i)
  PROVE  Turns
<1> USE DEF Is
<1>1. CASE MCPQuery(i) \/ MCPIterate(i)
  <2>1. PICK s : /\ agent' = [agent EXCEPT ![i] = [@ EXCEPT !.state = s]]
                 /\ agent[i].kind = "MCP"
                 /\ \/ agent[i].state = MCP_INIT /\ s = MCP_REQUESTING_MCCs
                    \/ /\ agent[i].state = MCP_ITERATING_OVER_MCCs
                       /\ s \in {MCP_WAIT_ACCEPTANCE, MCP_FINISHED}
    BY <1>1 DEF MCPQuery, MCPIterate
  <2>2. /\ agent'[i].state = s /\ agent'[i].success = agent[i].success
        /\ agent'[i].child = agent[i].child /\ agent'[i].valid = agent[i].valid
    BY <2>1, OneMoves
  <2>3. Turn(i)
    BY <2>1, <2>2 DEF Turn, MCCTurn, UCCTurn, MCPTurn, UCPTurn, MCPMoves
  <2> QED
    BY <2>1, <2>3, TurnsOfOne
<1>2. CASE UCPStart(i)
  <2>1. /\ agent' = [agent EXCEPT ![i] = [@ EXCEPT !.state = UCP_REQUEST_ITEM]]
        /\ agent[i].kind = "UCP" /\ agent[i].state = UCP_INIT
    BY <1>2 DEF UCPStart
  <2>2. /\ agent'[i].state = UCP_REQUEST_ITEM /\ agent'[i].success = agent[i].success
        /\ agent'[i].child = agent[i].child /\ agent'[i].valid = agent[i].valid
    BY <2>1, OneMoves
  <2>3. Turn(i)
    BY <2>1, <2>2 DEF Turn, MCCTurn, UCCTurn, MCPTurn, UCPTurn
  <2> QED
    BY <2>1, <2>3, TurnsOfOne
<1>3. CASE UCPConclude(i)
  <2>1. PICK b \in BOOLEAN :
          /\ agent' = [agent EXCEPT ![i] = [@ EXCEPT !.success = b, !.state = UCP_FINISHED]]
          /\ b = (agent[agent[i].child].state = UCP_FINISHED)
    BY <1>3 DEF UCPConclude
  <2>2. agent[i].kind = "UCP" /\ agent[i].state = UCP_IDLE /\ agent[i].child # Nobody
    BY <1>3 DEF UCPConclude
  <2>3. /\ agent'[i].state = UCP_FINISHED /\ (agent'[i].success <=> b)
        /\ agent'[i].child = agent[i].child /\ agent'[i].valid = agent[i].valid
    BY <2>1, OneConcludes
  <2>4. agent'[i].success => ChildOf(i).state = UCP_FINISHED
    BY <2>1, <2>3 DEF ChildOf
  <2>5. Turn(i)
    BY <2>2, <2>3, <2>4 DEF Turn, MCCTurn, UCCTurn, MCPTurn, UCPTurn
  <2> QED
    BY <2>1, <2>2, <2>5, TurnsOfOne
<1>4. CASE MCPConclude(i) /\ agent[agent[i].child].success
  <2>1. PICK b \in BOOLEAN :
          b /\ agent' = [agent EXCEPT ![i] = [@ EXCEPT !.success = b, !.state = MCP_FINISHED]]
    BY <1>4 DEF MCPConclude
  <2>2. agent[i].kind = "MCP" /\ UCPHasResult(i) /\ ChildOf(i).success
    BY <1>4 DEF MCPConclude, UCPHasResult, ChildOf
  <2>3. /\ agent'[i].state = MCP_FINISHED /\ agent'[i].success
        /\ agent'[i].child = agent[i].child /\ agent'[i].valid = agent[i].valid
    BY <2>1, OneConcludes
  <2>4. Turn(i)
    BY <2>2, <2>3 DEF Turn, MCCTurn, UCCTurn, MCPTurn, UCPTurn
  <2> QED
    BY <2>1, <2>2, <2>4, TurnsOfOne
<1>5. CASE MCPConclude(i) /\ ~agent[agent[i].child].success
  <2> DEFINE c == agent[i].child
  <2>1. /\ agent[i].kind = "MCP" /\ UCPHasResult(i) /\ ~ChildOf(i).success
        /\ c \in Ids /\ c # Nobody /\ agent[c].kind = "UCP"
    BY <1>5, AgentParts DEF MCPConclude, UCPHasResult, ChildrenTyped, ChildOf
  <2>2. PICK f \in [Ids -> Agent] : f = AfterStop({c})
    BY AfterStopType DEF AgentsTypeOK
  <2>3. agent' = [f EXCEPT ![i] = NextContributor(@)]
    BY <1>5, <2>2 DEF MCPConclude
  <2>4. \A k : k \in DestroyedByStop({c}) <=> k \in Search(c)
    BY <2>1 DEF DestroyedByStop
  <2>5. \A k \in Ids : k \in DestroyedByStop({c}) <=>
            k = c \/ (agent[c].child \in Ids
                      /\ (k = agent[c].child \/ k = agent[agent[c].child].child))
    BY <2>1, <2>4, SearchIs DEF ChildOf
  <2>6. agent[c].child \in Ids =>
          /\ agent[agent[c].child].kind = "MCP" /\ agent[agent[c].child].depth > 0
          /\ agent[agent[c].child].child = Nobody
    BY <2>1, IdsArePositive DEF ChildrenTyped, ChildOf, QuietSearches, Quiet, Nested
  <2>7. \A k \in Ids :
          /\ f[k].kind = agent[k].kind
          /\ f[k].child = agent[k].child /\ f[k].success = agent[k].success
          /\ f[k].valid <=> agent[k].valid /\ k \notin DestroyedByStop({c})
          /\ f[k].state = agent[k].state
    <3>1. \A k \in Ids : k \in {c} => agent[k].kind # "MCC"
      BY <2>1
    <3> QED
      BY <2>2, <3>1, StoppedFields DEF Ages, SameIdentity
  <2>8. /\ agent'[i].child = agent[i].child /\ agent'[i].success = agent[i].success
        /\ agent'[i].valid = f[i].valid /\ agent'[i].state = MCP_ITERATING_OVER_MCCs
        /\ agent'[i].kind = agent[i].kind
    <3>1. agent'[i] = NextContributor(f[i]) /\ f[i] \in Agent
      BY <2>2, <2>3
    <3> QED
      BY <2>7, <3>1 DEF NextContributor, Agent
  <2>9. \A k \in Ids : k # i => agent'[k] = f[k]
    BY <2>2, <2>3
  <2>10. \A k \in Ids :
           agent[k].valid /\ ~agent'[k].valid =>
             \/ k = c \/ (agent[k].kind = "MCP" /\ agent[k].depth > 0)
    <3> TAKE k \in Ids
    <3>1. agent[k].valid /\ ~agent'[k].valid => k \in DestroyedByStop({c})
      BY <2>7, <2>8, <2>9
    <3> QED
      BY <2>5, <2>6, <3>1, IdsArePositive
  <2>11. SearchStopped(i)
    <3>1. ~agent'[c].valid
      BY <2>1, <2>5, <2>7, <2>9
    <3>2. agent[c].child # Nobody => ~agent'[agent[c].child].valid
      <4>1. agent[c].child # Nobody => agent[c].child \in Ids
        BY <2>1, AgentParts
      <4>2. agent[c].child # Nobody => agent[c].child \in DestroyedByStop({c})
        BY <2>5, <4>1
      <4> QED
        BY <2>7, <2>8, <2>9, <4>1, <4>2
    <3> QED
      BY <3>1, <3>2 DEF SearchStopped, ChildOf
  <2> SUFFICES ASSUME NEW j \in Ids
               PROVE  IF agent[j].kind = "none" THEN Arrives(j) ELSE Turn(j)
    BY DEF Turns
  <2>12. /\ agent'[j].kind = agent[j].kind
         /\ agent'[j].child = agent[j].child /\ agent'[j].success = agent[j].success
         /\ j # i => agent'[j].state = agent[j].state
    BY <2>7, <2>8, <2>9
  <2>13. MCCTurn(j) /\ UCCTurn(j)
    BY <2>1, <2>10, <2>12 DEF MCCTurn, UCCTurn
  <2>14. MCPTurn(j)
    BY <2>1, <2>8, <2>10, <2>11, <2>12 DEF MCPTurn, TopSearch
  <2>15. UCPTurn(j)
    BY <2>1, <2>8, <2>10, <2>12 DEF UCPTurn, ChildOf
  <2> QED
    BY <2>12, <2>13, <2>14, <2>15 DEF Turn, Arrives
<1> QED
  BY <1>1, <1>2, <1>3, <1>4, <1>5 DEF PetitionerUpdate

(* Agent i creates a child that waits for it.                              *)
LEMMA TurnsOfCreateChild ==
  ASSUME AgentsTypeOK, FreshIds, NEW i \in Ids, NEW parent \in Agent, NEW child,
         CreateChild(i, parent, child), parent.valid = agent[i].valid,
         parent.success = agent[i].success, child.valid,
         \/ Is(i, "MCC", MCC_IDLE) /\ parent.state = MCC_NEGOCIATING /\ child.kind = "UCC"
         \/ /\ Is(i, "MCP", MCP_WAIT_ACCEPTANCE) /\ parent.state = MCP_NEGOCIATING_UCP_RES
            /\ child.kind = "UCP" /\ child.want = agent[i].want /\ child.give = agent[i].give
         \/ /\ Is(i, "UCP", UCP_REQUEST_ITEM) /\ parent.state = UCP_IDLE
            /\ child.kind = "MCP" /\ child.depth > 0
  PROVE  Turns
<1>1. nextId \in Ids /\ agent[nextId].kind = "none" /\ nextId # i
  BY IdsArePositive DEF CreateChild, AddAgent, FreshIds, Is
<1>2. /\ agent'[nextId] = child
      /\ agent'[i] = [parent EXCEPT !.child = nextId]
      /\ \A j \in Ids : j # i /\ j # nextId => agent'[j] = agent[j]
  BY <1>1 DEF CreateChild
<1>3. /\ agent'[i].child = nextId /\ agent'[i].state = parent.state
      /\ agent'[i].valid = agent[i].valid /\ agent'[i].success = agent[i].success
  BY <1>2 DEF Agent
<1>4. Arrives(nextId)
  <2>1. CASE Is(i, "MCC", MCC_IDLE) /\ parent.state = MCC_NEGOCIATING /\ child.kind = "UCC"
    BY <1>2, <1>3, <2>1 DEF Arrives
  <2>2. CASE /\ Is(i, "MCP", MCP_WAIT_ACCEPTANCE) /\ parent.state = MCP_NEGOCIATING_UCP_RES
             /\ child.kind = "UCP" /\ child.want = agent[i].want /\ child.give = agent[i].give
    BY <1>2, <1>3, <2>2 DEF Arrives
  <2>3. CASE /\ Is(i, "UCP", UCP_REQUEST_ITEM) /\ parent.state = UCP_IDLE
             /\ child.kind = "MCP" /\ child.depth > 0
    <3>1. ~(child.depth = 0)
      BY <2>3
    <3> QED
      BY <1>2, <1>3, <2>3, <3>1 DEF Arrives
  <2> QED
    BY <2>1, <2>2, <2>3
<1>5. Turn(i)
  BY <1>3 DEF Turn, MCCTurn, UCCTurn, MCPTurn, UCPTurn, MCPMoves, Is, MCC_IDLE, MCC_NEGOCIATING
<1> SUFFICES ASSUME NEW j \in Ids, j # i, j # nextId
             PROVE  IF agent[j].kind = "none" THEN Arrives(j) ELSE Turn(j)
  BY <1>1, <1>4, <1>5 DEF Turns, Is
<1> QED
  BY <1>2, TurnOfSame DEF Arrives

LEMMA TurnsOfContributorReceive ==
  ASSUME AgentsTypeOK, FreshIds, NEW m \in msgs, m.dst \in Ids, ContributorReceive(m)
  PROVE  Turns
<1> USE DEF Is
<1>1. CASE ReceiveRegisterAck(m) \/ ReceiveItemRequest(m)
  <2>1. PICK s : agent' = [agent EXCEPT ![m.dst] = [@ EXCEPT !.state = s]]
    BY <1>1 DEF ReceiveRegisterAck, ReceiveItemRequest
  <2>2. agent[m.dst].kind \in {"MCC", "UCC"}
        /\ (agent[m.dst].kind = "MCC" => agent[m.dst].state # MCC_NEGOCIATING)
    BY <1>1 DEF ReceiveRegisterAck, ReceiveItemRequest, MCC_REGISTERING, MCC_NEGOCIATING
  <2>3. agent'[m.dst].valid = agent[m.dst].valid
    BY <2>1, OneMoves
  <2>4. Turn(m.dst)
    BY <2>2, <2>3 DEF Turn, MCCTurn, UCCTurn, MCPTurn, UCPTurn
  <2> QED
    BY <2>1, <2>2, <2>4, TurnsOfOne
<1>2. CASE ReceiveConstraintAcceptance(m)
  <2>1. /\ agent' = [agent EXCEPT ![m.dst] =
                       [@ EXCEPT !.success = m.accepted, !.state = UCC_FINISHED]]
        /\ agent[m.dst].kind = "UCC"
    BY <1>2 DEF ReceiveConstraintAcceptance
  <2>2. agent'[m.dst].valid = agent[m.dst].valid
    BY <2>1, AgentParts DEF Agent
  <2>3. Turn(m.dst)
    BY <2>1, <2>2 DEF Turn, MCCTurn, UCCTurn, MCPTurn, UCPTurn
  <2> QED
    BY <2>1, <2>3, TurnsOfOne
<1>3. CASE ReceiveNegotiationRequest(m) /\ ~NegotiationRequestAccepted(m)
  BY <1>3, TurnsOfSame
  DEF ReceiveNegotiationRequest, NegotiationRequestBusy, NegotiationRequestUsed
<1>4. CASE ReceiveNegotiationRequest(m) /\ NegotiationRequestAccepted(m)
  <2> DEFINE mcc == agent[m.dst]
             parent == [mcc EXCEPT !.state = MCC_NEGOCIATING]
             child == NewUCC(mcc.node, mcc.give, mcc.want)
  <2>1. Is(m.dst, "MCC", MCC_IDLE) /\ CreateChild(m.dst, parent, child)
    BY <1>4 DEF ReceiveNegotiationRequest, NegotiationRequestAccepted
  <2>2. MCC_NEGOCIATING \in 0..5
    BY DEF MCC_NEGOCIATING
  <2>3. parent \in Agent
    BY <2>2, AgentParts, AgentWith
  <2>4. parent.valid = mcc.valid /\ parent.success = mcc.success /\ parent.state = MCC_NEGOCIATING
    BY AgentParts DEF Agent
  <2>5. child.kind = "UCC" /\ child.valid
    BY DEF NewUCC, NewAgent
  <2> HIDE DEF parent, child
  <2> QED
    BY <2>1, <2>3, <2>4, <2>5, TurnsOfCreateChild
<1> QED
  BY <1>1, <1>2, <1>3, <1>4 DEF ContributorReceive

(* A UCP is asked for the constraint only while it waits for it.           *)
LEMMA TurnsOfPetitionerReceive ==
  ASSUME AgentsTypeOK, FreshIds, TimelyTokens, NEW m \in msgs, m.dst \in Ids,
         PetitionerReceive(m)
  PROVE  Turns
<1> USE DEF Is
<1>0. agent \in [Ids -> Agent] /\ agent[m.dst] \in Agent
  BY AgentParts
<1>1. CASE ReceiveMCCsForItem(m)
  <2>1. PICK r, k : agent' = [agent EXCEPT ![m.dst] =
                      [@ EXCEPT !.registers = r, !.index = k, !.state = MCP_ITERATING_OVER_MCCs]]
    BY <1>1 DEF ReceiveMCCsForItem
  <2>2. agent[m.dst].kind = "MCP" /\ agent[m.dst].state = MCP_REQUESTING_MCCs
    BY <1>1 DEF ReceiveMCCsForItem
  <2>3. agent'[m.dst] = [agent[m.dst] EXCEPT !.registers = r, !.index = k,
                                             !.state = MCP_ITERATING_OVER_MCCs]
    BY <1>0, <2>1
  <2>4. /\ agent'[m.dst].state = MCP_ITERATING_OVER_MCCs
        /\ agent'[m.dst].success = agent[m.dst].success
        /\ agent'[m.dst].child = agent[m.dst].child /\ agent'[m.dst].valid = agent[m.dst].valid
    BY <1>0, <2>3 DEF Agent
  <2>5. Turn(m.dst)
    BY <2>2, <2>4 DEF Turn, MCCTurn, UCCTurn, MCPTurn, UCPTurn, MCPMoves
  <2> QED
    BY <2>1, <2>2, <2>5, TurnsOfOne
<1>2. CASE ReceiveNegotiationResult(m) /\ ~m.available
  <2>1. agent' = [agent EXCEPT ![m.dst] = NextContributor(@)]
    BY <1>2 DEF ReceiveNegotiationResult
  <2>2. agent[m.dst].kind = "MCP" /\ agent[m.dst].state = MCP_WAIT_ACCEPTANCE
    BY <1>2 DEF ReceiveNegotiationResult
  <2>3. agent'[m.dst] = NextContributor(agent[m.dst])
    BY <1>0, <2>1
  <2>4. /\ agent'[m.dst].state = MCP_ITERATING_OVER_MCCs
        /\ agent'[m.dst].success = agent[m.dst].success
        /\ agent'[m.dst].child = agent[m.dst].child /\ agent'[m.dst].valid = agent[m.dst].valid
    BY <1>0, <2>3 DEF Agent, NextContributor
  <2>5. Turn(m.dst)
    BY <2>2, <2>4 DEF Turn, MCCTurn, UCCTurn, MCPTurn, UCPTurn, MCPMoves
  <2> QED
    BY <2>1, <2>2, <2>5, TurnsOfOne
<1>3. CASE ReceiveNegotiationResult(m) /\ m.available
  <2> DEFINE mcp == agent[m.dst]
             parent == [mcp EXCEPT !.state = MCP_NEGOCIATING_UCP_RES]
             child == NewUCP(mcp.want, mcp.give, m.location, mcp.depth)
  <2>1. Is(m.dst, "MCP", MCP_WAIT_ACCEPTANCE) /\ CreateChild(m.dst, parent, child)
    BY <1>3 DEF ReceiveNegotiationResult
  <2>2. MCP_NEGOCIATING_UCP_RES \in 0..5
    BY DEF MCP_NEGOCIATING_UCP_RES
  <2>3. parent \in Agent
    BY <2>2, AgentParts, AgentWith
  <2>4. /\ parent.valid = mcp.valid /\ parent.success = mcp.success
        /\ parent.state = MCP_NEGOCIATING_UCP_RES
    BY AgentParts DEF Agent
  <2>5. child.kind = "UCP" /\ child.valid /\ child.want = mcp.want /\ child.give = mcp.give
    BY DEF NewUCP, NewAgent
  <2> HIDE DEF parent, child
  <2> QED
    BY <2>1, <2>3, <2>4, <2>5, TurnsOfCreateChild
<1>4. CASE ReceiveConstraintRequest(m)
  <2>0. agent[m.dst].kind = "UCP" /\ agent[m.dst].state = UCP_REQUEST_ITEM
    BY <1>4 DEF ReceiveConstraintRequest, TimelyTokens, Timely
  <2>1. CASE ConstraintMet(m) \/ ConstraintTooDeep(m)
    <3>1. \/ \E b \in BOOLEAN : agent' = [agent EXCEPT ![m.dst] =
                                  [@ EXCEPT !.success = b, !.state = UCP_FINISHED]]
          \/ agent' = [agent EXCEPT ![m.dst] = [@ EXCEPT !.state = UCP_FINISHED]]
      BY <2>1 DEF ConstraintMet, ConstraintTooDeep
    <3>2. /\ agent'[m.dst].state = UCP_FINISHED
          /\ agent'[m.dst].child = agent[m.dst].child /\ agent'[m.dst].valid = agent[m.dst].valid
      <4>1. ASSUME NEW b \in BOOLEAN,
                   agent' = [agent EXCEPT ![m.dst] =
                               [@ EXCEPT !.success = b, !.state = UCP_FINISHED]]
            PROVE  /\ agent'[m.dst].state = UCP_FINISHED
                   /\ agent'[m.dst].child = agent[m.dst].child
                   /\ agent'[m.dst].valid = agent[m.dst].valid
        BY <1>0, <4>1, OneConcludes
      <4>2. CASE agent' = [agent EXCEPT ![m.dst] = [@ EXCEPT !.state = UCP_FINISHED]]
        BY <1>0, <4>2, OneMoves
      <4> QED
        BY <3>1, <4>1, <4>2
    <3>3. Turn(m.dst)
      BY <2>0, <3>2 DEF Turn, MCCTurn, UCCTurn, MCPTurn, UCPTurn
    <3> QED
      BY <2>0, <3>1, <3>3, TurnsOfOne
  <2>2. CASE agent[m.dst].depth # MaxSearchDepth /\ ConstraintSearched(m)
    <3> DEFINE ucp == agent[m.dst]
               parent == SearchingDeeper(ucp)
               child == NewMCP(ScratchNode, m.item, ucp.give, ucp.depth + 1)
    <3>1. parent \in Agent
      BY <1>0, <2>0, <2>2, SearchingDeeperType
    <3>2. parent.valid = ucp.valid /\ parent.success = ucp.success /\ parent.state = UCP_IDLE
      BY <1>0 DEF Agent, SearchingDeeper
    <3>3. child.kind = "MCP" /\ child.valid /\ child.depth > 0
      <4>1. child.kind = "MCP" /\ child.valid /\ child.depth = ucp.depth + 1
        BY DEF NewMCP, NewAgent
      <4>2. ucp.depth \in 0..MaxSearchDepth
        BY AgentParts
      <4> QED
        BY <4>1, <4>2 DEF MaxSearchDepth
    <3>4. CreateChild(m.dst, parent, child)
      BY <2>2 DEF ConstraintSearched
    <3> HIDE DEF parent, child
    <3> QED
      BY <2>0, <3>1, <3>2, <3>3, <3>4, TurnsOfCreateChild
  <2> QED
    BY <1>4, <2>1, <2>2 DEF ReceiveConstraintRequest
<1> QED
  BY <1>1, <1>2, <1>3, <1>4 DEF PetitionerReceive

LEMMA TurnsOfUser ==
  ASSUME TypeOK, FreshIds, ChildrenTyped, QuietSearches, PayerAlive, ~ClearAgents, User
  PROVE  Turns
<1>0. AgentsTypeOK /\ agent \in [Ids -> Agent]
  BY DEF TypeOK, AgentsTypeOK
<1>1. CASE CreateMCCs
  <2> SUFFICES ASSUME NEW j \in Ids
               PROVE  IF agent[j].kind = "none" THEN Arrives(j) ELSE Turn(j)
    BY DEF Turns
  <2> DEFINE new == {OfferId(o) : o \in Offers}
  <2>1. CASE j \in new
    <3>1. \E n, x, y : agent'[j] = NewMCC(n, x, y)
      BY <1>1, <2>1 DEF CreateMCCs
    <3>2. \A n, x, y : NewMCC(n, x, y).kind = "MCC" /\ NewMCC(n, x, y).valid
      BY DEF NewMCC, NewAgent
    <3>3. agent[j].kind = "none"
      <4>1. PICK o \in Offers : j = OfferId(o)
        BY <2>1
      <4>2. j \in nextId..(nextId + Cardinality(Offers) - 1)
        BY <1>0, <4>1, OfferIdType, MaxAgentsAssumption
        DEF TypeOK, AgentsTypeOK, ItemListsTypeOK
      <4> QED
        BY <4>2 DEF FreshIds
    <3> QED
      BY <3>1, <3>2, <3>3 DEF Arrives
  <2>2. CASE j \notin new
    <3>1. agent'[j] = agent[j]
      BY <1>1, <2>2 DEF CreateMCCs
    <3> QED
      BY <3>1, TurnOfSame DEF Arrives
  <2> QED
    BY <2>1, <2>2
<1>2. ASSUME NEW yes \in BOOLEAN, Pay(yes) PROVE Turns
  <2>1. payer \in Ids /\ agent' = AfterStop({payer})
    BY <1>2 DEF Pay, TypeOK
  <2>2. MCPFinished(payer) /\ agent[payer].valid
    BY <1>2 DEF Pay, PayerAlive
  <2> QED
    BY <1>0, <2>1, <2>2, TurnsOfStopped
<1>3. ASSUME NEW n \in Nodes, NEW want \in Items, NEW give \in Items, SpawnMCP(n, want, give)
      PROVE  Turns
  <2>1. agent' = [agent EXCEPT ![nextId] = NewMCP(n, want, give, 0)] /\ nextId \in Ids
    BY <1>3 DEF SpawnMCP, AddAgent
  <2>2. /\ NewMCP(n, want, give, 0).kind = "MCP" /\ NewMCP(n, want, give, 0).depth = 0
        /\ NewMCP(n, want, give, 0).valid /\ NewMCP(n, want, give, 0).node = n
    BY DEF NewMCP, NewAgent
  <2>3. agent[nextId].kind = "none"
    BY <2>1, IdsArePositive DEF FreshIds
  <2>4. Arrives(nextId)
    BY <1>0, <2>1, <2>2 DEF Arrives
  <2>5. \A j \in Ids : j # nextId => agent'[j] = agent[j]
    BY <1>0, <2>1
  <2> QED
    BY <2>3, <2>4, <2>5, TurnOfSame DEF Turns, Arrives
<1>4. CASE PayFreed \/ \E n \in Nodes, x \in Items : Sell(n, x)
  BY <1>4, TurnsOfSame DEF PayFreed, Sell, agentVars
<1> QED
  BY <1>1, <1>2, <1>3, <1>4 DEF User

(* Every step, but those of "Clear all agents" and the end of the process. *)
LEMMA TurnsStep ==
  ASSUME TypeOK, FreshIds, ChildrenTyped, QuietSearches, PayerAlive, TimelyTokens,
         [Next]_vars, ~ClearAgents, ~CloseCluster, ~KillCluster
  PROVE  Turns
<1>0. AgentsTypeOK
  BY DEF TypeOK
<1>1. ASSUME NEW i \in Ids, UpdateAgent(i) PROVE Turns
  BY <1>0, <1>1, TurnsOfContributorUpdate, TurnsOfPetitionerUpdate DEF UpdateAgent
<1>2. ASSUME NEW i \in Ids, ExchangeAgent(i) \/ PruneAgent(i) PROVE Turns
  <2>1. \/ agent' = agent
        \/ /\ agent' = AfterStop({i})
           /\ \/ agent[i].kind = "MCC" /\ agent[i].state # MCC_NEGOCIATING
              \/ MCPFinished(i) /\ agent[i].valid
    BY <1>2
    DEF ExchangeAgent, MCCExchange, MCPExchange, AskPayment, Abort, PruneAgent,
        PruneActs, Visit, Is, agentVars, MCC_FINISHED, MCC_IDLE, MCC_NEGOCIATING
  <2> QED
    BY <1>0, <1>2, <2>1, TurnsOfSame, TurnsOfStopped
<1>3. CASE Deliver
  <2>1. PICK m \in {p \in msgs : p.type \notin ToYellowPages} :
          \/ m.dst \in Reachable /\ (ContributorReceive(m) \/ PetitionerReceive(m))
          \/ Discard(m)
    BY <1>3 DEF Deliver
  <2>2. m.dst \in Ids
    BY <1>0, <2>1, PacketParts DEF AgentsTypeOK
  <2>3. CASE Discard(m)
    BY <2>3, TurnsOfSame DEF Discard
  <2> QED
    BY <1>0, <2>1, <2>2, <2>3, TurnsOfContributorReceive, TurnsOfPetitionerReceive
<1>4. CASE \/ UpdateEnds \/ ExchangeEnds \/ PruneEnds \/ NoClick \/ FrameEnds \/ YellowPages
           \/ YellowPagesEnds \/ YellowPagesStarts \/ StartCluster \/ UNCHANGED vars
  <2>1. agent' = agent
    BY <1>4
    DEF UpdateEnds, ExchangeEnds, PruneEnds, LoopEnds, NoClick, FrameEnds, YellowPages,
        YellowPagesEnds, YellowPagesStarts, StartCluster, vars, agentVars
  <2> QED
    BY <2>1, TurnsOfSame
<1> QED
  BY <1>1, <1>2, <1>3, <1>4, TurnsOfUser DEF Next, Loops, Faults

-----------------------------------------------------------------------------
(* Families: who is whose child.                                           *)

Younger == \A i \in Ids : agent[i].child # Nobody => agent[i].child > i

OneParent ==
  \A i, j \in Ids : agent[i].child = agent[j].child /\ agent[i].child # Nobody => i = j

(* An MCP hands its terms to its UCP.                                      *)
SameTerms ==
  \A i \in Ids :
    agent[i].kind = "MCP" /\ agent[i].child # Nobody =>
      ChildOf(i).want = agent[i].want /\ ChildOf(i).give = agent[i].give

AtHome == \A i \in Ids : TopSearch(i) => agent[i].node \in Nodes

Unborn == \A i \in Ids : agent[i].kind = "none" => ~agent[i].valid

FamilyInv == Younger /\ OneParent /\ SameTerms /\ AtHome /\ Unborn

(* An agent there was.                                                     *)
LEMMA OldAgent ==
  ASSUME ChildrenTyped, Life, Turns, NEW j \in Ids, agent[j].kind # "none"
  PROVE  /\ Ages(agent'[j], agent[j]) /\ ChildStep(j) /\ MCCStep(j) /\ Turn(j)
         /\ agent'[j].kind = agent[j].kind /\ agent'[j].node = agent[j].node
         /\ agent'[j].location = agent[j].location
         /\ agent'[j].give = agent[j].give /\ agent'[j].want = agent[j].want
         /\ agent'[j].valid => agent[j].valid
         /\ agent[j].kind = "MCP" => agent'[j].depth = agent[j].depth
<1>1. Lives(j) /\ Turn(j)
  BY DEF Life, Born, Turns
<1> QED
  BY <1>1 DEF Lives, Ages, SameIdentity

(* An agent that is new.                                                   *)
LEMMA NewOne ==
  ASSUME ChildrenTyped, Life, Turns, NEW j \in Ids, agent[j].kind = "none",
         agent'[j].kind # "none"
  PROVE  /\ Arrives(j) /\ agent'[j].valid
         /\ agent'[j].state = 0 /\ ~agent'[j].success /\ agent'[j].child = Nobody
         /\ agent[j].child = Nobody
<1>1. Born(j)
  <2>1. ~Lives(j)
    BY DEF Lives, Ages, SameIdentity
  <2> QED
    BY <2>1 DEF Life
<1>2. Arrives(j)
  BY DEF Turns
<1> QED
  BY <1>1, <1>2 DEF Born, Arrives, ChildrenTyped

(* What a child is, and whose children there are after a step.             *)
LEMMA ChildIs ==
  ASSUME AgentsTypeOK, ChildrenTyped, NEW j \in Ids, agent[j].child # Nobody
  PROVE  /\ agent[j].child \in Ids /\ agent[j].kind \in {"MCC", "MCP", "UCP"}
         /\ agent[j].kind = "MCC" <=> ChildOf(j).kind = "UCC"
         /\ agent[j].kind = "MCP" <=> ChildOf(j).kind = "UCP"
         /\ agent[j].kind = "UCP" <=> ChildOf(j).kind = "MCP"
         /\ ChildOf(j).kind # "none"
         /\ agent[j].kind = "UCP" => Nested(agent[j].child)
<1>1. agent[j] \in Agent /\ agent[j].child \in Ids
  BY AgentParts
<1> QED
  BY <1>1 DEF ChildrenTyped, ChildOf, Nested, Agent

LEMMA ChildNow ==
  ASSUME AgentsTypeOK, FreshIds, ChildrenTyped, Life, Turns, NEW j \in Ids,
         agent'[j].child # Nobody
  PROVE  /\ agent[j].kind # "none"
         /\ \/ agent'[j].child = agent[j].child
            \/ /\ agent'[j].child = nextId /\ nextId \in Ids /\ j < nextId
               /\ agent[nextId].kind = "none"
               /\ agent'[nextId].kind \in {"UCC", "UCP", "MCP"}
               /\ agent'[nextId].kind = "MCP" => agent[j].kind = "UCP"
<1>1. agent[j].kind # "none"
  <2> SUFFICES ASSUME agent[j].kind = "none" PROVE FALSE
    OBVIOUS
  <2>1. agent[j].child = Nobody
    BY DEF ChildrenTyped
  <2>2. Lives(j)
    BY DEF Life, Born
  <2> QED
    BY <2>1, <2>2 DEF Lives, ChildStep
<1>2. ChildStep(j)
  BY <1>1, OldAgent
<1>3. ASSUME nextId \in Ids PROVE agent[nextId].kind = "none" /\ j < nextId
  <2>1. nextId \in Nat /\ j \in Nat
    BY <1>3, IdsArePositive
  <2> QED
    BY <1>1, <1>3, <2>1 DEF FreshIds
<1> QED
  BY <1>1, <1>2, <1>3 DEF ChildStep

(* A step gives a new child to one agent.                                  *)
LEMMA OneCreates ==
  ASSUME TypeOK, FreshIds, ChildrenTyped, Life, Turns, [Next]_vars, ~CloseCluster, ~KillCluster,
         NEW i \in Ids, NEW j \in Ids,
         agent'[i].child # agent[i].child, agent'[i].child # Nobody,
         agent'[j].child # agent[j].child, agent'[j].child # Nobody
  PROVE  i = j
<1>0. AgentsTypeOK
  BY DEF TypeOK
<1>1. CASE Calm
  <2>1. /\ agent[i].kind # "none" /\ nextId \in Ids /\ agent[nextId].kind = "none"
        /\ agent'[nextId].kind \in {"UCC", "UCP", "MCP"}
        /\ agent'[nextId].kind = "MCP" => agent[i].kind = "UCP"
    BY <1>0, ChildNow
  <2>2. agent[i].kind # "UCP"
    BY <1>1, <2>1 DEF Calm, SteadyBut, Steady
  <2> QED
    BY <1>1, <2>1, <2>2 DEF Calm, NobodyJoins
<1>2. ASSUME NEW k \in Ids, BargainUpdate(k) PROVE i = j
  <2>1. \A l \in Ids \ {k} : agent'[l] = agent[l]
    BY <1>0, <1>2, BargainOthers
  <2> QED
    BY <2>1
<1>3. ASSUME NEW m \in msgs, m.dst \in Ids, BargainReceive(m) PROVE i = j
  <2>1. \A l \in Ids \ {m.dst} : agent'[l] = agent[l] \/ agent[l].kind = "none"
    BY <1>0, <1>3, BargainOthers
  <2>2. agent[i].kind # "none" /\ agent[j].kind # "none"
    BY <1>0, ChildNow
  <2> QED
    BY <2>1, <2>2
<1> QED
  BY <1>1, <1>2, <1>3, TradeStep

LEMMA FamilyStep ==
  ASSUME TypeOK, TypeOK', FreshIds, ChildrenTyped, FamilyInv, Life, Turns,
         [Next]_vars, ~CloseCluster, ~KillCluster
  PROVE  FamilyInv'
<1>0. AgentsTypeOK /\ AgentsTypeOK' /\ Ids \subseteq Nat
  BY IdsArePositive DEF TypeOK
<1>1. Younger'
  <2> SUFFICES ASSUME NEW i \in Ids, agent'[i].child # Nobody
               PROVE  agent'[i].child > i
    BY DEF Younger
  <2> QED
    BY <1>0, ChildNow DEF FamilyInv, Younger
<1>2. OneParent'
  <2> SUFFICES ASSUME NEW i \in Ids, NEW j \in Ids, agent'[i].child = agent'[j].child,
                      agent'[i].child # Nobody
               PROVE  i = j
    BY DEF OneParent
  <2>1. /\ agent'[i].child = agent[i].child
           \/ (agent'[i].child = nextId /\ nextId \in Ids /\ agent[nextId].kind = "none")
        /\ agent'[j].child = agent[j].child
           \/ (agent'[j].child = nextId /\ nextId \in Ids /\ agent[nextId].kind = "none")
    BY <1>0, ChildNow
  <2>2. /\ agent[i].child # Nobody => agent[agent[i].child].kind # "none"
        /\ agent[j].child # Nobody => agent[agent[j].child].kind # "none"
    BY <1>0, ChildIs DEF ChildOf
  <2>3. CASE agent'[i].child = agent[i].child /\ agent'[j].child = agent[j].child
    BY <2>3 DEF FamilyInv, OneParent
  <2>4. CASE agent'[i].child # agent[i].child /\ agent'[j].child # agent[j].child
    BY <2>4, OneCreates
  <2> QED
    BY <2>1, <2>2, <2>3, <2>4
<1>3. SameTerms'
  <2> SUFFICES ASSUME NEW i \in Ids, agent'[i].kind = "MCP", agent'[i].child # Nobody
               PROVE  /\ agent'[agent'[i].child].want = agent'[i].want
                      /\ agent'[agent'[i].child].give = agent'[i].give
    BY DEF SameTerms, ChildOf
  <2>0. agent[i].kind # "none"
    BY <1>0, ChildNow
  <2>1. agent[i].kind = "MCP" /\ agent'[i].want = agent[i].want /\ agent'[i].give = agent[i].give
    BY <2>0, OldAgent
  <2>2. CASE agent'[i].child = agent[i].child
    <3>1. agent[i].child \in Ids /\ agent[agent[i].child].kind # "none"
      BY <1>0, <2>2, ChildIs DEF ChildOf
    <3>2. /\ agent'[agent[i].child].want = ChildOf(i).want
          /\ agent'[agent[i].child].give = ChildOf(i).give
      BY <3>1, OldAgent DEF ChildOf
    <3> QED
      BY <2>1, <2>2, <3>2 DEF FamilyInv, SameTerms
  <2>3. CASE agent'[i].child # agent[i].child
    <3>1. agent'[i].child = nextId /\ nextId \in Ids /\ agent[nextId].kind = "none"
      BY <1>0, <2>3, ChildNow
    <3>2. agent'[nextId].kind = "UCP"
      BY <2>1, <2>3, <3>1, OldAgent DEF ChildStep
    <3>3. PICK q \in Ids : /\ agent'[q].child = nextId
                           /\ agent'[nextId].want = agent[q].want
                           /\ agent'[nextId].give = agent[q].give
      BY <3>1, <3>2 DEF Turns, Arrives
    <3>4. q = i
      BY <1>2, <3>1, <3>3, IdsArePositive DEF OneParent
    <3> QED
      BY <2>1, <3>1, <3>3, <3>4
  <2> QED
    BY <2>2, <2>3
<1>4. AtHome'
  <2> SUFFICES ASSUME NEW i \in Ids, agent'[i].kind = "MCP", agent'[i].depth = 0
               PROVE  agent'[i].node \in Nodes
    BY DEF AtHome, TopSearch
  <2>1. CASE agent[i].kind = "none"
    BY <2>1, NewOne DEF Arrives
  <2>2. CASE agent[i].kind # "none"
    BY <2>2, OldAgent DEF FamilyInv, AtHome, TopSearch
  <2> QED
    BY <2>1, <2>2
<1>5. Unborn'
  <2> SUFFICES ASSUME NEW i \in Ids, agent'[i].kind = "none" PROVE ~agent'[i].valid
    BY DEF Unborn
  <2>1. Lives(i)
    BY DEF Life, Born
  <2> QED
    BY <2>1 DEF Lives, Ages, SameIdentity, FamilyInv, Unborn
<1> QED
  BY <1>1, <1>2, <1>3, <1>4, <1>5 DEF FamilyInv

-----------------------------------------------------------------------------
(* Ownership: who waits for whom.                                          *)

(* Agent p is about to be seen by the first loop of runSystem(), or that   *)
(* loop was cut short.                                                     *)
ToBook(p) == (phase = "update" /\ p \notin todo) \/ (phase = "exchange" /\ p \in todo)
Due(p)    == ToBook(p) \/ phase = "aborted"

(* The owner of a unicast agent bargains, or has yet to book the bargain.  *)
OwnsUCC(p, c) ==
  /\ agent[p].kind = "MCC" /\ agent[p].valid /\ agent[p].child = c
  /\ agent[p].state = MCC_NEGOCIATING \/ (agent[p].state = MCC_FINISHED /\ Due(p))

OwnsUCP(p, u) ==
  /\ TopSearch(p) /\ agent[p].valid /\ agent[p].child = u
  /\ \/ agent[p].state = MCP_NEGOCIATING_UCP_RES
     \/ agent[p].state = MCP_FINISHED /\ agent[p].success /\ Due(p)

(* Once the update loop has passed p, the search m has not begun or was    *)
(* passed too.                                                             *)
Unbegun(p, m) == phase = "update" /\ p \notin todo /\ m \in todo => agent[m].state = MCP_INIT

OwnsSearch(p, u, m) ==
  /\ OwnsUCP(p, u) /\ agent[p].state = MCP_NEGOCIATING_UCP_RES
  /\ agent[u].kind = "UCP" /\ agent[u].valid /\ agent[u].child = m
  /\ \/ agent[u].state = UCP_IDLE
     \/ agent[u].state = UCP_FINISHED /\ ~agent[u].success /\ Unbegun(p, m)

Owned(i) ==
  agent[i].valid =>
    /\ agent[i].kind = "UCC" => \E p \in Ids : OwnsUCC(p, i)
    /\ agent[i].kind = "UCP" => \E p \in Ids : OwnsUCP(p, i)
    /\ Nested(i) => \E p, u \in Ids : OwnsSearch(p, u, i)

(* An agent is destroyed when it is done.                                  *)
DeadDone(i) ==
  ~agent[i].valid =>
    /\ agent[i].kind = "MCC" => agent[i].state = MCC_FINISHED
    /\ agent[i].kind = "UCC" => agent[i].state = UCC_FINISHED
    /\ agent[i].kind = "UCP" => agent[i].state = UCP_FINISHED
    /\ TopSearch(i) => agent[i].state = MCP_FINISHED

(* An MCP that does not wait for its UCP has taken its result.             *)
Done(q) ==
  agent[q].kind = "MCP" /\ agent[q].child # Nobody /\ agent[q].state # MCP_NEGOCIATING_UCP_RES
    => ChildOf(q).state = UCP_FINISHED

Verdict(q) ==
  agent[q].kind = "MCP" =>
    /\ agent[q].success =>
         agent[q].state = MCP_FINISHED /\ agent[q].child # Nobody /\ ChildOf(q).success
    /\ agent[q].child # Nobody /\ ChildOf(q).success =>
         agent[q].state = MCP_NEGOCIATING_UCP_RES \/ agent[q].success

(* The UCC of an MCC that has yet to book lives.                           *)
Held(p) ==
  /\ agent[p].kind = "MCC" /\ agent[p].valid /\ agent[p].child # Nobody
  /\ agent[p].state = MCC_NEGOCIATING \/ (agent[p].state = MCC_FINISHED /\ ToBook(p))
  => ChildOf(p).valid

(* A successful UCP is that of a search of the user's.                     *)
Wanted(u) ==
  agent[u].kind = "UCP" /\ agent[u].success =>
    \E q \in Ids : TopSearch(q) /\ agent[q].child = u

OwnInv ==
  \A i \in Ids :
    DeadDone(i) /\ Quiet(i) /\ Done(i) /\ Verdict(i) /\ Owned(i) /\ Held(i) /\ Wanted(i)

(* The container has dropped the agents that are destroyed.                *)
FrameFresh == FrameStarts => \A i \in present : agent[i].valid

-----------------------------------------------------------------------------
(* Where the loops are.                                                    *)

(* Visits of the loops of runSystem().                                     *)
LEMMA ExchangePlace ==
  ASSUME NEW i \in Ids, ExchangeAgent(i)
  PROVE  /\ phase = "exchange" /\ i \in todo /\ agent[i].valid
         /\ todo' = {j \in todo : j > i}
         /\ \A j \in todo : agent[j].valid /\ ExchangeActs(j) => i <= j
         /\ phase' \in {"exchange", "aborted"} /\ present' = present
         /\ \/ Is(i, "MCC", MCC_FINISHED)
            \/ MCPFinished(i)
         /\ \/ phase' = "aborted" /\ agent' = agent
            \/ agent' = AfterStop({i})
            \/ agent' = agent /\ ~agent[i].success /\ MCPFinished(i)
  BY DEF ExchangeAgent, Visit, MCCExchange, MCPExchange, AskPayment, Abort, agentVars,
         containerVars, MCPFinished

LEMMA PrunePlace ==
  ASSUME NEW i \in Ids, PruneAgent(i)
  PROVE  /\ phase = "prune" /\ phase' = "prune" /\ i \in todo /\ agent[i].valid
         /\ Is(i, "MCC", MCC_IDLE) /\ agent' = AfterStop({i}) /\ present' = present
  BY DEF PruneAgent, Visit, PruneActs, containerVars

(* Agents move in the update loop only by their update().                  *)
LEMMA UpdatePhase ==
  ASSUME [Next]_vars, ~CloseCluster, ~KillCluster, phase = "update"
  PROVE  agent' = agent \/ \E i \in Ids : UpdateAgent(i)
  BY DEF Next, Loops, UpdateEnds, ExchangeEnds, PruneEnds, LoopEnds, ExchangeAgent, PruneAgent,
         Visit, NoClick, User, CreateMCCs, ClearAgents, SpawnMCP, Sell, Pay, PayFreed, Click,
         Deliver, FrameEnds, YellowPages, YellowPagesStarts, StartCluster, Faults,
         YellowPagesEnds, vars, agentVars

LEMMA UniqueUpdate ==
  ASSUME NEW i \in Ids, NEW j \in Ids, UpdateAgent(i), UpdateAgent(j)
  PROVE  i = j
<1>1. \A k \in Ids : UpdateAgent(k) => /\ k \in todo /\ agent[k].valid /\ UpdateActs(k)
                                       /\ \A l \in todo : agent[l].valid /\ UpdateActs(l) => k <= l
  BY DEF UpdateAgent, Visit
<1>2. i <= j /\ j <= i
  BY <1>1
<1> QED
  BY <1>2, IdsArePositive

(* The steps after which a loop stands where it stood or is a later one.   *)
LEMMA PlaceStep ==
  ASSUME [Next]_vars, ~CloseCluster, ~KillCluster, phase # "down"
  PROVE  \/ phase' = phase /\ present' = present /\ todo' = todo
         \/ \E i \in Ids : UpdateAgent(i) /\ present' = present
         \/ \E i \in Ids : ExchangeAgent(i)
         \/ \E i \in Ids : PruneAgent(i)
         \/ /\ UpdateEnds /\ phase = "update" /\ phase' = "exchange" /\ todo' = present
            /\ \A j \in todo : ~(agent[j].valid /\ UpdateActs(j))
         \/ /\ ExchangeEnds /\ phase = "exchange" /\ phase' = "prune"
            /\ \A j \in todo : ~(agent[j].valid /\ ExchangeActs(j))
         \/ PruneEnds /\ phase = "prune" /\ phase' = "gui"
         \/ FrameEnds /\ phase = "net" /\ phase' = "update" /\ todo' = present'
         \/ phase = "gui" /\ present' = present /\ todo' = todo /\ phase' \in {"net", "aborted"}
<1>1. ~StartCluster
  BY DEF StartCluster
<1>2. FrameEnds => phase = "net" /\ phase' = "update" /\ todo' = present'
  BY DEF FrameEnds
<1>3. /\ UpdateEnds => /\ phase = "update" /\ phase' = "exchange" /\ todo' = present
                       /\ \A j \in todo : ~(agent[j].valid /\ UpdateActs(j))
      /\ ExchangeEnds => /\ phase = "exchange" /\ phase' = "prune"
                         /\ \A j \in todo : ~(agent[j].valid /\ ExchangeActs(j))
      /\ PruneEnds => phase = "prune" /\ phase' = "gui"
  BY DEF UpdateEnds, ExchangeEnds, PruneEnds, LoopEnds
<1> QED
  BY <1>1, <1>2, <1>3, LoopStep

(* Who has yet to book is not passed over by the first loop.               *)
LEMMA BookKept ==
  ASSUME TypeOK, SearchInv, [Next]_vars, ~CloseCluster, ~KillCluster,
         NEW p \in Ids, agent[p].valid, ExchangeActs(p), ~ExchangeAgent(p)
  PROVE  /\ ToBook(p) => ToBook(p)' \/ phase' = "aborted"
         /\ Due(p) => Due(p)'
<1>0. phase # "down" /\ (phase # "net" => p \in present)
  BY DEF SearchInv, Reachable
<1>1. CASE phase' = phase /\ present' = present /\ todo' = todo
  BY <1>1 DEF ToBook, Due
<1>2. ASSUME NEW i \in Ids, UpdateAgent(i)
      PROVE  phase = "update" /\ phase' = "update" /\ todo' \subseteq todo
  BY <1>2, BargainPlace
<1>3. ASSUME NEW i \in Ids, ExchangeAgent(i)
      PROVE  /\ phase = "exchange" /\ phase' \in {"exchange", "aborted"}
             /\ p \in todo => p \in todo'
  <2>1. p # i
    BY <1>3
  <2>2. p \in todo => i <= p
    BY <1>3, ExchangePlace
  <2>3. /\ phase = "exchange" /\ phase' \in {"exchange", "aborted"}
        /\ todo' = {j \in todo : j > i}
    BY <1>3, ExchangePlace
  <2>4. p \in Nat /\ i \in Nat
    BY IdsArePositive
  <2> QED
    BY <2>1, <2>2, <2>3, <2>4
<1>4. ASSUME NEW i \in Ids, PruneAgent(i)
      PROVE  phase = "prune"
  BY <1>4, PrunePlace
<1>5. phase' \in Phases
  BY TypeStep DEF TypeOK
<1> QED
  BY <1>0, <1>1, <1>2, <1>3, <1>4, PlaceStep DEF ToBook, Due

(* A finished MCC that has yet to book had yet to book before.             *)
LEMMA BookGained ==
  ASSUME TypeOK, SearchInv, [Next]_vars, ~CloseCluster, ~KillCluster,
         NEW p \in Ids, agent[p].valid, agent'[p].valid, Is(p, "MCC", MCC_FINISHED), ToBook(p)'
  PROVE  ToBook(p)
<1>0. phase # "down" /\ p \in Reachable /\ UpdateActs(p)
  BY DEF SearchInv, UpdateActs, ContributorActs
<1>1. CASE phase' = phase /\ present' = present /\ todo' = todo
  BY <1>1 DEF ToBook
<1>2. ASSUME NEW i \in Ids, UpdateAgent(i)
      PROVE  ToBook(p)
  <2>1. /\ phase = "update" /\ phase' = "update" /\ todo' = {j \in todo : j > i}
        /\ p \in todo => i <= p
    BY <1>0, <1>2, BargainPlace
  <2>2. i # p
    <3>1. SUFFICES ASSUME i = p PROVE FALSE
      OBVIOUS
    <3>2. MCCDestroy(p)
      <4>1. ContributorUpdate(p) \/ PetitionerUpdate(p)
        BY <1>2, <3>1 DEF UpdateAgent
      <4>2. ~PetitionerUpdate(p)
        BY DEF PetitionerUpdate, MCPQuery, MCPIterate, MCPConclude, UCPHasResult, UCPStart,
               UCPConclude, Is
      <4>3. ~MCCRegister(p) /\ ~MCCConclude(p) /\ ~UCCStart(p)
        BY DEF MCCRegister, MCCConclude, UCCHasResult, UCCStart, Is, MCC_INIT, MCC_FINISHED,
               MCC_NEGOCIATING
      <4> QED
        BY <4>1, <4>2, <4>3 DEF ContributorUpdate
    <3>3. agent' = [agent EXCEPT ![p] = [@ EXCEPT !.valid = FALSE]]
      BY <3>2 DEF MCCDestroy
    <3> QED
      BY <3>3, AgentParts DEF TypeOK, Agent
  <2> QED
    BY <2>1, <2>2, IdsArePositive DEF ToBook
<1>3. ASSUME NEW i \in Ids, ExchangeAgent(i)
      PROVE  ToBook(p)
  BY <1>3, ExchangePlace DEF ToBook
<1>4. ASSUME NEW i \in Ids, PruneAgent(i)
      PROVE  ToBook(p)
  BY <1>4, PrunePlace DEF ToBook
<1>5. CASE FrameEnds /\ phase = "net" /\ phase' = "update" /\ todo' = present'
  BY <1>0, <1>5 DEF FrameEnds, SurvivingAgents, ToBook
<1> QED
  BY <1>0, <1>1, <1>2, <1>3, <1>4, <1>5, PlaceStep DEF ToBook

-----------------------------------------------------------------------------
(* The parts of OwnInv are kept.                                           *)

LEMMA DeadDoneStep ==
  ASSUME TypeOK, FreshIds, ChildrenTyped, JustifiedInv, FamilyInv, OwnInv, Life, Turns,
         NEW i \in Ids
  PROVE  DeadDone(i)'
<1>0. AgentsTypeOK
  BY DEF TypeOK
<1> SUFFICES ASSUME ~agent'[i].valid, agent'[i].kind # "none" PROVE DeadDone(i)'
  BY DEF DeadDone, TopSearch
<1>1. agent[i].kind # "none"
  BY NewOne
<1> DEFINE a == agent[i]
           b == agent'[i]
<1>2. /\ Ages(b, a) /\ MCCStep(i) /\ Turn(i) /\ b.kind = a.kind
      /\ a.kind = "MCP" => b.depth = a.depth
  BY <1>1, OldAgent
<1> HIDE DEF a, b
<1>3. ASSUME a.kind = "MCC" PROVE b.state = MCC_FINISHED
  <2>1. a.state = MCC_FINISHED
    <3>1. CASE ~a.valid
      BY <1>3, <3>1 DEF OwnInv, DeadDone, a
    <3>2. CASE a.valid
      BY <1>2, <1>3, <3>2 DEF Turn, MCCTurn, a
    <3> QED
      BY <3>1, <3>2
  <2> QED
    BY <1>2, <1>3, <2>1
    DEF MCCStep, a, b, MCC_INIT, MCC_REGISTERING, MCC_IDLE, MCC_NEGOCIATING, MCC_FINISHED
<1>4. ASSUME a.kind = "UCC" PROVE b.state = UCC_FINISHED
  <2>1. CASE ~a.valid
    BY <1>2, <1>4, <2>1 DEF OwnInv, DeadDone, Ages, a
  <2>2. CASE a.valid
    <3>1. PICK p \in Ids :
            /\ agent[p].kind = "MCC" /\ agent[p].child = i
            /\ \/ Refused(i) /\ Negotiating(p) /\ agent'[p].state = MCC_IDLE
               \/ ExchangeAgent(p)
               \/ PruneAgent(p)
      BY <1>2, <1>4, <2>2 DEF Turn, UCCTurn, a
    <3>2. i # Nobody
      BY IdsArePositive
    <3>3. CASE Refused(i)
      BY <1>2, <1>4, <3>3 DEF Refused, Ages, a
    <3>4. CASE ExchangeAgent(p)
      <4>1. phase = "exchange" /\ p \in present /\ agent[p].valid /\ Is(p, "MCC", MCC_FINISHED)
        BY <3>1, <3>4, ExchangePlace DEF JustifiedInv, MCPFinished, Is
      <4>2. ~Unjustified(p)
        BY <4>1 DEF JustifiedInv
      <4>3. agent[i].success
        BY <3>1, <3>2, <4>1, <4>2 DEF Unjustified, ChildOf
      <4>4. agent[i].state = UCC_FINISHED
        BY <1>4, <4>3 DEF ChildrenTyped, a
      <4> QED
        BY <1>2, <1>4, <4>4 DEF Ages, a
    <3>5. CASE PruneAgent(p)
      <4>1. Is(p, "MCC", MCC_IDLE)
        BY <3>5, PrunePlace
      <4>2. Refused(i)
        BY <3>1, <3>2, <4>1 DEF ChildrenTyped
      <4> QED
        BY <1>2, <1>4, <4>2 DEF Refused, Ages, a
    <3> QED
      BY <3>1, <3>3, <3>4, <3>5
  <2> QED
    BY <2>1, <2>2
<1>5. ASSUME a.kind = "UCP" PROVE b.state = UCP_FINISHED
  <2>1. a.state = UCP_FINISHED
    <3>1. CASE ~a.valid
      BY <1>5, <3>1 DEF OwnInv, DeadDone, a
    <3>2. CASE a.valid
      <4>1. PICK q \in Ids :
              /\ agent[q].kind = "MCP" /\ agent[q].child = i
              /\ UCPHasResult(q) \/ MCPFinished(q)
        BY <1>2, <1>5, <3>2 DEF Turn, UCPTurn, a
      <4>2. i # Nobody
        BY IdsArePositive
      <4>3. CASE UCPHasResult(q)
        BY <4>1, <4>3 DEF UCPHasResult, a
      <4>4. CASE MCPFinished(q)
        BY <4>1, <4>2, <4>4
        DEF OwnInv, Done, ChildOf, MCPFinished, Is, a, MCP_FINISHED, MCP_NEGOCIATING_UCP_RES
      <4> QED
        BY <4>1, <4>3, <4>4
    <3> QED
      BY <3>1, <3>2
  <2> QED
    BY <1>2, <1>5, <2>1
    DEF Turn, UCPTurn, a, b, UCP_INIT, UCP_REQUEST_ITEM, UCP_IDLE, UCP_FINISHED
<1>6. ASSUME a.kind = "MCP", b.depth = 0 PROVE b.state = MCP_FINISHED
  <2>0. TopSearch(i)
    BY <1>2, <1>6 DEF TopSearch, a, b
  <2>1. a.state = MCP_FINISHED
    <3>1. CASE ~a.valid
      BY <2>0, <3>1 DEF OwnInv, DeadDone, a
    <3>2. CASE a.valid
      BY <1>2, <1>6, <2>0, <3>2 DEF Turn, MCPTurn, MCPFinished, Is, a
    <3> QED
      BY <3>1, <3>2
  <2> QED
    BY <1>2, <1>6, <2>1 DEF Ages
<1> QED
  BY <1>2, <1>3, <1>4, <1>5, <1>6 DEF DeadDone, TopSearch, b

(* A UCP that is finished stays as it is.                                  *)
LEMMA UCPStays ==
  ASSUME ChildrenTyped, Life, Turns, NEW u \in Ids, Is(u, "UCP", UCP_FINISHED)
  PROVE  Is(u, "UCP", UCP_FINISHED)' /\ agent'[u].success = agent[u].success
<1>1. agent'[u].kind = "UCP" /\ UCPTurn(u)
  BY OldAgent DEF Is, Turn
<1> QED
  BY <1>1 DEF UCPTurn, Is, UCP_INIT, UCP_REQUEST_ITEM, UCP_IDLE, UCP_FINISHED

(* What happens to MCP q and its UCP.                                      *)
LEMMA MCPOf ==
  ASSUME TypeOK, FreshIds, ChildrenTyped, OwnInv, Life, Turns,
         NEW q \in Ids, agent'[q].kind = "MCP", agent'[q].child # Nobody
  PROVE  \/ agent'[q].state = MCP_NEGOCIATING_UCP_RES /\ agent'[q].child = nextId
            /\ nextId \in Ids /\ agent[nextId].kind = "none"
            /\ agent[q].state = MCP_WAIT_ACCEPTANCE /\ agent[q].kind = "MCP"
         \/ /\ agent'[q].child = agent[q].child /\ agent[q].child \in Ids
            /\ agent[q].kind = "MCP" /\ ChildOf(q).kind = "UCP"
<1>0. AgentsTypeOK
  BY DEF TypeOK
<1>1. agent[q].kind = "MCP" /\ MCPTurn(q)
  BY <1>0, ChildNow, OldAgent DEF Turn
<1>2. CASE agent'[q].child = agent[q].child
  BY <1>0, <1>1, <1>2, ChildIs
<1>3. CASE agent'[q].child # agent[q].child
  BY <1>0, <1>1, <1>3, ChildNow DEF MCPTurn
<1> QED
  BY <1>2, <1>3

LEMMA DoneStep ==
  ASSUME TypeOK, FreshIds, ChildrenTyped, OwnInv, Life, Turns, NEW q \in Ids
  PROVE  Done(q)'
<1> SUFFICES ASSUME agent'[q].kind = "MCP", agent'[q].child # Nobody,
                    agent'[q].state # MCP_NEGOCIATING_UCP_RES
             PROVE  agent'[agent'[q].child].state = UCP_FINISHED
  BY DEF Done, ChildOf
<1>1. /\ agent'[q].child = agent[q].child /\ agent[q].child \in Ids
      /\ agent[q].kind = "MCP" /\ ChildOf(q).kind = "UCP"
  BY MCPOf
<1>2. MCPTurn(q) /\ Done(q)
  BY <1>1, OldAgent DEF Turn, OwnInv
<1>3. ChildOf(q).state = UCP_FINISHED
  BY <1>1, <1>2
  DEF MCPTurn, Done, UCPHasResult, ChildOf, MCPMoves, MCP_INIT, MCP_REQUESTING_MCCs,
      MCP_ITERATING_OVER_MCCs, MCP_WAIT_ACCEPTANCE, MCP_NEGOCIATING_UCP_RES
<1> QED
  BY <1>1, <1>3, UCPStays DEF ChildOf, Is

LEMMA VerdictStep ==
  ASSUME TypeOK, FreshIds, SuccessIsFinal, ChildrenTyped, OwnInv, Life, Turns, NEW q \in Ids
  PROVE  Verdict(q)'
<1>0. AgentsTypeOK
  BY DEF TypeOK
<1> SUFFICES ASSUME agent'[q].kind = "MCP" PROVE Verdict(q)'
  BY DEF Verdict
<1>1. CASE agent[q].kind = "none"
  BY <1>1, NewOne DEF Verdict
<1>2. CASE agent[q].kind # "none"
  <2>1. /\ agent[q].kind = "MCP" /\ MCPTurn(q) /\ Ages(agent'[q], agent[q])
        /\ Done(q) /\ Verdict(q)
    BY <1>2, OldAgent DEF Turn, OwnInv
  <2> DEFINE c == agent[q].child
  <2>2. ASSUME agent'[q].success
        PROVE  agent'[q].state = MCP_FINISHED /\ agent'[q].child # Nobody
               /\ agent'[agent'[q].child].success
    <3>1. CASE agent[q].success
      <4>1. agent[q].state = MCP_FINISHED /\ c # Nobody /\ agent[c].success
        BY <2>1, <3>1 DEF Verdict, ChildOf
      <4>2. agent'[q].state = MCP_FINISHED /\ agent'[q].child = c
        BY <2>1, <4>1 DEF Ages, MCPTurn, MCP_FINISHED, MCP_WAIT_ACCEPTANCE
      <4>3. c \in Ids /\ agent[c].kind = "UCP"
        BY <1>0, <2>1, <4>1, ChildIs DEF ChildOf
      <4>4. Is(c, "UCP", UCP_FINISHED)
        BY <4>1, <4>3 DEF SuccessIsFinal, Is
      <4> QED
        BY <4>1, <4>2, <4>3, <4>4, UCPStays
    <3>2. CASE ~agent[q].success
      <4>1. UCPHasResult(q) /\ agent[c].success /\ agent'[q].state = MCP_FINISHED
        BY <2>1, <2>2, <3>2 DEF MCPTurn, ChildOf
      <4>2. c # Nobody /\ agent[c].state = UCP_FINISHED
        BY <4>1 DEF UCPHasResult
      <4>3. c \in Ids /\ agent[c].kind = "UCP"
        BY <1>0, <2>1, <4>2, ChildIs DEF ChildOf
      <4>4. agent'[c].success
        BY <4>1, <4>2, <4>3, UCPStays DEF Is
      <4>5. agent'[q].child = c
        BY <2>1, <4>1 DEF MCPTurn, MCP_FINISHED, MCP_NEGOCIATING_UCP_RES
      <4> QED
        BY <4>1, <4>2, <4>4, <4>5
    <3> QED
      BY <3>1, <3>2
  <2>3. ASSUME agent'[q].child # Nobody, agent'[agent'[q].child].success
        PROVE  agent'[q].state = MCP_NEGOCIATING_UCP_RES \/ agent'[q].success
    <3>1. CASE agent'[q].state = MCP_NEGOCIATING_UCP_RES
      BY <3>1
    <3>2. CASE agent'[q].child = c /\ c \in Ids /\ agent[c].kind = "UCP"
      <4>1. CASE agent[c].success
        <5>1. agent[q].state = MCP_NEGOCIATING_UCP_RES \/ agent[q].success
          BY <2>1, <2>3, <3>2, <4>1 DEF Verdict, ChildOf
        <5>2. CASE agent[q].success
          BY <2>1, <5>2 DEF Verdict, Ages
        <5>3. CASE agent[q].state = MCP_NEGOCIATING_UCP_RES
          BY <2>1, <4>1, <5>3
          DEF MCPTurn, ChildOf, MCPMoves, MCP_INIT, MCP_REQUESTING_MCCs,
              MCP_ITERATING_OVER_MCCs, MCP_WAIT_ACCEPTANCE, MCP_NEGOCIATING_UCP_RES
        <5> QED
          BY <5>1, <5>2, <5>3
      <4>2. CASE ~agent[c].success
        <5>1. UCPTurn(c)
          BY <3>2, OldAgent DEF Turn
        <5>2. agent[c].state # UCP_FINISHED
          BY <2>3, <3>2, <4>2, <5>1, UCPStays DEF Is
        <5>3. agent[q].state = MCP_NEGOCIATING_UCP_RES /\ ~UCPHasResult(q)
          BY <2>1, <2>3, <3>2, <5>2 DEF Done, ChildOf, UCPHasResult
        <5> QED
          BY <2>1, <5>3
          DEF MCPTurn, MCPMoves, MCP_INIT, MCP_REQUESTING_MCCs,
              MCP_ITERATING_OVER_MCCs, MCP_WAIT_ACCEPTANCE, MCP_NEGOCIATING_UCP_RES
      <4> QED
        BY <4>1, <4>2
    <3> QED
      BY <2>3, <3>1, <3>2, MCPOf DEF ChildOf
  <2> QED
    BY <2>2, <2>3 DEF Verdict, ChildOf
<1> QED
  BY <1>1, <1>2

LEMMA WantedStep ==
  ASSUME TypeOK, FreshIds, SuccessIsFinal, ChildrenTyped, OwnInv, Life, Turns, NEW u \in Ids
  PROVE  Wanted(u)'
<1>0. AgentsTypeOK
  BY DEF TypeOK
<1> SUFFICES ASSUME agent'[u].kind = "UCP", agent'[u].success
             PROVE  \E q \in Ids : TopSearch(q)' /\ agent'[q].child = u
  BY DEF Wanted
<1>1. agent[u].kind = "UCP" /\ UCPTurn(u)
  BY NewOne, OldAgent DEF Turn
<1>2. PICK q \in Ids : TopSearch(q) /\ agent[q].child = u /\ agent[q].state # MCP_WAIT_ACCEPTANCE
  <2>1. CASE agent[u].success
    <3>1. PICK q \in Ids : TopSearch(q) /\ agent[q].child = u
      BY <1>1, <2>1 DEF OwnInv, Wanted
    <3>2. agent[q].state # MCP_WAIT_ACCEPTANCE
      BY <2>1, <3>1, IdsArePositive
      DEF OwnInv, Verdict, TopSearch, ChildOf, MCP_WAIT_ACCEPTANCE, MCP_FINISHED,
          MCP_NEGOCIATING_UCP_RES
    <3> QED
      BY <3>1, <3>2
  <2>2. CASE ~agent[u].success
    <3>1. agent[u].state # UCP_FINISHED
      BY <1>1, <2>2, UCPStays DEF Is
    <3>2. agent[u].valid
      BY <1>1, <3>1 DEF OwnInv, DeadDone
    <3>3. PICK q \in Ids : OwnsUCP(q, u)
      BY <1>1, <3>2 DEF OwnInv, Owned
    <3> QED
      BY <3>3 DEF OwnsUCP, MCP_WAIT_ACCEPTANCE, MCP_FINISHED, MCP_NEGOCIATING_UCP_RES
  <2> QED
    BY <2>1, <2>2
<1>3. MCPTurn(q) /\ agent'[q].kind = "MCP" /\ agent'[q].depth = agent[q].depth
  BY <1>2, OldAgent DEF Turn, TopSearch
<1> QED
  BY <1>2, <1>3 DEF MCPTurn, TopSearch

(* The UCP a nested search works for refuses before the search acts.       *)
LEMMA QuietUpdate ==
  ASSUME TypeOK, SearchInv, FamilyInv, OwnInv, NEW m \in Ids, Nested(m), UpdateAgent(m)
  PROVE  agent[m].state = MCP_INIT
<1>1. /\ phase = "update" /\ m \in todo /\ agent[m].valid
      /\ \A l \in todo : agent[l].valid /\ UpdateActs(l) => m <= l
  BY BargainPlace
<1>2. PICK p \in Ids, u \in Ids : OwnsSearch(p, u, m)
  BY <1>1 DEF OwnInv, Owned
<1>3. /\ agent[p].child = u /\ agent[u].child = m /\ agent[u].valid /\ agent[u].kind = "UCP"
      /\ agent[p].valid /\ Is(p, "MCP", MCP_NEGOCIATING_UCP_RES)
  BY <1>2 DEF OwnsSearch, OwnsUCP, TopSearch, Is
<1>4. p < u /\ u < m /\ p \in Nat /\ u \in Nat /\ m \in Nat
  BY <1>3, IdsArePositive DEF FamilyInv, Younger
<1>5. CASE agent[u].state = UCP_IDLE
  BY <1>3, <1>5 DEF SearchInv, Waits, FreshSearch, Is
<1>6. CASE agent[u].state = UCP_FINISHED /\ Unbegun(p, m)
  <2>1. UCPHasResult(p)
    BY <1>3, <1>6, IdsArePositive DEF UCPHasResult
  <2>2. p \notin todo
    BY <1>1, <1>3, <1>4, <2>1 DEF UpdateActs, PetitionerActs
  <2> QED
    BY <1>1, <1>6, <2>2 DEF Unbegun
<1> QED
  BY <1>2, <1>5, <1>6 DEF OwnsSearch

LEMMA QuietStep ==
  ASSUME TypeOK, FreshIds, ChildrenTyped, SearchInv, FamilyInv, OwnInv, Life, Turns,
         NEW m \in Ids
  PROVE  Quiet(m)'
<1> SUFFICES ASSUME agent'[m].kind = "MCP", agent'[m].depth > 0
             PROVE  /\ agent'[m].state \in
                         {MCP_INIT, MCP_REQUESTING_MCCs, MCP_ITERATING_OVER_MCCs}
                    /\ agent'[m].child = Nobody
  BY DEF Quiet, Nested
<1>1. CASE agent[m].kind = "none"
  BY <1>1, NewOne DEF MCP_INIT
<1>2. CASE agent[m].kind # "none"
  <2>1. MCPTurn(m) /\ Nested(m) /\ agent[m].kind = "MCP"
    BY <1>2, OldAgent DEF Turn, Nested
  <2>2. /\ agent[m].state \in {MCP_INIT, MCP_REQUESTING_MCCs, MCP_ITERATING_OVER_MCCs}
        /\ agent[m].child = Nobody
    BY <2>1 DEF OwnInv, Quiet
  <2>3. agent'[m].child = Nobody
    BY <2>1, <2>2
    DEF MCPTurn, MCP_INIT, MCP_REQUESTING_MCCs, MCP_ITERATING_OVER_MCCs, MCP_WAIT_ACCEPTANCE
  <2>4. ~UCPHasResult(m)
    BY <2>2 DEF UCPHasResult
  <2>5. UpdateAgent(m) => agent[m].state = MCP_INIT
    BY <2>1, QuietUpdate
  <2> QED
    BY <2>1, <2>2, <2>3, <2>4, <2>5
    DEF MCPTurn, MCPMoves, MCP_INIT, MCP_REQUESTING_MCCs, MCP_ITERATING_OVER_MCCs,
        MCP_WAIT_ACCEPTANCE
<1> QED
  BY <1>1, <1>2

(* The child of an MCC that bargains or has bargained is the one it had,   *)
(* or the one it has just created.                                         *)
LEMMA MCCOf ==
  ASSUME TypeOK, FreshIds, ChildrenTyped, Life, Turns,
         NEW p \in Ids, agent'[p].kind = "MCC", agent'[p].child # Nobody
  PROVE  /\ agent[p].kind = "MCC" /\ MCCStep(p) /\ MCCTurn(p)
         /\ agent'[p].valid => agent[p].valid
         /\ \/ /\ agent'[p].child = nextId /\ nextId \in Ids /\ agent[nextId].kind = "none"
               /\ agent'[nextId].kind = "UCC"
            \/ /\ agent'[p].child = agent[p].child /\ agent[p].child \in Ids
               /\ ChildOf(p).kind = "UCC"
<1>0. AgentsTypeOK
  BY DEF TypeOK
<1>1. agent[p].kind # "none"
  BY <1>0, ChildNow
<1>2. /\ agent[p].kind = "MCC" /\ MCCStep(p) /\ MCCTurn(p) /\ ChildStep(p)
      /\ agent'[p].valid => agent[p].valid
  BY <1>1, OldAgent DEF Turn
<1>3. CASE agent'[p].child = agent[p].child
  BY <1>0, <1>2, <1>3, ChildIs
<1>4. CASE agent'[p].child # agent[p].child
  BY <1>0, <1>2, <1>4, ChildNow DEF ChildStep
<1> QED
  BY <1>2, <1>3, <1>4

LEMMA MCCMoves ==
  ASSUME NEW p \in Ids, agent[p].kind = "MCC", MCCStep(p)
  PROVE  /\ agent[p].state \in {MCC_NEGOCIATING, MCC_FINISHED} =>
              agent'[p].child = agent[p].child
         /\ agent[p].state = MCC_FINISHED => agent'[p].state = MCC_FINISHED
         /\ agent'[p].state = MCC_NEGOCIATING =>
              \/ agent[p].state = MCC_NEGOCIATING
              \/ agent'[p].child = nextId /\ nextId \in Ids
         /\ agent'[p].state = MCC_FINISHED =>
              \/ agent[p].state \in {MCC_INIT, MCC_NEGOCIATING, MCC_FINISHED}
              \/ phase = "prune" \/ ClearAgents
<1> DEFINE a == agent[p]
           b == agent'[p]
<1>1. \/ b.state = a.state /\ b.child = a.child
      \/ /\ a.state = MCC_INIT /\ b.child = a.child
         /\ b.state \in {MCC_REGISTERING, MCC_FINISHED}
      \/ a.state = MCC_REGISTERING /\ b.state = MCC_IDLE /\ b.child = a.child
      \/ a.state = MCC_NEGOCIATING /\ b.child = a.child /\ b.state \in {MCC_IDLE, MCC_FINISHED}
      \/ a.state = MCC_IDLE /\ b.state = MCC_NEGOCIATING /\ b.child = nextId /\ nextId \in Ids
      \/ /\ b.state = MCC_FINISHED /\ b.child = a.child
         /\ (phase = "prune" /\ a.state = MCC_IDLE) \/ ClearAgents
  BY DEF MCCStep
<1> QED
  BY <1>1 DEF MCC_INIT, MCC_REGISTERING, MCC_IDLE, MCC_NEGOCIATING, MCC_FINISHED

LEMMA HeldStep ==
  ASSUME TypeOK, FreshIds, ChildrenTyped, SearchInv, FamilyInv, OwnInv, Life, Turns,
         [Next]_vars, ~CloseCluster, ~KillCluster, ~ClearAgents, NEW p \in Ids
  PROVE  Held(p)'
<1> SUFFICES ASSUME agent'[p].kind = "MCC", agent'[p].valid, agent'[p].child # Nobody,
                    \/ agent'[p].state = MCC_NEGOCIATING
                    \/ agent'[p].state = MCC_FINISHED /\ ToBook(p)'
             PROVE  agent'[agent'[p].child].valid
  BY DEF Held, ChildOf
<1>0. AgentsTypeOK
  BY DEF TypeOK
<1>1. CASE agent'[p].child = nextId /\ nextId \in Ids /\ agent[nextId].kind = "none"
           /\ agent'[nextId].kind = "UCC"
  BY <1>1, NewOne
<1>2. CASE agent'[p].child = agent[p].child /\ agent[p].child \in Ids /\ ChildOf(p).kind = "UCC"
  <2> DEFINE c == agent[p].child
  <2>1. /\ agent[p].kind = "MCC" /\ MCCStep(p) /\ agent[p].valid /\ c # Nobody
    BY <1>2, MCCOf
  <2>2. phase = "prune" => phase' # "update" /\ phase' # "exchange"
    <3>1. phase # "down"
      BY DEF SearchInv
    <3> QED
      BY <3>1, PlaceStep, BargainPlace, ExchangePlace, PrunePlace
  <2>3. agent[c].valid
    <3>1. \/ agent[p].state = MCC_NEGOCIATING
          \/ agent[p].state = MCC_FINISHED /\ agent'[p].state = MCC_FINISHED
      <4>1. ~(agent'[p].child = nextId /\ nextId \in Ids)
        BY <1>2, NextIsFree DEF ChildOf
      <4>2. agent[p].state # MCC_INIT
        BY <2>1 DEF ChildrenTyped, Is
      <4> QED
        BY <2>1, <2>2, <4>1, <4>2, MCCMoves DEF ToBook, MCC_NEGOCIATING, MCC_FINISHED
    <3>2. agent[p].state = MCC_FINISHED => ToBook(p)
      BY <2>1, <3>1, BookGained DEF Is, MCC_NEGOCIATING, MCC_FINISHED
    <3> QED
      BY <2>1, <3>1, <3>2 DEF OwnInv, Held, ChildOf
  <2>4. SUFFICES ASSUME ~agent'[c].valid PROVE FALSE
    BY <1>2
  <2>5. UCCTurn(c) /\ agent[c].kind = "UCC"
    BY <1>2, OldAgent DEF Turn, ChildOf
  <2>6. PICK q \in Ids :
          /\ agent[q].child = c
          /\ \/ Refused(c) /\ Negotiating(q) /\ agent'[q].state = MCC_IDLE
             \/ ExchangeAgent(q)
             \/ PruneAgent(q)
    BY <1>2, <2>3, <2>4, <2>5 DEF UCCTurn
  <2>7. q = p
    BY <2>1, <2>6 DEF FamilyInv, OneParent
  <2>8. CASE agent'[p].state = MCC_IDLE
    BY <2>8 DEF MCC_IDLE, MCC_NEGOCIATING, MCC_FINISHED
  <2>9. CASE ExchangeAgent(p)
    <3>1. /\ Is(p, "MCC", MCC_FINISHED) /\ phase = "exchange"
          /\ todo' = {j \in todo : j > p} /\ phase' \in {"exchange", "aborted"}
      BY <2>1, <2>9, ExchangePlace DEF MCPFinished, Is
    <3>2. agent'[p].state = MCC_FINISHED
      BY <2>1, <3>1
      DEF MCCStep, Is, MCC_INIT, MCC_REGISTERING, MCC_IDLE, MCC_NEGOCIATING, MCC_FINISHED
    <3> QED
      BY <3>1, <3>2, IdsArePositive DEF ToBook, MCC_NEGOCIATING, MCC_FINISHED
  <2>10. CASE PruneAgent(p)
    <3>1. phase = "prune" /\ agent' = AfterStop({p})
      BY <2>10, PrunePlace
    <3>2. agent'[p].state = MCC_FINISHED
      BY <1>0, <2>1, <3>1, StoppedFields
    <3> QED
      BY <2>2, <3>1, <3>2 DEF ToBook, MCC_NEGOCIATING, MCC_FINISHED
  <2> QED
    BY <2>6, <2>7, <2>8, <2>9, <2>10
<1> QED
  BY <1>1, <1>2, MCCOf

(* Owned, by kind.                                                         *)
LEMMA OwnedUCC ==
  ASSUME TypeOK, FreshIds, ChildrenTyped, SearchInv, FamilyInv, OwnInv, Life, Turns,
         [Next]_vars, ~CloseCluster, ~KillCluster,
         NEW c \in Ids, agent'[c].kind = "UCC", agent'[c].valid
  PROVE  \E p \in Ids : OwnsUCC(p, c)'
<1>0. AgentsTypeOK /\ c # Nobody
  BY IdsArePositive DEF TypeOK
<1>1. CASE agent[c].kind = "none"
  <2>1. PICK p \in Ids : /\ Is(p, "MCC", MCC_IDLE) /\ agent'[p].state = MCC_NEGOCIATING
                         /\ agent'[p].child = c
    BY <1>1, NewOne DEF Arrives
  <2>2. MCCTurn(p) /\ agent'[p].kind = "MCC"
    BY <2>1, OldAgent DEF Turn, Is
  <2>3. agent[p].valid
    BY <2>1 DEF OwnInv, DeadDone, Is, MCC_IDLE, MCC_FINISHED
  <2>4. agent'[p].valid
    BY <2>1, <2>2, <2>3 DEF MCCTurn, Is, MCC_IDLE, MCC_FINISHED
  <2> QED
    BY <2>1, <2>2, <2>4 DEF OwnsUCC
<1>2. CASE agent[c].kind # "none"
  <2>1. agent[c].kind = "UCC" /\ agent[c].valid
    BY <1>2, OldAgent
  <2>2. PICK p \in Ids : OwnsUCC(p, c)
    BY <2>1 DEF OwnInv, Owned
  <2>3. MCCTurn(p) /\ MCCStep(p) /\ agent[p].kind = "MCC" /\ agent'[p].kind = "MCC"
        /\ agent[p].valid /\ agent[p].child = c
    BY <2>2, OldAgent DEF Turn, OwnsUCC
  <2>4. CASE agent[p].state = MCC_NEGOCIATING
    <3>1. agent'[p].child = c /\ agent'[p].valid
      BY <2>3, <2>4, MCCMoves DEF MCCTurn, MCC_NEGOCIATING, MCC_FINISHED
    <3>2. CASE UpdateAgent(p) /\ agent'[p].state = MCC_FINISHED
      <4>1. phase' = "update" /\ p \notin todo'
        BY <3>2, BargainPlace, IdsArePositive
      <4> QED
        BY <2>3, <3>1, <3>2, <4>1 DEF OwnsUCC, Due, ToBook
    <3> QED
      BY <2>3, <2>4, <3>1, <3>2 DEF OwnsUCC, MCCTurn
  <2>5. CASE agent[p].state = MCC_FINISHED /\ Due(p)
    <3>1. agent'[p].child = c /\ agent'[p].state = MCC_FINISHED
      BY <2>3, <2>5, MCCMoves
    <3>2. agent'[p].valid
      <4>1. SUFFICES ASSUME ~agent'[p].valid PROVE FALSE
        BY AgentParts DEF Agent
      <4>2. UpdateAgent(p)
        BY <2>3, <4>1 DEF MCCTurn
      <4> QED
        BY <2>5, <4>2, BargainPlace DEF Due, ToBook
    <3>3. Due(p)'
      <4>1. CASE ExchangeAgent(p)
        <5>1. agent' # AfterStop({p})
          BY <1>0, <2>3, StoppedChild
        <5>2. phase' = "aborted"
          BY <2>3, <4>1, <5>1, ExchangePlace DEF MCPFinished, Is
        <5> QED
          BY <5>2 DEF Due
      <4>2. CASE ~ExchangeAgent(p)
        BY <2>3, <2>5, <4>2, BookKept DEF ExchangeActs, Is
      <4> QED
        BY <4>1, <4>2
    <3> QED
      BY <2>3, <3>1, <3>2, <3>3 DEF OwnsUCC
  <2> QED
    BY <2>2, <2>4, <2>5 DEF OwnsUCC
<1> QED
  BY <1>1, <1>2

(* What becomes of the owner of a UCP that stays.                          *)
LEMMA UpdateConcludes ==
  ASSUME TypeOK, ChildrenTyped, NEW q \in Ids, UpdateAgent(q),
         Is(q, "MCP", MCP_NEGOCIATING_UCP_RES)
  PROVE  agent'[q].state # MCP_NEGOCIATING_UCP_RES
<1>1. ContributorUpdate(q) \/ PetitionerUpdate(q)
  BY DEF UpdateAgent
<1>2. ~ContributorUpdate(q)
  BY DEF ContributorUpdate, MCCRegister, MCCConclude, UCCHasResult, MCCDestroy, UCCStart, Is
<1>3. ~MCPQuery(q) /\ ~MCPIterate(q) /\ ~UCPStart(q) /\ ~UCPConclude(q)
  BY DEF MCPQuery, MCPIterate, UCPStart, UCPConclude, Is, MCP_NEGOCIATING_UCP_RES, MCP_INIT,
         MCP_ITERATING_OVER_MCCs
<1>4. MCPConclude(q)
  BY <1>1, <1>2, <1>3 DEF PetitionerUpdate
<1>5. agent \in [Ids -> Agent] /\ AgentsTypeOK
  BY AgentParts DEF TypeOK, AgentsTypeOK
<1>6. CASE agent[agent[q].child].success
  <2>1. PICK b \in BOOLEAN :
          b /\ agent' = [agent EXCEPT ![q] = [@ EXCEPT !.success = b, !.state = MCP_FINISHED]]
    BY <1>4, <1>6 DEF MCPConclude
  <2>2. agent'[q].state = MCP_FINISHED
    BY <1>5, <2>1, OneConcludes
  <2> QED
    BY <2>2 DEF MCP_FINISHED, MCP_NEGOCIATING_UCP_RES
<1>7. CASE ~agent[agent[q].child].success
  <2>1. PICK f \in [Ids -> Agent] : f = AfterStop({agent[q].child})
    BY <1>5, AfterStopType
  <2>2. agent' = [f EXCEPT ![q] = NextContributor(@)]
    BY <1>4, <1>7, <2>1 DEF MCPConclude
  <2>3. agent'[q] = NextContributor(f[q]) /\ f[q] \in Agent
    BY <2>1, <2>2
  <2>4. agent'[q].state = MCP_ITERATING_OVER_MCCs
    BY <2>3 DEF NextContributor, Agent
  <2> QED
    BY <2>4 DEF MCP_ITERATING_OVER_MCCs, MCP_NEGOCIATING_UCP_RES
<1> QED
  BY <1>6, <1>7

LEMMA MCPMovesNot ==
  ASSUME NEW q, agent[q].state \in {MCP_NEGOCIATING_UCP_RES, MCP_FINISHED}
  PROVE  ~MCPMoves(q)
  BY DEF MCPMoves, MCP_INIT, MCP_REQUESTING_MCCs, MCP_ITERATING_OVER_MCCs, MCP_WAIT_ACCEPTANCE,
         MCP_NEGOCIATING_UCP_RES, MCP_FINISHED

(* The stop() of a search of the user's destroys it.                       *)
LEMMA StoppedTop ==
  ASSUME AgentsTypeOK, NEW p \in Ids, agent[p].kind = "MCP", agent' = AfterStop({p})
  PROVE  ~agent'[p].valid
<1>1. p \in Search(p)
  BY DEF Search, Below
<1>2. p \in DestroyedByStop({p})
  BY <1>1 DEF DestroyedByStop
<1> QED
  BY <1>2, StoppedFields

LEMMA OwnerOfUCP ==
  ASSUME TypeOK, FreshIds, ChildrenTyped, SearchInv, Life, Turns,
         [Next]_vars, ~CloseCluster, ~KillCluster,
         NEW p \in Ids, NEW u \in Ids, OwnsUCP(p, u), agent'[u].valid
  PROVE  OwnsUCP(p, u)'
<1>0. AgentsTypeOK /\ u # Nobody
  BY IdsArePositive DEF TypeOK
<1>1. /\ agent[p].kind = "MCP" /\ agent[p].depth = 0 /\ agent[p].child = u /\ agent[p].valid
      /\ TopSearch(p)
  BY DEF OwnsUCP, TopSearch
<1>2. /\ MCPTurn(p) /\ Ages(agent'[p], agent[p])
      /\ agent'[p].kind = "MCP" /\ agent'[p].depth = 0 /\ TopSearch(p)'
  BY <1>1, OldAgent DEF Turn, TopSearch
<1>3. ~SearchStopped(p)
  BY <1>0, <1>1 DEF SearchStopped
<1>4. agent'[p].valid
  BY <1>1, <1>2, <1>3 DEF MCPTurn
<1>5. agent[p].state \in {MCP_NEGOCIATING_UCP_RES, MCP_FINISHED}
  BY DEF OwnsUCP
<1>6. agent'[p].child = u
  BY <1>1, <1>2, <1>5
  DEF MCPTurn, MCP_WAIT_ACCEPTANCE, MCP_NEGOCIATING_UCP_RES, MCP_FINISHED
<1>7. ~MCPMoves(p)
  BY <1>5, MCPMovesNot
<1>8. CASE agent[p].state = MCP_NEGOCIATING_UCP_RES
  <2>1. \/ agent'[p].state = MCP_NEGOCIATING_UCP_RES
        \/ UpdateAgent(p) /\ agent'[p].success /\ agent'[p].state = MCP_FINISHED
    BY <1>1, <1>2, <1>3, <1>7, <1>8 DEF MCPTurn
  <2>2. UpdateAgent(p) => Due(p)'
    BY BargainPlace, IdsArePositive DEF Due, ToBook
  <2> QED
    BY <1>2, <1>4, <1>6, <2>1, <2>2 DEF OwnsUCP
<1>9. CASE agent[p].state = MCP_FINISHED
  <2>1. agent[p].success /\ Due(p)
    BY <1>9 DEF OwnsUCP, MCP_FINISHED, MCP_NEGOCIATING_UCP_RES
  <2>2. agent'[p].state = MCP_FINISHED /\ agent'[p].success
    BY <1>1, <1>2, <1>9, <2>1 DEF Ages
  <2>3. Due(p)'
    <3>1. CASE ExchangeAgent(p)
      <4>1. agent' # AfterStop({p})
        BY <1>0, <1>1, <1>4, StoppedTop
      <4>2. phase' = "aborted"
        BY <2>1, <3>1, <4>1, ExchangePlace
      <4> QED
        BY <4>2 DEF Due
    <3>2. CASE ~ExchangeAgent(p)
      BY <1>1, <1>9, <2>1, <3>2, BookKept DEF ExchangeActs, MCPFinished, Is
    <3> QED
      BY <3>1, <3>2
  <2> QED
    BY <1>2, <1>4, <1>6, <2>2, <2>3 DEF OwnsUCP
<1> QED
  BY <1>5, <1>8, <1>9

LEMMA OwnedUCP ==
  ASSUME TypeOK, FreshIds, ChildrenTyped, SearchInv, OwnInv, Life, Turns,
         [Next]_vars, ~CloseCluster, ~KillCluster,
         NEW u \in Ids, agent'[u].kind = "UCP", agent'[u].valid
  PROVE  \E p \in Ids : OwnsUCP(p, u)'
<1>1. CASE agent[u].kind = "none"
  <2>1. PICK q \in Ids : /\ Is(q, "MCP", MCP_WAIT_ACCEPTANCE)
                         /\ agent'[q].state = MCP_NEGOCIATING_UCP_RES
                         /\ agent'[q].child = u
    BY <1>1, NewOne DEF Arrives
  <2>2. MCPTurn(q) /\ agent'[q].kind = "MCP" /\ agent'[q].depth = agent[q].depth
    BY <2>1, OldAgent DEF Turn, Is
  <2>3. TopSearch(q)
    <3>1. ~Nested(q)
      BY <2>1 DEF OwnInv, Quiet, Is, MCP_INIT, MCP_REQUESTING_MCCs, MCP_ITERATING_OVER_MCCs,
                  MCP_WAIT_ACCEPTANCE
    <3>2. agent[q].depth \in 0..MaxSearchDepth
      BY AgentParts DEF TypeOK
    <3> QED
      BY <2>1, <3>1, <3>2 DEF Nested, TopSearch, Is, MaxSearchDepth
  <2>4. agent[q].valid
    BY <2>1, <2>3 DEF OwnInv, DeadDone, Is, MCP_WAIT_ACCEPTANCE, MCP_FINISHED
  <2>5. agent'[q].valid
    BY <2>1, <2>2, <2>3, <2>4
    DEF MCPTurn, TopSearch, MCPFinished, Is, MCP_WAIT_ACCEPTANCE, MCP_FINISHED
  <2> QED
    BY <2>1, <2>2, <2>3, <2>5 DEF OwnsUCP, TopSearch
<1>2. CASE agent[u].kind # "none"
  <2>1. agent[u].kind = "UCP" /\ agent[u].valid
    BY <1>2, OldAgent
  <2>2. PICK p \in Ids : OwnsUCP(p, u)
    BY <2>1 DEF OwnInv, Owned
  <2> QED
    BY <2>2, OwnerOfUCP
<1> QED
  BY <1>1, <1>2

(* The update loop has passed the owner of a UCP which refused.            *)
LEMMA UnbegunKept ==
  ASSUME TypeOK, ChildrenTyped, SearchInv, Life, Turns,
         [Next]_vars, ~CloseCluster, ~KillCluster,
         NEW p \in Ids, NEW m \in Ids, UCPHasResult(p), agent[p].valid,
         agent'[p].state = MCP_NEGOCIATING_UCP_RES, agent'[p].valid,
         agent[m].kind = "MCP", Unbegun(p, m)
  PROVE  Unbegun(p, m)'
<1> SUFFICES ASSUME phase' = "update", p \notin todo', m \in todo'
             PROVE  agent'[m].state = MCP_INIT
  BY DEF Unbegun
<1>0. phase # "down" /\ p \in Reachable /\ UpdateActs(p) /\ Is(p, "MCP", MCP_NEGOCIATING_UCP_RES)
  BY DEF SearchInv, UpdateActs, PetitionerActs, UCPHasResult
<1>1. phase = "update" /\ p \notin todo /\ m \in todo /\ ~UpdateAgent(m)
  <2>1. CASE phase' = phase /\ present' = present /\ todo' = todo
    <3>1. ~UpdateAgent(m)
      BY <2>1, BargainPlace, IdsArePositive
    <3> QED
      BY <2>1, <3>1
  <2>2. ASSUME NEW i \in Ids, UpdateAgent(i)
        PROVE  phase = "update" /\ p \notin todo /\ m \in todo /\ ~UpdateAgent(m)
    <3>1. /\ phase = "update" /\ todo' = {j \in todo : j > i}
          /\ p \in todo => i <= p
      BY <1>0, <2>2, BargainPlace
    <3>2. i # p
      BY <1>0, <2>2, UpdateConcludes
    <3>3. p \in Nat /\ i \in Nat /\ m \in Nat
      BY IdsArePositive
    <3>4. m # i /\ m \in todo /\ p \notin todo
      BY <3>1, <3>2, <3>3
    <3> QED
      BY <2>2, <3>1, <3>4, UniqueUpdate
  <2>3. CASE FrameEnds /\ phase = "net" /\ phase' = "update" /\ todo' = present'
    BY <1>0, <2>3 DEF FrameEnds, SurvivingAgents
  <2>4. ~\E i \in Ids : ExchangeAgent(i) \/ PruneAgent(i)
    BY ExchangePlace, PrunePlace
  <2> QED
    BY <1>0, <2>1, <2>2, <2>3, <2>4, PlaceStep
<1>2. agent[m].state = MCP_INIT /\ MCPTurn(m)
  BY <1>1, OldAgent DEF Unbegun, Turn
<1> QED
  BY <1>1, <1>2
  DEF MCPTurn, MCPMoves, UCPHasResult, Is, MCP_INIT, MCP_REQUESTING_MCCs,
      MCP_ITERATING_OVER_MCCs, MCP_WAIT_ACCEPTANCE, MCP_NEGOCIATING_UCP_RES

LEMMA OwnedSearch ==
  ASSUME TypeOK, FreshIds, ChildrenTyped, SearchInv, FamilyInv, OwnInv, Life, Turns,
         [Next]_vars, ~CloseCluster, ~KillCluster,
         NEW m \in Ids, Nested(m)', agent'[m].valid
  PROVE  \E p, u \in Ids : OwnsSearch(p, u, m)'
<1>0. m # Nobody /\ agent'[m].kind = "MCP" /\ agent'[m].depth > 0
  BY IdsArePositive DEF Nested
<1>1. CASE agent[m].kind = "none"
  <2>1. PICK u \in Ids : /\ agent[u].kind = "UCP" /\ agent[u].state = UCP_REQUEST_ITEM
                         /\ agent'[u].state = UCP_IDLE /\ agent'[u].child = m
    BY <1>0, <1>1, NewOne DEF Arrives, Is
  <2>2. agent'[u].kind = "UCP" /\ UCPTurn(u)
    BY <2>1, OldAgent DEF Turn
  <2>3. agent[u].valid
    BY <2>1 DEF OwnInv, DeadDone, UCP_REQUEST_ITEM, UCP_FINISHED
  <2>4. agent'[u].valid
    <3>1. SUFFICES ASSUME ~agent'[u].valid PROVE FALSE
      OBVIOUS
    <3>2. PICK q \in Ids : /\ agent[q].kind = "MCP" /\ agent[q].child = u
                           /\ UCPHasResult(q) \/ MCPFinished(q)
      BY <2>1, <2>2, <2>3, <3>1 DEF UCPTurn
    <3>3. u # Nobody /\ Done(q)
      BY IdsArePositive DEF OwnInv
    <3>4. agent[u].state = UCP_FINISHED
      BY <3>2, <3>3
      DEF Done, UCPHasResult, MCPFinished, Is, ChildOf, MCP_FINISHED, MCP_NEGOCIATING_UCP_RES
    <3> QED
      BY <2>1, <3>4 DEF UCP_REQUEST_ITEM, UCP_FINISHED
  <2>5. PICK p \in Ids : OwnsUCP(p, u)'
    BY <2>2, <2>4, OwnedUCP
  <2>6. agent'[p].kind = "MCP" /\ agent'[p].child = u /\ Done(p)'
    BY <2>5, DoneStep DEF OwnsUCP, TopSearch
  <2>7. agent'[p].state = MCP_NEGOCIATING_UCP_RES
    BY <2>1, <2>6, IdsArePositive DEF Done, ChildOf, UCP_IDLE, UCP_FINISHED
  <2> QED
    BY <2>1, <2>2, <2>4, <2>5, <2>7 DEF OwnsSearch
<1>2. CASE agent[m].kind # "none"
  <2>1. Nested(m) /\ agent[m].kind = "MCP" /\ agent[m].valid /\ MCPTurn(m)
    BY <1>0, <1>2, OldAgent DEF Nested, Turn
  <2>2. PICK p \in Ids, u \in Ids : OwnsSearch(p, u, m)
    BY <2>1 DEF OwnInv, Owned
  <2>3. /\ OwnsUCP(p, u) /\ agent[p].state = MCP_NEGOCIATING_UCP_RES /\ agent[p].kind = "MCP"
        /\ agent[p].child = u /\ agent[p].valid
        /\ agent[u].kind = "UCP" /\ agent[u].valid /\ agent[u].child = m
        /\ \/ agent[u].state = UCP_IDLE
           \/ agent[u].state = UCP_FINISHED /\ ~agent[u].success /\ Unbegun(p, m)
    BY <2>2 DEF OwnsSearch, OwnsUCP, TopSearch
  <2>4. MCPTurn(p) /\ UCPTurn(u) /\ agent'[u].kind = "UCP" /\ u # Nobody
    BY <2>3, OldAgent, IdsArePositive DEF Turn
  <2>5. ~SearchStopped(p)
    BY <1>0, <2>3, <2>4 DEF SearchStopped, ChildOf
  <2>6. agent'[p].state = MCP_NEGOCIATING_UCP_RES
    <3>1. ~(UCPHasResult(p) /\ ChildOf(p).success)
      BY <2>3 DEF UCPHasResult, ChildOf, UCP_IDLE, UCP_FINISHED
    <3> QED
      BY <2>3, <2>4, <2>5, <3>1, MCPMovesNot DEF MCPTurn
  <2>7. agent'[u].valid
    <3>1. SUFFICES ASSUME ~agent'[u].valid PROVE FALSE
      OBVIOUS
    <3>2. PICK q \in Ids :
            /\ agent[q].kind = "MCP" /\ agent[q].child = u
            /\ \/ UCPHasResult(q) /\ agent'[q].state = MCP_ITERATING_OVER_MCCs
               \/ MCPFinished(q)
      BY <2>3, <2>4, <3>1 DEF UCPTurn
    <3>3. q = p
      BY <2>3, <2>4, <3>2 DEF FamilyInv, OneParent
    <3> QED
      BY <2>3, <2>6, <3>2, <3>3
      DEF MCPFinished, Is, MCP_FINISHED, MCP_NEGOCIATING_UCP_RES, MCP_ITERATING_OVER_MCCs
  <2>8. OwnsUCP(p, u)'
    BY <2>3, <2>7, OwnerOfUCP
  <2>9. agent'[u].child = m
    BY <2>3, <2>4 DEF UCPTurn, UCP_REQUEST_ITEM, UCP_IDLE, UCP_FINISHED
  <2>10. CASE agent[u].state = UCP_IDLE
    <3>1. agent[m].state = MCP_INIT
      BY <2>3, <2>10 DEF SearchInv, Waits, FreshSearch, Is
    <3>2. \/ agent'[u].state = UCP_IDLE
          \/ agent'[u].state = UCP_FINISHED /\ UpdateAgent(u) /\ ~agent'[u].success
      BY <2>3, <2>4, <2>10, <3>1
      DEF UCPTurn, ChildOf, UCP_INIT, UCP_REQUEST_ITEM, UCP_IDLE, UCP_FINISHED, MCP_INIT
    <3>3. ASSUME UpdateAgent(u) PROVE Unbegun(p, m)'
      <4>1. u # m
        BY <2>1, <2>3
      <4>2. ~UpdateAgent(m)
        BY <3>3, <4>1, UniqueUpdate
      <4>3. agent'[m].state = MCP_INIT
        BY <2>1, <3>1, <4>2
        DEF MCPTurn, MCPMoves, UCPHasResult, Is, MCP_INIT, MCP_REQUESTING_MCCs,
            MCP_ITERATING_OVER_MCCs, MCP_WAIT_ACCEPTANCE, MCP_NEGOCIATING_UCP_RES
      <4> QED
        BY <4>3 DEF Unbegun
    <3> QED
      BY <2>4, <2>6, <2>7, <2>8, <2>9, <3>2, <3>3 DEF OwnsSearch
  <2>11. CASE agent[u].state = UCP_FINISHED /\ ~agent[u].success /\ Unbegun(p, m)
    <3>1. agent'[u].state = UCP_FINISHED /\ ~agent'[u].success
      BY <2>3, <2>11, UCPStays DEF Is
    <3>2. UCPHasResult(p)
      BY <2>3, <2>4, <2>11 DEF UCPHasResult, Is
    <3>3. agent'[p].valid
      BY <2>8 DEF OwnsUCP
    <3>4. Unbegun(p, m)'
      BY <2>1, <2>3, <2>6, <2>11, <3>2, <3>3, UnbegunKept
    <3> QED
      BY <2>4, <2>6, <2>7, <2>8, <2>9, <3>1, <3>4 DEF OwnsSearch
  <2> QED
    BY <2>3, <2>10, <2>11
<1> QED
  BY <1>1, <1>2

(* Nobody is destroyed between postUpdate() and the first update().        *)
LEMMA FrameFreshStep ==
  ASSUME TypeOK, JustifiedInv, SearchInv, FrameFresh, [Next]_vars, ~CloseCluster, ~KillCluster
  PROVE  FrameFresh'
<1> SUFFICES ASSUME phase' = "update", todo' = present', NEW i \in present'
             PROVE  agent'[i].valid
  BY DEF FrameFresh, FrameStarts
<1>0. phase # "down" /\ todo \subseteq present /\ present \subseteq Ids
  BY DEF SearchInv, JustifiedInv, TypeOK, AgentsTypeOK
<1>1. ~\E k \in Ids : UpdateAgent(k) /\ (present' = present)
  <2> SUFFICES ASSUME NEW k \in Ids, UpdateAgent(k), present' = present PROVE FALSE
    OBVIOUS
  <2>1. k \in todo /\ todo' = {j \in todo : j > k}
    BY BargainPlace
  <2> QED
    BY <1>0, <2>1, IdsArePositive
<1>2. CASE phase' = phase /\ present' = present /\ todo' = todo
  <2>1. phase = "update" /\ todo = present /\ i \in present
    BY <1>2
  <2>2. agent[i].valid
    BY <2>1 DEF FrameFresh, FrameStarts
  <2>3. agent' = agent
    BY <1>1, <1>2, <2>1, UpdatePhase
  <2> QED
    BY <2>2, <2>3
<1>3. CASE FrameEnds
  BY <1>3 DEF FrameEnds, SurvivingAgents
<1>4. ~\E k \in Ids : ExchangeAgent(k) \/ PruneAgent(k)
  BY ExchangePlace, PrunePlace
<1> QED
  BY <1>0, <1>1, <1>2, <1>3, <1>4, PlaceStep

LEMMA OwnStep ==
  ASSUME TypeOK, FreshIds, SuccessIsFinal, ChildrenTyped, JustifiedInv, SearchInv, FamilyInv,
         OwnInv, Life, Turns, [Next]_vars, ~CloseCluster, ~KillCluster, ~ClearAgents
  PROVE  OwnInv'
<1> SUFFICES ASSUME NEW i \in Ids
             PROVE  (DeadDone(i) /\ Quiet(i) /\ Done(i) /\ Verdict(i) /\ Owned(i) /\ Held(i)
                     /\ Wanted(i))'
  BY DEF OwnInv
<1>1. DeadDone(i)' /\ Quiet(i)' /\ Done(i)' /\ Verdict(i)' /\ Held(i)' /\ Wanted(i)'
  BY DeadDoneStep, QuietStep, DoneStep, VerdictStep, HeldStep, WantedStep
<1>2. Owned(i)'
  BY OwnedUCC, OwnedUCP, OwnedSearch DEF Owned
<1> QED
  BY <1>1, <1>2

OwnershipInv == FamilyInv /\ OwnInv /\ FrameFresh

(* Nobody is there yet.                                                    *)
LEMMA OwnershipInit == Init => OwnershipInv
<1> SUFFICES ASSUME Init PROVE OwnershipInv
  OBVIOUS
<1>1. \A i \in Ids : agent[i].kind = "none" /\ ~agent[i].valid /\ agent[i].child = Nobody
  BY NoAgentType DEF Init, AgentsInit, NoAgent, NewAgent
<1>2. FamilyInv
  BY <1>1 DEF FamilyInv, Younger, OneParent, SameTerms, AtHome, Unborn, TopSearch
<1>3. OwnInv
  BY <1>1 DEF OwnInv, DeadDone, Quiet, Done, Verdict, Owned, Held, Wanted, Nested, TopSearch
<1>4. FrameFresh
  BY DEF Init, AgentsInit, FrameFresh
<1> QED
  BY <1>2, <1>3, <1>4 DEF OwnershipInv

LEMMA OwnershipStep ==
  ASSUME NoClear, ClusterStays, TypeOK, BargainInv, LifeInv, JustifiedInv, SearchInv,
         TimelyTokens, PayerAlive, OwnershipInv, [Next]_vars
  PROVE  OwnershipInv' /\ Life /\ Turns
<1>1. TypeOK' /\ FreshIds /\ SuccessIsFinal /\ ChildrenTyped /\ PayerAsked
      /\ FamilyInv /\ OwnInv /\ FrameFresh
  BY TypeStep DEF BargainInv, LifeInv, OwnershipInv
<1>2. ~ClearAgents /\ ~CloseCluster /\ ~KillCluster
  BY Bounds
<1>3. Life
  BY <1>1, <1>2, LifeStep
<1>4. QuietSearches
  BY <1>1 DEF OwnInv, QuietSearches
<1>5. Turns
  BY <1>1, <1>2, <1>4, TurnsStep
<1>6. FamilyInv'
  BY <1>1, <1>2, <1>3, <1>5, FamilyStep
<1>7. OwnInv'
  BY <1>1, <1>2, <1>3, <1>5, OwnStep
<1>8. FrameFresh'
  BY <1>1, <1>2, FrameFreshStep
<1> QED
  BY <1>3, <1>5, <1>6, <1>7, <1>8 DEF OwnershipInv

LEMMA OwnershipInvariant ==
  ASSUME NoClear, ClusterStays, GarbageIsNowhere
  PROVE  Spec => []OwnershipInv
<1>1. ASSUME TypeOK, BargainInv, LifeInv, JustifiedInv, SearchInv, TalkInv, PayerAlive,
             OwnershipInv, [Next]_vars
      PROVE  OwnershipInv'
  <2>1. TimelyTokens
    BY <1>1 DEF TalkInv
  <2> QED
    BY <1>1, <2>1, OwnershipStep
<1>2. /\ Spec => []TypeOK
      /\ Spec => []BargainInv
      /\ Spec => []LifeInv
      /\ Spec => []JustifiedInv
      /\ Spec => []PayerAlive
      /\ Spec => []SearchInv
      /\ Spec => [](TalkInv /\ SuccessIsFinal)
  BY TypeCorrect, BargainsAreTrue, LifeInvariant, JustifiedInvariant, PayerLives,
     SearchInvariant, TalkInvariant
<1> QED
  BY <1>1, <1>2, OwnershipInit, PTL DEF Spec

LEMMA OwnersArePresent ==
  ASSUME TypeOK, JustifiedInv, SearchInv, OwnershipInv
  PROVE  NoOrphans
<1> SUFFICES ASSUME phase = "update", todo = present, NEW i \in present,
                    agent[i].kind # "MCC", ~TopSearch(i)
             PROVE  \E p \in present : Awaits(p, i)
  BY DEF NoOrphans, FrameStarts, TopSearch
<1>1. i \in Ids /\ AgentsTypeOK
  BY DEF TypeOK, AgentsTypeOK
<1>2. agent[i].valid /\ agent[i].kind # "none" /\ Owned(i)
  BY <1>1 DEF OwnershipInv, FrameFresh, FrameStarts, FamilyInv, Unborn, OwnInv
<1>3. agent[i].kind \in {"UCC", "UCP"} \/ Nested(i)
  <2>1. agent[i].kind \in {"MCC", "UCC", "MCP", "UCP"} /\ agent[i].depth \in 0..MaxSearchDepth
    BY <1>1, <1>2, AgentParts DEF Agent
  <2> QED
    BY <2>1 DEF Nested, TopSearch, MaxSearchDepth
<1>4. \A p \in Ids : agent[p].valid => p \in present
  BY DEF SearchInv, Reachable
<1>5. \A p \in Ids : agent[p].valid => ~Due(p)
  BY <1>4 DEF Due, ToBook
<1>6. CASE agent[i].kind = "UCC"
  <2>1. PICK p \in Ids : OwnsUCC(p, i)
    BY <1>2, <1>6 DEF Owned
  <2> QED
    BY <1>4, <1>5, <1>6, <2>1 DEF OwnsUCC, Awaits, Negotiating, Is
<1>7. CASE agent[i].kind = "UCP"
  <2>1. PICK p \in Ids : OwnsUCP(p, i)
    BY <1>2, <1>7 DEF Owned
  <2> QED
    BY <1>4, <1>5, <1>7, <2>1 DEF OwnsUCP, TopSearch, Awaits, Is
<1>8. CASE Nested(i)
  <2>1. PICK p \in Ids, u \in Ids : OwnsSearch(p, u, i)
    BY <1>2, <1>8 DEF Owned
  <2> QED
    BY <1>4, <1>8, <2>1 DEF OwnsSearch, Nested, Awaits
<1> QED
  BY <1>3, <1>6, <1>7, <1>8

(* When a frame starts, every unicast agent and every nested search is the *)
(* child of an agent that still waits for it, whatever order packets come  *)
(* in and whatever happens to the yellow pages: an MCC, an MCP and a UCP   *)
(* destroy whom they created before they turn to something else.           *)
THEOREM NobodyIsOrphaned ==
  ASSUME NoClear, ClusterStays, GarbageIsNowhere
  PROVE  Spec => []NoOrphans
<1>1. /\ Spec => []TypeOK
      /\ Spec => []JustifiedInv
      /\ Spec => []SearchInv
      /\ Spec => []OwnershipInv
  BY TypeCorrect, JustifiedInvariant, SearchInvariant, OwnershipInvariant
<1>2. TypeOK /\ JustifiedInv /\ SearchInv /\ OwnershipInv => NoOrphans
  BY OwnersArePresent
<1> QED
  BY <1>1, <1>2, PTL

-----------------------------------------------------------------------------
(* Deals: the bargains of Barter.                                          *)

(* UCP u, of MCP q, struck a bargain with the UCC of MCC p.                *)
Deal(u, p, q) ==
  /\ agent[u].kind = "UCP" /\ agent[u].success
  /\ agent[p].kind = "MCC" /\ agent[p].child = agent[u].location
  /\ agent[q].kind = "MCP" /\ agent[q].child = u

DealOf(u, p, q) == BargainOf(agent[u].location, p, q)

(* What is known of the agents of a deal.                                  *)
DealInv ==
  /\ TypeOK /\ BargainInv /\ LifeInv /\ JustifiedInv /\ SearchInv
  /\ ReservationInv /\ TalkInv /\ FairTrade /\ OwnershipInv

LEMMA StruckIs ==
  ASSUME NEW b
  PROVE  b \in Struck <=> \E u, p, q \in Ids : Deal(u, p, q) /\ b = DealOf(u, p, q)
  BY DEF Struck, Deal, DealOf, ContributorOf, PetitionerOf

LEMMA StruckNow ==
  ASSUME NEW b
  PROVE  b \in Struck' <=> \E u, p, q \in Ids : Deal(u, p, q)' /\ b = DealOf(u, p, q)'
  BY DEF Struck, Deal, DealOf, ContributorOf, PetitionerOf

LEMMA DealParts ==
  ASSUME DealInv, NEW u \in Ids, NEW p \in Ids, NEW q \in Ids, Deal(u, p, q)
  PROVE  /\ Is(u, "UCP", UCP_FINISHED)
         /\ agent[u].location \in Ids /\ agent[agent[u].location].kind = "UCC"
         /\ agent[p].child # Nobody /\ ~Refused(agent[p].child)
         /\ TopSearch(q) /\ agent[q].child # Nobody
         /\ agent[p].give = agent[u].want /\ agent[p].want = agent[u].give
         /\ agent[q].want = agent[u].want /\ agent[q].give = agent[u].give
         /\ agent[p].node \in Nodes /\ agent[q].node \in Nodes
         /\ DealOf(u, p, q) \in Trade!Bargain
<1> DEFINE c == agent[u].location
<1>0. AgentsTypeOK /\ FamilyInv /\ OwnInv /\ Talks
  BY DEF DealInv, TypeOK, TalkInv, OwnershipInv
<1>1. Is(u, "UCP", UCP_FINISHED)
  BY DEF Deal, DealInv, BargainInv, SuccessIsFinal, Is
<1>2. c # Nowhere /\ Talking(u, c)
  BY <1>0, <1>1 DEF Talks, Stranded, Is, UCP_FINISHED, UCP_INIT, UCP_REQUEST_ITEM
<1>3. c \in Ids /\ agent[c].kind = "UCC"
  BY <1>0, <1>2, UCPLocation DEF Talking
<1>4. ~Refused(c) /\ agent[p].child # Nobody /\ agent[q].child # Nobody
  <2>1. agent[c].success \in BOOLEAN /\ agent[u].success \in BOOLEAN
    BY <1>0, <1>3, AgentParts DEF Agent
  <2>2. agent[c].state = UCC_FINISHED => agent[c].success = agent[u].success
    BY <1>1, <1>2 DEF Talking, Is, UCC_WAITING_CONSTRAINT, UCC_FINISHED
  <2>3. ~Refused(c)
    BY <2>1, <2>2 DEF Refused, Deal
  <2> QED
    BY <1>3, <2>3, IdsArePositive DEF Deal
<1>5. TopSearch(q)
  <2>1. PICK t \in Ids : TopSearch(t) /\ agent[t].child = u
    BY <1>0 DEF OwnInv, Wanted, Deal
  <2> QED
    BY <1>0, <1>4, <2>1 DEF Deal, FamilyInv, OneParent
<1>6. agent[p].give = agent[u].want /\ agent[p].want = agent[u].give
  <2>2. PICK t \in Ids : /\ agent[t].child = agent[u].location
                         /\ agent[t].give = agent[u].want /\ agent[t].want = agent[u].give
    BY DEF DealInv, FairTrade, Deal
  <2> QED
    BY <1>0, <1>4, <2>2 DEF Deal, FamilyInv, OneParent
<1>7. agent[q].want = agent[u].want /\ agent[q].give = agent[u].give
  BY <1>0, <1>4 DEF FamilyInv, SameTerms, ChildOf, Deal
<1>8. agent[p].node \in Nodes /\ agent[q].node \in Nodes
  BY <1>0, <1>5 DEF DealInv, ReservationInv, MarkedWhileNegotiating, FamilyInv, AtHome, Deal
<1>9. DealOf(u, p, q) \in Trade!Bargain
  <2>1. agent[p].give \in Items /\ agent[p].want \in Items
    BY <1>0, AgentParts
  <2> QED
    BY <1>3, <1>8, <2>1 DEF DealOf, BargainOf, Trade!Bargain
<1> QED
  BY <1>1, <1>3, <1>4, <1>5, <1>6, <1>7, <1>8, <1>9 DEF Deal

(* A bargain is that of one UCC, one MCC, one UCP and one MCP.             *)
LEMMA OneDeal ==
  ASSUME DealInv, NEW u \in Ids, NEW p \in Ids, NEW q \in Ids, Deal(u, p, q),
         NEW v \in Ids, NEW r \in Ids, NEW s \in Ids, Deal(v, r, s),
         u = v \/ p = r \/ q = s \/ agent[u].location = agent[v].location
  PROVE  u = v /\ p = r /\ q = s
<1>0. OneParent /\ OneUCP
  BY DEF DealInv, TalkInv, OwnershipInv, FamilyInv
<1>1. agent[p].child # Nobody /\ agent[q].child # Nobody /\ agent[u].location \in Ids
  BY DealParts
<1>2. u = v
  BY <1>0, <1>1 DEF Deal, OneUCP, TalksTo
<1> QED
  BY <1>0, <1>1, <1>2 DEF Deal, OneParent

(* A UCP that succeeded struck a bargain.                                  *)
LEMMA DealExists ==
  ASSUME DealInv, NEW u \in Ids, agent[u].kind = "UCP", agent[u].success
  PROVE  \E p, q \in Ids : Deal(u, p, q)
<1>1. PICK q \in Ids : TopSearch(q) /\ agent[q].child = u
  BY DEF DealInv, OwnershipInv, OwnInv, Wanted
<1>2. PICK p \in Ids : agent[p].kind = "MCC" /\ agent[p].child = agent[u].location
  BY DEF DealInv, FairTrade
<1> QED
  BY <1>1, <1>2 DEF Deal, TopSearch


(* The bargain of a deal, booked by its giver and by its taker or not.     *)
Booked(u, p, q, given, taken) ==
  [ name |-> agent[u].location, giver |-> agent[p].node, taker |-> agent[q].node,
    item |-> agent[p].give, price |-> agent[p].want, given |-> given, taken |-> taken ]

(* A bargain once struck stays, on its terms.                              *)
LEMMA DealKept ==
  ASSUME DealInv, Life, Turns, NEW u \in Ids, NEW p \in Ids, NEW q \in Ids, Deal(u, p, q)
  PROVE  /\ Deal(u, p, q)'
         /\ DealOf(u, p, q)' = Booked(u, p, q, ~agent'[agent[u].location].valid,
                                               ~agent'[q].valid)
         /\ agent'[u].location = agent[u].location
<1>0. AgentsTypeOK /\ OwnInv /\ ChildrenTyped
  BY DEF DealInv, TypeOK, LifeInv, OwnershipInv
<1>1. /\ Is(u, "UCP", UCP_FINISHED) /\ ~Refused(agent[p].child)
      /\ agent[p].child # Nobody /\ agent[q].child # Nobody
  BY DealParts
<1>2. /\ agent'[u].kind = "UCP" /\ agent'[u].success /\ agent'[u].location = agent[u].location
  BY <1>0, <1>1, UCPStays, OldAgent DEF Deal, Is
<1>3. /\ agent'[p].kind = "MCC" /\ agent'[p].node = agent[p].node
      /\ agent'[p].give = agent[p].give /\ agent'[p].want = agent[p].want
      /\ MCCStep(p)
  BY <1>0, OldAgent DEF Deal
<1>4. agent'[p].child = agent[p].child
  <2>1. agent[p].state # MCC_IDLE
    BY <1>0, <1>1 DEF Deal, ChildrenTyped, Is
  <2> QED
    BY <1>3, <2>1 DEF MCCStep, Deal
<1>5. /\ agent'[q].kind = "MCP" /\ agent'[q].node = agent[q].node /\ MCPTurn(q)
  BY <1>0, OldAgent DEF Deal, Turn
<1>6. agent'[q].child = agent[q].child
  <2>1. Verdict(q) /\ ChildOf(q).success
    BY <1>0 DEF OwnInv, ChildOf, Deal
  <2>2. agent[q].state # MCP_WAIT_ACCEPTANCE
    BY <1>1, <2>1
    DEF Verdict, Deal, MCP_WAIT_ACCEPTANCE, MCP_NEGOCIATING_UCP_RES, MCP_FINISHED
  <2> QED
    BY <1>5, <2>2 DEF MCPTurn, Deal
<1>7. Deal(u, p, q)'
  BY <1>2, <1>3, <1>4, <1>5, <1>6 DEF Deal
<1>8. DealOf(u, p, q)' = Booked(u, p, q, ~agent'[agent[u].location].valid, ~agent'[q].valid)
  BY <1>2, <1>3, <1>5 DEF DealOf, BargainOf, Booked
<1> QED
  BY <1>2, <1>7, <1>8

(* A UCP strikes a bargain when the item it is asked for is the one it     *)
(* offers.                                                                 *)
Strikes(u) ==
  \E m \in msgs : /\ m.dst = u /\ Deliver /\ ReceiveConstraintRequest(m)
                  /\ m.item = agent[u].give

LEMMA SuccessOfStriker ==
  ASSUME TypeOK, FreshIds, ChildrenTyped, SearchInv, Life, Turns, [Next]_vars,
         ~CloseCluster, ~KillCluster,
         NEW u \in Ids, agent'[u].kind = "UCP", agent'[u].success,
         ~(agent[u].kind = "UCP" /\ agent[u].success)
  PROVE  Strikes(u)
<1>0. AgentsTypeOK
  BY DEF TypeOK
<1>1. agent[u].kind = "UCP" /\ ~agent[u].success
  <2>1. agent[u].kind # "none"
    BY NewOne
  <2> QED
    BY <2>1, OldAgent
<1>2. ~Calm
  BY <1>1 DEF Calm, SteadyBut, Steady
<1>3. ASSUME NEW i \in Ids, UpdateAgent(i), BargainUpdate(i) PROVE FALSE
  <2>1. i = u
    BY <1>0, <1>1, <1>3, BargainOthers
  <2>2. UCPStart(u) \/ UCPConclude(u)
    BY <1>1, <1>3, <2>1 DEF BargainUpdate, MCPQuery, UCCStart, Is
  <2>3. CASE UCPStart(u)
    BY <1>0, <1>1, <2>3, OwnState DEF UCPStart
  <2>4. CASE UCPConclude(u)
    <3>1. agent[u].valid
      BY <1>3, <2>1, BargainPlace
    <3>2. agent[agent[u].child].state # UCP_FINISHED
      BY <2>4, <3>1 DEF UCPConclude, SearchInv, Waits, FreshSearch, MCP_INIT, UCP_FINISHED, Is
    <3> QED
      BY <1>0, <2>4, <3>2, OwnState DEF UCPConclude
  <2> QED
    BY <2>2, <2>3, <2>4
<1>4. ASSUME NEW m \in msgs, m.dst \in Ids, Deliver, BargainReceive(m) PROVE Strikes(u)
  <2>1. m.dst = u
    BY <1>0, <1>1, <1>4, BargainOthers
  <2>2. ReceiveConstraintRequest(m)
    BY <1>1, <1>4, <2>1
    DEF BargainReceive, ReceiveMCCsForItem, ReceiveNegotiationRequest, ReceiveNegotiationResult,
        ReceiveItemRequest, ReceiveConstraintAcceptance, Is
  <2>3. CASE m.item = agent[u].give
    BY <1>4, <2>1, <2>2, <2>3 DEF Strikes
  <2>4. CASE m.item # agent[u].give /\ agent[u].depth = MaxSearchDepth
    BY <1>0, <1>1, <2>1, <2>2, <2>4, OwnState DEF ReceiveConstraintRequest, ConstraintTooDeep
  <2>5. CASE m.item # agent[u].give /\ agent[u].depth # MaxSearchDepth
    <3>1. PICK c : CreateChild(u, SearchingDeeper(agent[u]), c)
      BY <2>1, <2>2, <2>5 DEF ReceiveConstraintRequest, ConstraintSearched
    <3>2. u # nextId
      BY <1>1, NextIsFree
    <3>3. agent'[u] = [SearchingDeeper(agent[u]) EXCEPT !.child = nextId]
      BY <3>1, <3>2 DEF CreateChild
    <3>4. agent'[u].success = agent[u].success
      BY <1>0, <3>3, AgentParts DEF SearchingDeeper, Agent
    <3> QED
      BY <1>1, <3>4
  <2> QED
    BY <2>3, <2>4, <2>5
<1> QED
  BY <1>2, <1>3, <1>4, TradeStep

(* What is known of a step, while nobody clears the agents and the process *)
(* goes on.                                                                *)
DealStep ==
  /\ DealInv /\ DealInv'
  /\ Life /\ Turns
  /\ [Next]_vars /\ ~ClearAgents /\ ~CloseCluster /\ ~KillCluster

LEMMA OldDeal ==
  ASSUME DealStep, NEW u \in Ids, NEW p \in Ids, NEW q \in Ids, Deal(u, p, q)',
         ~Strikes(u) \/ (agent[u].kind = "UCP" /\ agent[u].success)
  PROVE  Deal(u, p, q)
<1>1. DealInv /\ DealInv' /\ Life /\ Turns
  BY DEF DealStep
<1>2. agent[u].kind = "UCP" /\ agent[u].success
  BY SuccessOfStriker DEF DealStep, DealInv, BargainInv, LifeInv, Deal
<1>3. PICK r \in Ids, s \in Ids : Deal(u, r, s)
  BY <1>1, <1>2, DealExists
<1>4. Deal(u, r, s)'
  BY <1>1, <1>3, DealKept
<1>5. OneParent' /\ agent'[p].child # Nobody /\ agent'[q].child # Nobody
  <2>1. Deal(u, p, q)' => agent'[p].child # Nobody /\ agent'[q].child # Nobody
    BY <1>1, <1>3, <1>4, DealParts, DealKept, IdsArePositive DEF Deal
  <2> QED
    BY <1>1, <2>1 DEF DealInv, OwnershipInv, FamilyInv
<1>6. p = r /\ q = s
  BY <1>4, <1>5 DEF Deal, OneParent
<1> QED
  BY <1>3, <1>6

(* A side of a bargain is booked when runSystem() exchanges its items.     *)
LEMMA GivenStays ==
  ASSUME DealStep, NEW u \in Ids, NEW p \in Ids, NEW q \in Ids, Deal(u, p, q), ~ExchangeAgent(p)
  PROVE  agent'[agent[u].location].valid = agent[agent[u].location].valid
<1> DEFINE c == agent[u].location
<1>0. /\ DealInv /\ AgentsTypeOK /\ AgentsTypeOK' /\ ChildrenTyped /\ OneParent
      /\ Life /\ Turns
  BY DEF DealStep, DealInv, TypeOK, LifeInv, OwnershipInv, FamilyInv
<1>1. /\ c \in Ids /\ agent[c].kind = "UCC" /\ agent[p].child = c /\ agent[p].child # Nobody
      /\ ~Refused(c)
  BY <1>0, DealParts DEF Deal
<1>2. agent[p].state # MCC_IDLE
  BY <1>0, <1>1 DEF Deal, ChildrenTyped, Is
<1>3. UCCTurn(c) /\ (agent'[c].valid => agent[c].valid)
  BY <1>0, <1>1, OldAgent DEF Turn
<1>4. agent[c].valid => agent'[c].valid
  <2> SUFFICES ASSUME agent[c].valid, ~agent'[c].valid PROVE FALSE
    OBVIOUS
  <2>1. PICK r \in Ids : /\ agent[r].child = c
                         /\ Refused(c) \/ ExchangeAgent(r) \/ PruneAgent(r)
    BY <1>1, <1>3 DEF UCCTurn
  <2>2. r = p
    BY <1>0, <1>1, <2>1 DEF OneParent
  <2> QED
    BY <1>1, <1>2, <2>1, <2>2, PrunePlace DEF Is
<1>5. agent[c].valid \in BOOLEAN /\ agent'[c].valid \in BOOLEAN
  BY <1>0, <1>1, AgentParts DEF AgentsTypeOK, Agent
<1> QED
  BY <1>3, <1>4, <1>5

LEMMA TakenStays ==
  ASSUME DealStep, NEW u \in Ids, NEW p \in Ids, NEW q \in Ids, Deal(u, p, q), ~ExchangeAgent(q)
  PROVE  agent'[q].valid = agent[q].valid
<1>0. /\ DealInv /\ AgentsTypeOK /\ AgentsTypeOK' /\ ChildrenTyped /\ OwnInv
      /\ Life /\ Turns /\ PayerAsked /\ ~ClearAgents
  BY DEF DealStep, DealInv, TypeOK, LifeInv, OwnershipInv
<1>1. TopSearch(q) /\ agent[q].child # Nobody /\ ChildOf(q).success
  BY <1>0, DealParts DEF Deal, ChildOf
<1>2. MCPTurn(q) /\ (agent'[q].valid => agent[q].valid)
  BY <1>0, <1>1, OldAgent DEF Turn, TopSearch
<1>3. SearchStep(q)
  BY <1>0, <1>1 DEF Life, Born, Lives, TopSearch
<1>4. agent[q].valid => agent'[q].valid
  <2> SUFFICES ASSUME agent[q].valid, ~agent'[q].valid PROVE FALSE
    OBVIOUS
  <2>1. MCPFinished(q)
    BY <1>1, <1>2 DEF MCPTurn, TopSearch
  <2>2. agent[q].success
    BY <1>0, <1>1, <2>1
    DEF OwnInv, Verdict, TopSearch, MCPFinished, Is, MCP_FINISHED, MCP_NEGOCIATING_UCP_RES
  <2>3. payer = q
    BY <1>0, <1>1, <1>3 DEF SearchStep, Answered
  <2> QED
    BY <1>0, <2>2, <2>3, IdsArePositive DEF PayerAsked
<1>5. agent[q].valid \in BOOLEAN /\ agent'[q].valid \in BOOLEAN
  BY <1>0, AgentParts DEF AgentsTypeOK, Agent
<1> QED
  BY <1>2, <1>4, <1>5

(* Where nobody strikes a bargain or books it, all stay as they are.       *)
LEMMA DealOfSame ==
  ASSUME DealStep, NEW u \in Ids, NEW p \in Ids, NEW q \in Ids, Deal(u, p, q),
         ~ExchangeAgent(p), ~ExchangeAgent(q)
  PROVE  Deal(u, p, q)' /\ DealOf(u, p, q)' = DealOf(u, p, q)
<1>1. Deal(u, p, q)' /\ DealOf(u, p, q)' = Booked(u, p, q, ~agent'[agent[u].location].valid,
                                                          ~agent'[q].valid)
  BY DealKept DEF DealStep
<1>2. /\ agent'[agent[u].location].valid = agent[agent[u].location].valid
      /\ agent'[q].valid = agent[q].valid
  BY GivenStays, TakenStays
<1> QED
  BY <1>1, <1>2 DEF DealOf, BargainOf, Booked

LEMMA StruckSame ==
  ASSUME DealStep, \A u \in Ids : ~Strikes(u),
         \A u, p, q \in Ids : Deal(u, p, q) => ~ExchangeAgent(p) /\ ~ExchangeAgent(q)
  PROVE  Struck' = Struck
<1>1. ASSUME NEW b \in Struck PROVE b \in Struck'
  <2>1. PICK u \in Ids, p \in Ids, q \in Ids : Deal(u, p, q) /\ b = DealOf(u, p, q)
    BY <1>1, StruckIs
  <2>2. Deal(u, p, q)' /\ DealOf(u, p, q)' = DealOf(u, p, q)
    BY <2>1, DealOfSame
  <2>3. \E v, r, s \in Ids : Deal(v, r, s)' /\ b = DealOf(v, r, s)'
    BY <2>1, <2>2
  <2> QED
    BY <2>3, StruckNow
<1>2. ASSUME NEW b \in Struck' PROVE b \in Struck
  <2>1. PICK u \in Ids, p \in Ids, q \in Ids : Deal(u, p, q)' /\ b = DealOf(u, p, q)'
    BY <1>2, StruckNow
  <2>2. Deal(u, p, q)
    BY <2>1, OldDeal
  <2>3. b = DealOf(u, p, q)
    BY <2>1, <2>2, DealOfSame
  <2> QED
    BY <2>2, <2>3, StruckIs
<1> QED
  BY <1>1, <1>2

-----------------------------------------------------------------------------
(* The exchanges of runSystem() book the two sides of a bargain.           *)

LEMMA OneExchanges ==
  ASSUME NEW i \in Ids, NEW j \in Ids, ExchangeAgent(i), ExchangeAgent(j)
  PROVE  i = j
<1>1. i <= j /\ j <= i
  BY ExchangePlace DEF ExchangeAgent, Visit
<1>2. i \in Nat /\ j \in Nat
  BY IdsArePositive
<1> QED
  BY <1>1, <1>2

LEMMA ExchangeStrikesNot ==
  ASSUME NEW i \in Ids, ExchangeAgent(i)
  PROVE  \A u \in Ids : ~Strikes(u)
  BY ExchangePlace DEF Strikes, Deliver

LEMMA StruckBooked ==
  ASSUME DealStep, NEW u \in Ids, NEW p \in Ids, NEW q \in Ids, Deal(u, p, q),
         NEW i \in {p, q}, ExchangeAgent(i)
  PROVE  Struck' = (Struck \ {DealOf(u, p, q)}) \cup {DealOf(u, p, q)'}
<1>0. DealInv /\ Life /\ Turns /\ i \in Ids /\ agent[p].kind = "MCC" /\ agent[q].kind = "MCP"
  BY DEF DealStep, Deal
<1>1. ASSUME NEW v \in Ids, NEW r \in Ids, NEW s \in Ids, Deal(v, r, s),
             DealOf(v, r, s) # DealOf(u, p, q)
      PROVE  Deal(v, r, s)' /\ DealOf(v, r, s)' = DealOf(v, r, s)
  <2>1. r # i /\ s # i
    BY <1>0, <1>1, OneDeal DEF Deal
  <2> QED
    BY <1>0, <1>1, <2>1, OneExchanges, DealOfSame
<1>2. Deal(u, p, q)'
  BY <1>0, DealKept
<1>3. ASSUME NEW b \in Struck' PROVE b \in (Struck \ {DealOf(u, p, q)}) \cup {DealOf(u, p, q)'}
  <2>1. PICK v \in Ids, r \in Ids, s \in Ids : Deal(v, r, s)' /\ b = DealOf(v, r, s)'
    BY <1>3, StruckNow
  <2>2. Deal(v, r, s)
    BY <1>0, <2>1, OldDeal, ExchangeStrikesNot
  <2>3. CASE DealOf(v, r, s) = DealOf(u, p, q)
    <3>1. agent[v].location = agent[u].location
      BY <2>3 DEF DealOf, BargainOf
    <3>2. v = u /\ r = p /\ s = q
      BY <1>0, <2>2, <3>1, OneDeal
    <3> QED
      BY <2>1, <3>2
  <2>4. CASE DealOf(v, r, s) # DealOf(u, p, q)
    <3>1. b = DealOf(v, r, s)
      BY <1>1, <2>1, <2>2, <2>4
    <3>2. b \in Struck
      BY <2>2, <3>1, StruckIs
    <3> QED
      BY <2>4, <3>1, <3>2
  <2> QED
    BY <2>3, <2>4
<1>4. ASSUME NEW b \in Struck, b # DealOf(u, p, q) PROVE b \in Struck'
  <2>1. PICK v \in Ids, r \in Ids, s \in Ids : Deal(v, r, s) /\ b = DealOf(v, r, s)
    BY <1>4, StruckIs
  <2>2. Deal(v, r, s)' /\ b = DealOf(v, r, s)'
    BY <1>1, <1>4, <2>1
  <2> QED
    BY <2>2, StruckNow
<1>5. DealOf(u, p, q)' \in Struck'
  <2>1. \E v, r, s \in Ids : Deal(v, r, s)' /\ DealOf(u, p, q)' = DealOf(v, r, s)'
    BY <1>2
  <2> QED
    BY <2>1, StruckNow
<1> QED
  BY <1>3, <1>4, <1>5

(* An exchange is a swap.                                                  *)
LEMMA ExchangeIsSwap ==
  ASSUME ItemListsTypeOK, NEW n \in Nodes, NEW x \in Items, NEW y \in Items,
         CanRemove(n, x), Exchange(n, x, y)
  PROVE  Trade!Swap(n, x, y)
<1>1. items \in [Nodes -> [Items -> Nat]] /\ items[n] \in [Items -> Nat]
  BY DEF ItemListsTypeOK
<1>2. items[n][x] > 0
  BY DEF CanRemove
<1> DEFINE new == [z \in Items |-> items[n][z] - (IF z = x THEN 1 ELSE 0)
                                               + (IF z = y THEN 1 ELSE 0)]
<1>3. items' = [items EXCEPT ![n] = new]
  BY <1>1 DEF Exchange
<1>4. new = [[items[n] EXCEPT ![x] = @ - 1] EXCEPT ![y] = @ + 1]
  <2> DEFINE f == [items[n] EXCEPT ![x] = @ - 1]
  <2>1. f = [z \in Items |-> IF z = x THEN items[n][x] - 1 ELSE items[n][z]]
    BY <1>1
  <2> HIDE DEF f
  <2>2. [f EXCEPT ![y] = @ + 1] = [z \in Items |-> IF z = y THEN f[y] + 1 ELSE f[z]]
    BY <2>1
  <2>3. \A z \in Items : items[n][z] \in Nat
    BY <1>1
  <2>4. ASSUME NEW z \in Items
        PROVE  items[n][z] - (IF z = x THEN 1 ELSE 0) + (IF z = y THEN 1 ELSE 0)
                 = IF z = y THEN f[y] + 1 ELSE f[z]
    BY <2>1, <2>3
  <2>5. new = [z \in Items |-> IF z = y THEN f[y] + 1 ELSE f[z]]
    BY <2>4
  <2> QED
    BY <2>2, <2>5 DEF f
<1> HIDE DEF new
<1> QED
  BY <1>2, <1>3, <1>4 DEF Trade!Swap

(* The MCC of a bargain gives.                                             *)
LEMMA MCCGives ==
  ASSUME DealStep, YellowPagesStay,
         NEW i \in Ids, ExchangeAgent(i), agent[i].kind = "MCC", phase' # "aborted"
  PROVE  \E b \in Struck : Trade!Give(b)
<1>0. /\ DealInv /\ AgentsTypeOK /\ ItemListsTypeOK /\ ChildrenTyped /\ OwnInv /\ Life /\ Turns
  BY DEF DealStep, DealInv, TypeOK, LifeInv, OwnershipInv
<1>1. /\ Is(i, "MCC", MCC_FINISHED) /\ CanRemove(agent[i].node, agent[i].give)
      /\ Exchange(agent[i].node, agent[i].give, agent[i].want) /\ agent' = AfterStop({i})
  BY DEF ExchangeAgent, MCCExchange, MCPExchange, AskPayment, MCPFinished, Abort, Is
<1>2. phase = "exchange" /\ i \in todo /\ agent[i].valid
  BY ExchangePlace
<1>3. agent[i].child # Nobody /\ ChildOf(i).success
  BY <1>0, <1>1, <1>2 DEF DealInv, JustifiedInv, Unjustified
<1>4. agent[i].child \in Ids /\ ChildOf(i).kind = "UCC"
  BY <1>0, <1>1, <1>3, ChildIs DEF Is
<1>5. PICK u \in Ids : /\ agent[u].kind = "UCP" /\ agent[u].success
                       /\ agent[u].location = agent[i].child
  BY <1>0, <1>3, <1>4 DEF DealInv, BargainInv, Agreement, ChildOf
<1>6. PICK q \in Ids : Deal(u, i, q)
  <2>1. PICK q \in Ids : TopSearch(q) /\ agent[q].child = u
    BY <1>0, <1>5 DEF OwnInv, Wanted
  <2> QED
    BY <1>1, <1>5, <2>1 DEF Deal, TopSearch, Is
<1> DEFINE c == agent[u].location
           b == DealOf(u, i, q)
<1>7. agent[c].valid /\ ~agent'[c].valid
  <2>1. Held(i)
    BY <1>0 DEF OwnInv
  <2>2. ChildOf(i).valid
    BY <1>1, <1>2, <1>3, <2>1 DEF Held, ToBook, Is
  <2>3. ~AfterStop({i})[agent[i].child].valid
    BY <1>0, <1>1, <1>3, StoppedChild DEF Is
  <2> QED
    BY <1>1, <1>5, <2>2, <2>3 DEF ChildOf
<1>8. agent'[q].valid = agent[q].valid
  <2>1. q # i
    BY <1>1, <1>6 DEF Deal, Is
  <2> QED
    BY <1>6, <2>1, OneExchanges, TakenStays
<1>9. b' = [b EXCEPT !.given = TRUE]
  <2>1. b' = Booked(u, i, q, ~agent'[c].valid, ~agent'[q].valid)
    BY <1>0, <1>6, DealKept
  <2>2. b = Booked(u, i, q, ~agent[c].valid, ~agent[q].valid)
    BY DEF DealOf, BargainOf, Booked
  <2>3. (~agent'[c].valid) = TRUE /\ (~agent'[q].valid) = (~agent[q].valid)
    BY <1>7, <1>8
  <2>4. PICK g, t, x : g = (~agent[c].valid) /\ t = (~agent[q].valid) /\ x = TRUE
    OBVIOUS
  <2>5. b' = Booked(u, i, q, x, t)
    BY <2>1, <2>3, <2>4, Zenon
  <2>6. b = Booked(u, i, q, g, t)
    BY <2>2, <2>4, Zenon
  <2> HIDE DEF b
  <2>7. [b EXCEPT !.given = TRUE] = [Booked(u, i, q, g, t) EXCEPT !.given = x]
    BY <2>4, <2>6, Zenon
  <2>8. [Booked(u, i, q, g, t) EXCEPT !.given = x] = Booked(u, i, q, x, t)
    BY DEF Booked
  <2> QED
    BY <2>5, <2>7, <2>8, Zenon
<1>10. Struck' = (Struck \ {b}) \cup {[b EXCEPT !.given = TRUE]}
  <2>1. Struck' = (Struck \ {b}) \cup {b'}
    BY <1>6, StruckBooked
  <2> QED
    BY <1>9, <2>1
<1>11. b \in Struck
  BY <1>6, StruckIs
<1>12. /\ b.giver = agent[i].node /\ b.item = agent[i].give /\ b.price = agent[i].want
       /\ ~b.given
  BY <1>7 DEF DealOf, BargainOf
<1>13. Trade!Swap(b.giver, b.item, b.price)
  <2>1. agent[i].node \in Nodes /\ agent[i].give \in Items /\ agent[i].want \in Items
    BY <1>0, <1>6, DealParts, AgentParts
  <2> QED
    BY <1>0, <1>1, <1>12, <2>1, ExchangeIsSwap
<1>14. Trade!Give(b)
  BY <1>10, <1>12, <1>13 DEF Trade!Give
<1> QED
  BY <1>11, <1>14

(* The MCP of a bargain takes.                                             *)
LEMMA MCPTakes ==
  ASSUME DealStep, NEW i \in Ids, ExchangeAgent(i), agent[i].kind = "MCP", agent[i].success,
         phase' # "aborted"
  PROVE  \E b \in Struck : Trade!Take(b)
<1>0. /\ DealInv /\ AgentsTypeOK /\ ItemListsTypeOK /\ ChildrenTyped /\ OwnInv /\ Life /\ Turns
  BY DEF DealStep, DealInv, TypeOK, LifeInv, OwnershipInv
<1>1. /\ MCPFinished(i) /\ CanRemove(agent[i].node, agent[i].give)
      /\ Exchange(agent[i].node, agent[i].give, agent[i].want) /\ agent' = AfterStop({i})
  BY DEF ExchangeAgent, MCCExchange, MCPExchange, AskPayment, MCPFinished, Abort, Is
<1>2. agent[i].valid
  BY ExchangePlace
<1>15. PICK u : u = agent[i].child
  OBVIOUS
<1>3. agent[i].child # Nobody /\ ChildOf(i).success
  BY <1>0 DEF OwnInv, Verdict
<1>4. u \in Ids /\ agent[u].kind = "UCP" /\ agent[u].success
  BY <1>0, <1>15, <1>3, ChildIs DEF ChildOf
<1>5. PICK p \in Ids : Deal(u, p, i)
  <2>2. PICK p \in Ids : agent[p].kind = "MCC" /\ agent[p].child = agent[u].location
    BY <1>0, <1>4 DEF DealInv, FairTrade
  <2> QED
    BY <1>4, <1>15, <2>2 DEF Deal
<1> DEFINE c == agent[u].location
           b == DealOf(u, p, i)
<1>6. ~agent'[i].valid
  BY <1>0, <1>1, StoppedTop
<1>7. agent'[c].valid = agent[c].valid
  <2>1. p # i
    BY <1>5 DEF Deal
  <2> QED
    BY <1>4, <1>5, <2>1, OneExchanges, GivenStays
<1>8. b' = [b EXCEPT !.taken = TRUE]
  <2>1. b' = Booked(u, p, i, ~agent'[c].valid, ~agent'[i].valid)
    BY <1>0, <1>4, <1>5, DealKept
  <2>2. b = Booked(u, p, i, ~agent[c].valid, ~agent[i].valid)
    BY DEF DealOf, BargainOf, Booked
  <2>3. (~agent'[i].valid) = TRUE /\ (~agent'[c].valid) = (~agent[c].valid)
    BY <1>6, <1>7
  <2>4. PICK g, t, x : g = (~agent[c].valid) /\ t = (~agent[i].valid) /\ x = TRUE
    OBVIOUS
  <2>5. b' = Booked(u, p, i, g, x)
    BY <2>1, <2>3, <2>4, Zenon
  <2>6. b = Booked(u, p, i, g, t)
    BY <2>2, <2>4, Zenon
  <2> HIDE DEF b
  <2>7. [b EXCEPT !.taken = TRUE] = [Booked(u, p, i, g, t) EXCEPT !.taken = x]
    BY <2>4, <2>6, Zenon
  <2>8. [Booked(u, p, i, g, t) EXCEPT !.taken = x] = Booked(u, p, i, g, x)
    BY DEF Booked
  <2> QED
    BY <2>5, <2>7, <2>8, Zenon
<1>9. Struck' = (Struck \ {b}) \cup {[b EXCEPT !.taken = TRUE]}
  <2>1. Struck' = (Struck \ {b}) \cup {b'}
    BY <1>4, <1>5, StruckBooked
  <2> QED
    BY <1>8, <2>1
<1>10. b \in Struck
  BY <1>4, <1>5, StruckIs
<1>11. /\ agent[p].give = agent[i].want /\ agent[p].want = agent[i].give
       /\ agent[i].node \in Nodes
  BY <1>0, <1>4, <1>5, DealParts
<1>12. /\ b.taker = agent[i].node /\ b.price = agent[i].give /\ b.item = agent[i].want
       /\ ~b.taken
  BY <1>2, <1>11 DEF DealOf, BargainOf
<1>13. Trade!Swap(b.taker, b.price, b.item)
  <2>1. agent[i].give \in Items /\ agent[i].want \in Items
    BY <1>0, AgentParts
  <2> QED
    BY <1>0, <1>1, <1>11, <1>12, <2>1, ExchangeIsSwap
<1>14. Trade!Take(b)
  BY <1>9, <1>12, <1>13 DEF Trade!Take
<1> QED
  BY <1>10, <1>14

-----------------------------------------------------------------------------
(* The other steps.                                                        *)

(* A UCP strikes a new bargain, which neither side has booked.             *)
LEMMA UCPStrikes ==
  ASSUME DealStep, NEW u \in Ids, Strikes(u)
  PROVE  Trade!Strike
<1>0. /\ DealInv /\ AgentsTypeOK /\ OwnInv /\ FamilyInv /\ TimelyTokens /\ OneUCP
      /\ SuccessIsFinal /\ FaithfulPackets /\ TypeOK
  BY DEF DealStep, DealInv, TypeOK, BargainInv, TalkInv, OwnershipInv
<1>1. PICK m \in msgs : /\ m.dst = u /\ ReceiveConstraintRequest(m) /\ phase = "net"
                        /\ m.item = agent[u].give
  BY DEF Strikes, Deliver
<1>2. PICK c \in Ids : c = agent[u].location /\ agent[u].kind = "UCP"
                       /\ agent[u].state = UCP_REQUEST_ITEM
                       /\ agent[c].kind = "UCC" /\ agent[c].state = UCC_WAITING_CONSTRAINT
  <2>1. Faithful(m) /\ Timely(m) /\ m.type = "ConstraintRequest"
    BY <1>0, <1>1 DEF FaithfulPackets, TimelyTokens, ReceiveConstraintRequest
  <2>2. m \in Packet
    BY <1>0 DEF AgentsTypeOK
  <2>3. m.src \in Ids
    BY <2>1, <2>2, PacketParts
  <2> QED
    BY <1>1, <2>1, <2>3 DEF Faithful, Timely
<1>3. /\ agent' = [agent EXCEPT ![u] = [@ EXCEPT !.success = TRUE, !.state = UCP_FINISHED]]
      /\ items' = items
  BY <1>1 DEF ReceiveConstraintRequest, ConstraintMet, nodeVars
<1>4. \A j \in Ids \ {u} : agent'[j] = agent[j]
  BY <1>0, <1>3 DEF AgentsTypeOK
<1>5. agent'[u].kind = "UCP" /\ agent'[u].success /\ agent'[u].location = c
  <2>1. agent'[u].success
    BY <1>0, <1>3, OneConcludes
  <2> QED
    BY <1>2, <2>1, OldAgent DEF DealStep, DealInv, LifeInv
<1>6. PICK p \in Ids : agent'[p].kind = "MCC" /\ agent'[p].child = c
  BY <1>5 DEF DealStep, DealInv, FairTrade
<1>7. PICK q \in Ids : agent'[q].kind = "MCP" /\ agent'[q].depth = 0 /\ agent'[q].child = u
  BY <1>5 DEF DealStep, DealInv, OwnershipInv, OwnInv, Wanted, TopSearch
<1>8. agent'[p] = agent[p] /\ agent'[q] = agent[q] /\ agent'[c] = agent[c]
  BY <1>2, <1>4, <1>5, <1>6, <1>7
<1>9. Deal(u, p, q)'
  BY <1>5, <1>6, <1>7 DEF Deal
<1>10. agent[c].valid
  BY <1>0, <1>2 DEF OwnInv, DeadDone, UCC_WAITING_CONSTRAINT, UCC_FINISHED
<1>11. agent[q].valid
  <2>1. agent[u].valid
    BY <1>0, <1>2 DEF OwnInv, DeadDone, UCP_REQUEST_ITEM, UCP_FINISHED
  <2>2. PICK r \in Ids : agent[r].valid /\ agent[r].child = u
    BY <1>0, <1>2, <2>1 DEF OwnInv, Owned, OwnsUCP
  <2> QED
    BY <1>0, <1>7, <1>8, <2>2, IdsArePositive DEF FamilyInv, OneParent
<1> DEFINE b == [ name |-> c, giver |-> agent[p].node, taker |-> agent[q].node,
                  item |-> agent[p].give, price |-> agent[p].want,
                  given |-> ~agent[c].valid, taken |-> ~agent[q].valid ]
<1>12. DealOf(u, p, q)' = b
  BY <1>5, <1>8 DEF DealOf, BargainOf
<1>13. b \in Trade!Bargain /\ ~b.given /\ ~b.taken
  <2>1. agent[p].node \in Nodes /\ agent[q].node \in Nodes
    BY <1>0, <1>6, <1>7, <1>8
    DEF DealInv, ReservationInv, MarkedWhileNegotiating, FamilyInv, AtHome, TopSearch
  <2>2. agent[p].give \in Items /\ agent[p].want \in Items
    BY <1>0, AgentParts
  <2> QED
    BY <1>10, <1>11, <2>1, <2>2 DEF Trade!Bargain
<1>14. \A d \in Struck : d.name # b.name
  <2> SUFFICES ASSUME NEW v \in Ids, NEW r \in Ids, NEW s \in Ids, Deal(v, r, s),
                      agent[v].location = c
               PROVE  FALSE
    BY StruckIs DEF DealOf, BargainOf
  <2>1. v = u
    BY <1>0, <1>2 DEF OneUCP, TalksTo, Deal
  <2> QED
    BY <1>0, <1>2, <2>1 DEF Deal, SuccessIsFinal, UCP_REQUEST_ITEM, UCP_FINISHED
<1> HIDE DEF b
<1>15. \A i \in Ids : ~ExchangeAgent(i)
  BY <1>1, ExchangePlace
<1>16. Struck' = Struck \cup {b}
  <2>1. ASSUME NEW d \in Struck PROVE d \in Struck'
    <3>1. PICK v \in Ids, r \in Ids, s \in Ids : Deal(v, r, s) /\ d = DealOf(v, r, s)
      BY <2>1, StruckIs
    <3>2. Deal(v, r, s)' /\ DealOf(v, r, s)' = DealOf(v, r, s)
      BY <1>15, <3>1, DealOfSame
    <3>3. \E x, y, z \in Ids : Deal(x, y, z)' /\ d = DealOf(x, y, z)'
      BY <3>1, <3>2
    <3> QED
      BY <3>3, StruckNow
  <2>2. b \in Struck'
    <3>1. \E x, y, z \in Ids : Deal(x, y, z)' /\ b = DealOf(x, y, z)'
      BY <1>9, <1>12
    <3> QED
      BY <3>1, StruckNow
  <2>3. ASSUME NEW d \in Struck' PROVE d \in Struck \cup {b}
    <3>1. PICK v \in Ids, r \in Ids, s \in Ids : Deal(v, r, s)' /\ d = DealOf(v, r, s)'
      BY <2>3, StruckNow
    <3>2. CASE v = u
      <4>1. OneParent' /\ c # Nobody /\ u # Nobody
        BY IdsArePositive DEF DealStep, DealInv, OwnershipInv, FamilyInv
      <4>2. r = p /\ s = q
        BY <1>5, <1>6, <1>7, <3>1, <3>2, <4>1 DEF Deal, OneParent
      <4> QED
        BY <1>12, <3>1, <3>2, <4>2
    <3>3. CASE v # u
      <4>1. agent[v].kind = "UCP" /\ agent[v].success
        BY <1>4, <3>1, <3>3 DEF Deal
      <4>2. Deal(v, r, s)
        BY <3>1, <4>1, OldDeal
      <4>3. d = DealOf(v, r, s)
        BY <1>15, <3>1, <4>2, DealOfSame
      <4> QED
        BY <4>2, <4>3, StruckIs
    <3> QED
      BY <3>2, <3>3
  <2> QED
    BY <2>1, <2>2, <2>3
<1> QED
  BY <1>3, <1>13, <1>14, <1>16 DEF Trade!Strike

(* Beside the exchanges only the user moves items.                         *)
LEMMA ItemsStep ==
  ASSUME [Next]_vars, phase # "down"
  PROVE  \/ items' = items
         \/ \E i \in Ids : ExchangeAgent(i)
         \/ \E n \in Nodes, x \in Items : Sell(n, x)
         \/ \E yes \in BOOLEAN : Pay(yes)
<1>1. ASSUME NEW i \in Ids, UpdateAgent(i) \/ PruneAgent(i) PROVE items' = items
  BY <1>1
  DEF UpdateAgent, PruneAgent, nodeVars, ContributorUpdate, PetitionerUpdate, MCCRegister,
      MCCConclude, MCCDestroy, UCCStart, MCPQuery, MCPIterate, MCPConclude, UCPStart, UCPConclude
<1>2. CASE \/ UpdateEnds \/ ExchangeEnds \/ PruneEnds \/ NoClick \/ FrameEnds
           \/ YellowPages \/ YellowPagesStarts \/ Faults \/ UNCHANGED vars
  BY <1>2
  DEF UpdateEnds, ExchangeEnds, PruneEnds, LoopEnds, NoClick, FrameEnds, YellowPages,
      YellowPagesStarts, Faults, YellowPagesEnds, CloseCluster, KillCluster, ClusterGone, vars,
      nodeVars
<1>3. CASE Deliver
  BY <1>3
  DEF Deliver, Discard, nodeVars, ContributorReceive, ReceiveRegisterAck,
      ReceiveNegotiationRequest, ReceiveItemRequest, ReceiveConstraintAcceptance,
      NegotiationRequestBusy, NegotiationRequestUsed, NegotiationRequestAccepted,
      PetitionerReceive, ReceiveMCCsForItem, ReceiveNegotiationResult, ReceiveConstraintRequest
<1>4. CASE CreateMCCs \/ ClearAgents \/ PayFreed
           \/ \E n \in Nodes, want, give \in Items : SpawnMCP(n, want, give)
  BY <1>4 DEF CreateMCCs, ClearAgents, PayFreed, SpawnMCP, nodeVars
<1>5. ~StartCluster
  BY DEF StartCluster
<1> QED
  BY <1>1, <1>2, <1>3, <1>4, <1>5 DEF Next, Loops, User

(* A sale, and a purchase.                                                 *)
LEMMA UserShops ==
  ASSUME ItemListsTypeOK, NEW n \in Nodes, NEW x \in Items, Struck' = Struck,
         (RemoveItem(n, x) /\ items[n][x] > 0) \/ AddItem(n, x)
  PROVE  Trade!Shop(n, x)
<1>1. items \in [Nodes -> [Items -> Nat]] /\ items[n] \in [Items -> Nat] /\ items[n][x] \in Nat
  BY DEF ItemListsTypeOK
<1>2. PICK k \in Nat : /\ k \in {items[n][x] - 1, items[n][x] + 1}
                       /\ items' = [items EXCEPT ![n][x] = k]
  BY <1>1 DEF RemoveItem, AddItem
<1>3. items'[n][x] = k
  BY <1>1, <1>2
<1> QED
  BY <1>2, <1>3 DEF Trade!Shop

(* What a step is to trade.                                                *)
Books  == \E b \in Struck : Trade!Give(b) \/ Trade!Take(b)
Shops  == \E n \in Nodes, x \in Items : Trade!Shop(n, x)
ShopClicks == (\E n \in Nodes, x \in Items : Sell(n, x)) \/ \E yes \in BOOLEAN : Pay(yes)

LEMMA TradeStepIs ==
  ASSUME DealStep, YellowPagesStay
  PROVE  Trade!Strike \/ Books \/ (ShopClicks /\ Shops) \/ UNCHANGED << items, Struck >>
<1>0. /\ DealInv /\ ItemListsTypeOK /\ AgentsTypeOK /\ PayerAsked /\ phase # "down"
      /\ FamilyInv
  BY DEF DealStep, DealInv, TypeOK, LifeInv, SearchInv, OwnershipInv
<1>1. CASE \E u \in Ids : Strikes(u)
  BY <1>1, UCPStrikes
<1>2. ASSUME NEW i \in Ids, ExchangeAgent(i) PROVE  Books \/ UNCHANGED << items, Struck >>
  <2>1. CASE phase' # "aborted" /\ agent[i].kind = "MCC"
    BY <1>2, <2>1, MCCGives DEF Books
  <2>2. CASE phase' # "aborted" /\ agent[i].kind = "MCP" /\ agent[i].success
    BY <1>2, <2>2, MCPTakes DEF Books
  <2>3. CASE phase' = "aborted" \/ (agent[i].kind = "MCP" /\ ~agent[i].success)
    <3>1. agent' = agent /\ items' = items
      BY <1>2, <2>3
      DEF ExchangeAgent, Visit, MCCExchange, MCPExchange, AskPayment, Abort, Is, agentVars,
          nodeVars
    <3>2. Struck' = Struck
      BY <3>1 DEF Struck, BargainOf, ContributorOf, PetitionerOf
    <3> QED
      BY <3>1, <3>2
  <2>4. agent[i].kind \in {"MCC", "MCP"}
    BY <1>2, ExchangePlace DEF Is, MCPFinished
  <2> QED
    BY <2>1, <2>2, <2>3, <2>4
<1>3. CASE (\A u \in Ids : ~Strikes(u)) /\ \A i \in Ids : ~ExchangeAgent(i)
  <2>1. Struck' = Struck
    BY <1>3, StruckSame
  <2>2. CASE items' = items
    BY <2>1, <2>2
  <2>3. ASSUME NEW n \in Nodes, NEW x \in Items, Sell(n, x)
        PROVE  Shops
    BY <1>0, <2>1, <2>3, UserShops DEF Sell, Shops
  <2>4. ASSUME NEW yes \in BOOLEAN, Pay(yes)
        PROVE  items' = items \/ Shops
    <3>1. payer \in Ids /\ agent[payer].node \in Nodes /\ agent[payer].want \in Items
      BY <1>0, <2>4, AgentParts
      DEF Pay, DealInv, TypeOK, PayerAsked, MCPFinished, Is, FamilyInv, AtHome, TopSearch
    <3>2. items' = items \/ AddItem(agent[payer].node, agent[payer].want)
      BY <2>4 DEF Pay
    <3> QED
      BY <1>0, <2>1, <3>1, <3>2, UserShops DEF Shops
  <2>5. [Next]_vars
    BY DEF DealStep
  <2> QED
    BY <1>0, <1>3, <2>1, <2>2, <2>3, <2>4, <2>5, ItemsStep DEF ShopClicks
<1> QED
  BY <1>1, <1>2, <1>3

LEMMA BarterStep ==
  ASSUME DealStep, YellowPagesStay
  PROVE  [Trade!Next]_<< items, Struck >>
  BY TradeStepIs DEF Trade!Next, Books, Shops

LEMMA BarterInit == Init => Trade!Init
<1> SUFFICES ASSUME Init PROVE Trade!Init
  OBVIOUS
<1>1. items \in [Nodes -> [Items -> Nat]]
  BY TypeInit DEF TypeOK, ItemListsTypeOK
<1>2. \A i \in Ids : agent[i].kind = "none"
  BY NoAgentType DEF Init, AgentsInit, NoAgent, NewAgent
<1>3. ASSUME NEW b \in Struck PROVE FALSE
  BY <1>2, <1>3, StruckIs DEF Deal
<1> QED
  BY <1>1, <1>3 DEF Trade!Init

LEMMA DealInvariant ==
  ASSUME NoClear, ClusterStays, GarbageIsNowhere
  PROVE  Spec => [](DealInv /\ PayerAlive)
<1>1. /\ Spec => []TypeOK
      /\ Spec => []BargainInv
      /\ Spec => []LifeInv
      /\ Spec => []JustifiedInv
      /\ Spec => []PayerAlive
      /\ Spec => []SearchInv
      /\ Spec => []ReservationInv
      /\ Spec => [](TalkInv /\ SuccessIsFinal)
      /\ Spec => []FairTrade
      /\ Spec => []OwnershipInv
  BY TypeCorrect, BargainsAreTrue, LifeInvariant, JustifiedInvariant, PayerLives,
     SearchInvariant, NegotiationsAreReserved, TalkInvariant, TradesAreFair,
     OwnershipInvariant
<1> QED
  BY <1>1, PTL DEF DealInv

(* The node cluster implements Barter: while nobody clears the agents and  *)
(* no process ends, every step of the program strikes one bargain with     *)
(* both sides open, books one side of one struck bargain on its terms,     *)
(* sells or buys one copy, or moves nothing that trade is about.           *)
THEOREM ClusterImplementsBarter ==
  ASSUME NoClear, ClusterStays, YellowPagesStay, GarbageIsNowhere
  PROVE  Spec => ImplementsBarter
<1>1. Init => Trade!Init
  BY BarterInit
<1>2. ASSUME DealInv, DealInv', PayerAlive, [Next]_vars
      PROVE  [Trade!Next]_<< items, Struck >>
  <2>1. TypeOK /\ BargainInv /\ LifeInv /\ JustifiedInv /\ SearchInv /\ TimelyTokens
        /\ OwnershipInv
    BY <1>2 DEF DealInv, TalkInv
  <2>2. Life /\ Turns
    BY <1>2, <2>1, OwnershipStep
  <2>3. ~ClearAgents /\ ~CloseCluster /\ ~KillCluster
    BY <2>1, Bounds
  <2>4. DealStep
    BY <1>2, <2>2, <2>3 DEF DealStep
  <2> QED
    BY <2>4, BarterStep
<1>3. Spec => [](DealInv /\ PayerAlive)
  BY DealInvariant
<1> QED
  BY <1>1, <1>2, <1>3, PTL DEF Spec, ImplementsBarter, Trade!Spec

-----------------------------------------------------------------------------
(* What FoldFunction(+, 0, f) computes: the units f counts.                *)

Picked(s) == CHOOSE x \in s : TRUE

(* The copies a function counts, one by one.                               *)
Units(f, s) == {u \in s \X Nat : u[2] \in 1..f[u[1]]}

LEMMA SumIs ==
  ASSUME NEW f
  PROVE FoldFunction(+, 0, f) =
    (CHOOSE g : g = [s \in SUBSET DOMAIN f |->
        IF s = {} THEN 0 ELSE f[Picked(s)] + g[s \ {Picked(s)}]])[DOMAIN f]
BY DEF FoldFunction, FoldFunctionOnSet, MapThenFoldSet, Picked

LEMMA UnitsOfOne ==
  ASSUME NEW x, NEW k \in Nat
  PROVE  IsFiniteSet({x} \X (1..k)) /\ Cardinality({x} \X (1..k)) = k
<1>1. IsFiniteSet({x}) /\ Cardinality({x}) = 1
  BY FS_Singleton
<1>2. IsFiniteSet(1..k) /\ Cardinality(1..k) = k
  BY FS_Interval
<1>3. /\ IsFiniteSet({x} \X (1..k))
      /\ Cardinality({x} \X (1..k)) = Cardinality({x}) * Cardinality(1..k)
  BY <1>1, <1>2, FS_Product
<1>4. 1 * k = k
  OBVIOUS
<1> QED
  BY <1>1, <1>2, <1>3, <1>4

LEMMA UnitsSplit ==
  ASSUME NEW s, NEW f, \A x \in s : f[x] \in Nat, NEW x \in s,
         IsFiniteSet(Units(f, s \ {x}))
  PROVE  /\ IsFiniteSet(Units(f, s))
         /\ Cardinality(Units(f, s)) = f[x] + Cardinality(Units(f, s \ {x}))
<1> DEFINE one == {x} \X (1..f[x])
           rest == Units(f, s \ {x})
<1>1. Units(f, s) = rest \cup one
  BY DEF Units
<1>2. rest \cap one = {}
  BY DEF Units
<1>3. IsFiniteSet(one) /\ Cardinality(one) = f[x] /\ f[x] \in Nat
  BY UnitsOfOne
<1>4. IsFiniteSet(rest) /\ Cardinality(rest) \in Nat
  BY FS_CardinalityType
<1> HIDE DEF one, rest
<1>5. /\ IsFiniteSet(rest \cup one)
      /\ Cardinality(rest \cup one) = Cardinality(rest) + Cardinality(one) - Cardinality({})
  BY <1>2, <1>3, <1>4, FS_Union
<1> QED
  BY <1>1, <1>3, <1>4, <1>5, FS_EmptySet DEF rest

LEMMA LeastCounterexample ==
  ASSUME NEW S, IsFiniteSet(S), NEW Bad, Bad \subseteq SUBSET S, Bad # {}
  PROVE  \E s \in Bad : \A x \in s : s \ {x} \notin Bad
<1>1. IsWellFoundedOn(StrictSubsetOrdering(S), SUBSET S)
  BY FS_StrictSubsetOrderingWellFounded, FS_FiniteSubsetsOfFinite
<1>2. PICK s \in Bad : \A t \in Bad : <<t, s>> \notin StrictSubsetOrdering(S)
  BY <1>1, WFMin
<1>3. ASSUME NEW x \in s PROVE <<s \ {x}, s>> \in StrictSubsetOrdering(S)
  <2>1. s \in SUBSET S /\ s \ {x} \in SUBSET S
    BY <1>2
  <2> QED
    BY <2>1 DEF StrictSubsetOrdering
<1> QED
  BY <1>2, <1>3

LEMMA UnitsFinite ==
  ASSUME NEW S, IsFiniteSet(S), NEW f, \A x \in S : f[x] \in Nat
  PROVE  \A s \in SUBSET S : IsFiniteSet(Units(f, s))
<1> DEFINE Bad == {s \in SUBSET S : ~IsFiniteSet(Units(f, s))}
<1>1. SUFFICES ASSUME Bad # {} PROVE FALSE
  OBVIOUS
<1>2. PICK s \in Bad : \A x \in s : s \ {x} \notin Bad
  BY <1>1, LeastCounterexample
<1>3. CASE s = {}
  <2>1. Units(f, s) = {}
    BY <1>3 DEF Units
  <2> QED
    BY <1>2, <2>1, FS_EmptySet
<1>4. CASE s # {}
  <2>1. PICK x \in s : TRUE
    BY <1>4
  <2>2. IsFiniteSet(Units(f, s \ {x}))
    BY <1>2, <2>1
  <2> QED
    BY <1>2, <2>1, <2>2, UnitsSplit
<1> QED
  BY <1>3, <1>4

(* What FoldFunction(+, 0, f) computes, by induction over its domain.      *)
LEMMA SumCounts ==
  ASSUME NEW f, IsFiniteSet(DOMAIN f), \A x \in DOMAIN f : f[x] \in Nat
  PROVE  FoldFunction(+, 0, f) = Cardinality(Units(f, DOMAIN f))
<1> DEFINE S == DOMAIN f
           Sums(g) == g = [s \in SUBSET S |->
                             IF s = {} THEN 0 ELSE f[Picked(s)] + g[s \ {Picked(s)}]]
           count == [s \in SUBSET S |-> Cardinality(Units(f, s))]
<1>1. ASSUME NEW s \in SUBSET S, s # {}
      PROVE  /\ Picked(s) \in s /\ s \ {Picked(s)} \in SUBSET S
             /\ count[s] = f[Picked(s)] + count[s \ {Picked(s)}]
  <2>1. Picked(s) \in s
    BY <1>1 DEF Picked
  <2>2. IsFiniteSet(Units(f, s \ {Picked(s)}))
    BY UnitsFinite
  <2>3. Cardinality(Units(f, s)) = f[Picked(s)] + Cardinality(Units(f, s \ {Picked(s)}))
    BY <2>1, <2>2, UnitsSplit
  <2> QED
    BY <2>1, <2>3
<1>2. count[{}] = 0
  <2>1. Units(f, {}) = {}
    BY DEF Units
  <2> QED
    BY <2>1, FS_EmptySet
<1>3. Sums(count)
  <2>1. ASSUME NEW s \in SUBSET S
        PROVE  count[s] = IF s = {} THEN 0 ELSE f[Picked(s)] + count[s \ {Picked(s)}]
    BY <1>1, <1>2
  <2> HIDE DEF S
  <2> QED
    BY <2>1
<1> DEFINE sum == CHOOSE g : Sums(g)
<1>4. Sums(sum)
  <2> HIDE DEF Sums, count
  <2> QED
    BY <1>3
<1> HIDE DEF sum
<1> DEFINE Bad == {s \in SUBSET S : sum[s] # count[s]}
<1>5. Bad = {}
  <2>1. SUFFICES ASSUME Bad # {} PROVE FALSE
    OBVIOUS
  <2>2. PICK s \in Bad : \A x \in s : s \ {x} \notin Bad
    BY <2>1, LeastCounterexample
  <2>3. s \in SUBSET S /\ sum[s] # count[s]
    OBVIOUS
  <2>4. sum[s] = IF s = {} THEN 0 ELSE f[Picked(s)] + sum[s \ {Picked(s)}]
    BY <1>4, <2>3
  <2>5. CASE s = {}
    BY <1>2, <2>3, <2>4, <2>5
  <2>6. CASE s # {}
    <3>1. sum[s \ {Picked(s)}] = count[s \ {Picked(s)}]
      BY <1>1, <2>2, <2>3, <2>6
    <3> QED
      BY <1>1, <2>3, <2>4, <2>6, <3>1
  <2> QED
    BY <2>5, <2>6
<1>6. sum[S] = count[S]
  BY <1>5
<1>7. FoldFunction(+, 0, f) = sum[S]
  BY SumIs DEF sum
<1> QED
  BY <1>6, <1>7

(* A function that changes at one point.                                   *)
LEMMA UnitsChange ==
  ASSUME NEW S, IsFiniteSet(S), NEW f \in [S -> Nat], NEW g \in [S -> Nat], NEW x \in S,
         \A y \in S \ {x} : g[y] = f[y]
  PROVE  \E k \in Nat : /\ Cardinality(Units(f, S)) = f[x] + k
                        /\ Cardinality(Units(g, S)) = g[x] + k
<1>1. Units(f, S \ {x}) = Units(g, S \ {x})
  BY DEF Units
<1>2. /\ IsFiniteSet(Units(f, S \ {x})) /\ IsFiniteSet(Units(f, S))
      /\ IsFiniteSet(Units(g, S))
  BY UnitsFinite
<1>3. /\ Cardinality(Units(f, S)) = f[x] + Cardinality(Units(f, S \ {x}))
      /\ Cardinality(Units(g, S)) = g[x] + Cardinality(Units(f, S \ {x}))
  BY <1>1, <1>2, UnitsSplit
<1>4. Cardinality(Units(f, S \ {x})) \in Nat
  BY <1>2, FS_CardinalityType
<1> QED
  BY <1>3, <1>4

-----------------------------------------------------------------------------
(* Copies of an item, and the copies that bargains booked on one side      *)
(* have yet to bring and to take.                                          *)

Holding(s, x) == Cardinality(Units([n \in Nodes |-> s[n][x]], Nodes))

Brings(b, x) ==
  \/ b.given /\ ~b.taken /\ b.item = x
  \/ b.taken /\ ~b.given /\ b.price = x

Takes(b, x) ==
  \/ b.given /\ ~b.taken /\ b.price = x
  \/ b.taken /\ ~b.given /\ b.item = x

ToCome(S, x) == {b \in S : Brings(b, x)}
ToGo(S, x)   == {b \in S : Takes(b, x)}

Balanced(s, S) ==
  \A x \in Items :
    Holding(s, x) + Cardinality(ToCome(S, x)) = Cardinality(Nodes) + Cardinality(ToGo(S, x))

One(p) == IF p THEN 1 ELSE 0

(* What a swap of an x for a y by node n does to the holdings s, and what   *)
(* replacing b by c does to the bargains S.                                 *)
Swapped(s, n, x, y) ==
  LET left == [s[n] EXCEPT ![x] = @ - 1]
  IN  [s EXCEPT ![n] = [left EXCEPT ![y] = @ + 1]]

HoldingsMoved(s, t, x, y, z) ==
  /\ Holding(s, z) \in Nat /\ Holding(t, z) \in Nat
  /\ Holding(t, z) = Holding(s, z) + One(z = y) - One(z = x)

CountsMoved(S, T, b, c, x) ==
  /\ IsFiniteSet(T)
  /\ Cardinality(ToCome(S, x)) \in Nat /\ Cardinality(ToCome(T, x)) \in Nat
  /\ Cardinality(ToGo(S, x)) \in Nat /\ Cardinality(ToGo(T, x)) \in Nat
  /\ Cardinality(ToCome(T, x)) =
       Cardinality(ToCome(S, x)) - One(Brings(b, x)) + One(Brings(c, x))
  /\ Cardinality(ToGo(T, x)) =
       Cardinality(ToGo(S, x)) - One(Takes(b, x)) + One(Takes(c, x))

TermsMatch(b, c, x, y) ==
  \A z \in Items : One(Brings(c, z)) + One(Takes(b, z)) + One(z = y)
                     = One(Takes(c, z)) + One(Brings(b, z)) + One(z = x)

LEMMA HoldingChange ==
  ASSUME NEW s, s \in [Nodes -> [Items -> Nat]], NEW t, t \in [Nodes -> [Items -> Nat]],
         NEW n \in Nodes, \A m \in Nodes \ {n} : t[m] = s[m], NEW z \in Items
  PROVE  \E k \in Nat : Holding(s, z) = s[n][z] + k /\ Holding(t, z) = t[n][z] + k
<1>1. PICK f : f = [m \in Nodes |-> s[m][z]]
  OBVIOUS
<1>2. PICK g : g = [m \in Nodes |-> t[m][z]]
  OBVIOUS
<1>3. f \in [Nodes -> Nat] /\ g \in [Nodes -> Nat] /\ \A m \in Nodes \ {n} : g[m] = f[m]
  BY <1>1, <1>2
<1>4. IsFiniteSet(Nodes)
  BY NodesAssumption
<1>5. PICK k \in Nat : /\ Cardinality(Units(f, Nodes)) = f[n] + k
                       /\ Cardinality(Units(g, Nodes)) = g[n] + k
  BY ONLY <1>3, <1>4, n \in Nodes, UnitsChange
<1>6. f[n] = s[n][z] /\ g[n] = t[n][z]
  BY <1>1, <1>2
<1>7. /\ Holding(s, z) = Cardinality(Units(f, Nodes))
      /\ Holding(t, z) = Cardinality(Units(g, Nodes))
  BY <1>1, <1>2 DEF Holding
<1> QED
  BY <1>5, <1>6, <1>7

LEMMA SwapCounts ==
  ASSUME NEW s, s \in [Nodes -> [Items -> Nat]], NEW n \in Nodes, NEW x \in Items,
         NEW y \in Items, s[n][x] > 0, NEW t, t = Swapped(s, n, x, y), NEW z \in Items
  PROVE  HoldingsMoved(s, t, x, y, z)
<1>1. s[n] \in [Items -> Nat]
  OBVIOUS
<1>2. PICK left : left = [s[n] EXCEPT ![x] = s[n][x] - 1]
  OBVIOUS
<1>3. t = [s EXCEPT ![n] = [left EXCEPT ![y] = left[y] + 1]]
  BY <1>2 DEF Swapped
<1>4. left \in [Items -> Nat] /\ left[z] = IF z = x THEN s[n][z] - 1 ELSE s[n][z]
  BY <1>1, <1>2
<1>5. /\ t \in [Nodes -> [Items -> Nat]] /\ \A m \in Nodes \ {n} : t[m] = s[m]
      /\ t[n][z] = IF z = y THEN left[z] + 1 ELSE left[z]
  BY <1>3, <1>4
<1>6. PICK k \in Nat : Holding(s, z) = s[n][z] + k /\ Holding(t, z) = t[n][z] + k
  <2>1. t \in [Nodes -> [Items -> Nat]]
    BY <1>5
  <2>2. \A m \in Nodes \ {n} : t[m] = s[m]
    BY <1>5
  <2> QED
    BY ONLY SMTT(30), s \in [Nodes -> [Items -> Nat]], n \in Nodes, z \in Items, <2>1, <2>2,
            HoldingChange
<1>7. s[n][z] \in Nat /\ t[n][z] \in Nat
  BY <1>1, <1>5
<1>8. t[n][z] = s[n][z] + One(z = y) - One(z = x)
  BY <1>4, <1>5, <1>7 DEF One
<1> QED
  BY <1>6, <1>7, <1>8 DEF One, HoldingsMoved

(* A member of a set is taken out, and maybe another is put in.             *)
LEMMA CountRemoved ==
  ASSUME NEW A, IsFiniteSet(A), NEW b, NEW B, B = A \ {b}
  PROVE  /\ IsFiniteSet(B) /\ Cardinality(A) \in Nat /\ Cardinality(B) \in Nat
         /\ Cardinality(B) = Cardinality(A) - One(b \in A)
<1>1. /\ IsFiniteSet(B)
      /\ Cardinality(B) = IF b \in A THEN Cardinality(A) - 1 ELSE Cardinality(A)
  BY FS_RemoveElement
<1>2. Cardinality(A) \in Nat /\ Cardinality(B) \in Nat
  BY <1>1, FS_CardinalityType
<1> QED
  BY <1>1, <1>2 DEF One

LEMMA CountReplaced ==
  ASSUME NEW A, IsFiniteSet(A), NEW b, NEW c, c \notin A, NEW B, B = (A \ {b}) \cup {c}
  PROVE  /\ IsFiniteSet(B) /\ Cardinality(A) \in Nat /\ Cardinality(B) \in Nat
         /\ Cardinality(B) = Cardinality(A) - One(b \in A) + 1
<1>1. PICK R : R = A \ {b}
  OBVIOUS
<1>2. /\ IsFiniteSet(R) /\ Cardinality(A) \in Nat /\ Cardinality(R) \in Nat
      /\ Cardinality(R) = Cardinality(A) - One(b \in A)
  BY <1>1, CountRemoved
<1>3. c \notin R /\ B = R \cup {c}
  BY <1>1
<1>4. IsFiniteSet(R \cup {c}) /\ Cardinality(R \cup {c}) = Cardinality(R) + 1
  BY ONLY <1>2, <1>3, FS_AddElement
<1>5. Cardinality(B) \in Nat
  BY <1>2, <1>3, <1>4
<1> QED
  BY <1>2, <1>3, <1>4, <1>5

LEMMA BookingCounts ==
  ASSUME NEW S, IsFiniteSet(S), NEW b \in S, NEW c, c \notin S,
         NEW T, T = (S \ {b}) \cup {c}, NEW x
  PROVE  CountsMoved(S, T, b, c, x)
<1>1. PICK A : A = ToCome(S, x)
  OBVIOUS
<1>2. PICK B : B = ToCome(T, x)
  OBVIOUS
<1>3. PICK G : G = ToGo(S, x)
  OBVIOUS
<1>4. PICK H : H = ToGo(T, x)
  OBVIOUS
<1>5. /\ B = IF Brings(c, x) THEN (A \ {b}) \cup {c} ELSE A \ {b}
      /\ H = IF Takes(c, x) THEN (G \ {b}) \cup {c} ELSE G \ {b}
  BY <1>1, <1>2, <1>3, <1>4 DEF ToCome, ToGo
<1>6. /\ b \in A <=> Brings(b, x)
      /\ b \in G <=> Takes(b, x)
      /\ c \notin A /\ c \notin G
  BY <1>1, <1>3 DEF ToCome, ToGo
<1>7. IsFiniteSet(A) /\ IsFiniteSet(G)
  <2>1. A \in SUBSET S /\ G \in SUBSET S
    BY <1>1, <1>3 DEF ToCome, ToGo
  <2> QED
    BY <2>1, FS_Subset
<1>8. IsFiniteSet(T)
  BY FS_RemoveElement, FS_AddElement
<1>9. /\ Cardinality(A) \in Nat /\ Cardinality(B) \in Nat
      /\ Cardinality(B) = Cardinality(A) - One(b \in A) + One(Brings(c, x))
  <2>1. CASE Brings(c, x)
    <3>1. B = (A \ {b}) \cup {c}
      BY <1>5, <2>1
    <3>2. /\ Cardinality(A) \in Nat /\ Cardinality(B) \in Nat
          /\ Cardinality(B) = Cardinality(A) - One(b \in A) + 1
      BY ONLY <1>6, <1>7, <3>1, CountReplaced
    <3> QED
      BY <2>1, <3>2 DEF One
  <2>2. CASE ~Brings(c, x)
    <3>1. B = A \ {b}
      BY <1>5, <2>2
    <3>2. /\ Cardinality(A) \in Nat /\ Cardinality(B) \in Nat
          /\ Cardinality(B) = Cardinality(A) - One(b \in A)
      BY ONLY <1>7, <3>1, CountRemoved
    <3> QED
      BY <2>2, <3>2 DEF One
  <2> QED
    BY <2>1, <2>2
<1>10. /\ Cardinality(G) \in Nat /\ Cardinality(H) \in Nat
       /\ Cardinality(H) = Cardinality(G) - One(b \in G) + One(Takes(c, x))
  <2>1. CASE Takes(c, x)
    <3>1. H = (G \ {b}) \cup {c}
      BY <1>5, <2>1
    <3>2. /\ Cardinality(G) \in Nat /\ Cardinality(H) \in Nat
          /\ Cardinality(H) = Cardinality(G) - One(b \in G) + 1
      BY ONLY <1>6, <1>7, <3>1, CountReplaced
    <3> QED
      BY <2>1, <3>2 DEF One
  <2>2. CASE ~Takes(c, x)
    <3>1. H = G \ {b}
      BY <1>5, <2>2
    <3>2. /\ Cardinality(G) \in Nat /\ Cardinality(H) \in Nat
          /\ Cardinality(H) = Cardinality(G) - One(b \in G)
      BY ONLY <1>7, <3>1, CountRemoved
    <3> QED
      BY <2>2, <3>2 DEF One
  <2> QED
    BY <2>1, <2>2
<1>11. One(b \in A) = One(Brings(b, x)) /\ One(b \in G) = One(Takes(b, x))
  BY <1>6 DEF One
<1> QED
  BY <1>1, <1>2, <1>3, <1>4, <1>8, <1>9, <1>10, <1>11 DEF CountsMoved

LEMMA BookedBalance ==
  ASSUME NEW s, s \in [Nodes -> [Items -> Nat]], NEW S, IsFiniteSet(S), Balanced(s, S),
         NEW b \in S, NEW c, c \notin S, NEW T, T = (S \ {b}) \cup {c},
         NEW n \in Nodes, NEW x \in Items, NEW y \in Items, s[n][x] > 0,
         NEW t, t = Swapped(s, n, x, y), TermsMatch(b, c, x, y)
  PROVE  IsFiniteSet(T) /\ Balanced(t, T)
<1>1. \A z : CountsMoved(S, T, b, c, z)
  BY BookingCounts
<1>2. SUFFICES ASSUME NEW z \in Items
               PROVE  Holding(t, z) + Cardinality(ToCome(T, z))
                        = Cardinality(Nodes) + Cardinality(ToGo(T, z))
  BY <1>1 DEF Balanced, CountsMoved
<1>3. /\ Holding(s, z) \in Nat /\ Holding(t, z) \in Nat
      /\ Holding(t, z) = Holding(s, z) + One(z = y) - One(z = x)
  <2>1. HoldingsMoved(s, t, x, y, z)
    BY SwapCounts
  <2> QED
    BY <2>1 DEF HoldingsMoved
<1>4. /\ Cardinality(ToCome(S, z)) \in Nat /\ Cardinality(ToCome(T, z)) \in Nat
      /\ Cardinality(ToGo(S, z)) \in Nat /\ Cardinality(ToGo(T, z)) \in Nat
      /\ Cardinality(ToCome(T, z)) =
           Cardinality(ToCome(S, z)) - One(Brings(b, z)) + One(Brings(c, z))
      /\ Cardinality(ToGo(T, z)) =
           Cardinality(ToGo(S, z)) - One(Takes(b, z)) + One(Takes(c, z))
  BY <1>1 DEF CountsMoved
<1>5. Holding(s, z) + Cardinality(ToCome(S, z)) = Cardinality(Nodes) + Cardinality(ToGo(S, z))
  BY DEF Balanced
<1>6. Cardinality(Nodes) \in Nat
  BY NodesAssumption, FS_CardinalityType
<1>7. \A p : One(p) \in Nat
  BY DEF One
<1>8. PICK bc, bb, tc, tb, oy, ox \in Nat :
        /\ bc = One(Brings(c, z)) /\ bb = One(Brings(b, z))
        /\ tc = One(Takes(c, z)) /\ tb = One(Takes(b, z))
        /\ oy = One(z = y) /\ ox = One(z = x)
  BY <1>7
<1>9. bc + tb + oy = tc + bb + ox
  BY <1>8 DEF TermsMatch
<1> QED
  BY ONLY <1>3, <1>4, <1>5, <1>6, <1>8, <1>9

(* Booking a side moves the copies that the bargain owed there.            *)
LEMMA GivenTerms ==
  ASSUME NEW b, NEW c, ~b.given, c.given, c.taken <=> b.taken,
         c.item = b.item, c.price = b.price
  PROVE  TermsMatch(b, c, b.item, b.price)
  BY DEF TermsMatch, One, Brings, Takes

LEMMA TakenTerms ==
  ASSUME NEW b, NEW c, ~b.taken, c.taken, c.given <=> b.given,
         c.item = b.item, c.price = b.price
  PROVE  TermsMatch(b, c, b.price, b.item)
  BY DEF TermsMatch, One, Brings, Takes

-----------------------------------------------------------------------------
(* The balance is kept.                                                    *)

LEMMA StruckParts ==
  ASSUME DealInv, NEW b \in Struck
  PROVE  b \in Trade!Bargain /\ \A c \in Struck : c.name = b.name => c = b
<1>1. PICK u \in Ids, p \in Ids, q \in Ids : Deal(u, p, q) /\ b = DealOf(u, p, q)
  BY StruckIs
<1>2. b \in Trade!Bargain
  BY <1>1, DealParts
<1>3. ASSUME NEW c \in Struck, c.name = b.name PROVE c = b
  <2>1. PICK v \in Ids, r \in Ids, s \in Ids : Deal(v, r, s) /\ c = DealOf(v, r, s)
    BY <1>3, StruckIs
  <2>2. agent[u].location = agent[v].location
    BY <1>1, <1>3, <2>1 DEF DealOf, BargainOf
  <2>3. u = v /\ p = r /\ q = s
    BY <1>1, <2>1, <2>2, OneDeal
  <2> QED
    BY <1>1, <2>1, <2>3
<1> QED
  BY <1>2, <1>3

(* A side that is booked makes another bargain of it.                      *)
LEMMA NowGiven ==
  ASSUME NEW b \in Trade!Bargain, ~b.given, NEW c, c = [b EXCEPT !.given = TRUE]
  PROVE  /\ c # b /\ c.name = b.name /\ c.item = b.item /\ c.price = b.price
         /\ c.given /\ (c.taken <=> b.taken)
<1>1. PICK t : t = TRUE
  OBVIOUS
<1>2. c = [b EXCEPT !.given = t]
  BY <1>1, Zenon
<1>3. /\ c.given = t /\ c.name = b.name /\ c.item = b.item /\ c.price = b.price
      /\ c.taken = b.taken
  BY <1>2 DEF Trade!Bargain
<1>4. c.given
  BY <1>1, <1>3, Zenon
<1> QED
  BY <1>3, <1>4

LEMMA NowTaken ==
  ASSUME NEW b \in Trade!Bargain, ~b.taken, NEW c, c = [b EXCEPT !.taken = TRUE]
  PROVE  /\ c # b /\ c.name = b.name /\ c.item = b.item /\ c.price = b.price
         /\ c.taken /\ (c.given <=> b.given)
<1>1. PICK t : t = TRUE
  OBVIOUS
<1>2. c = [b EXCEPT !.taken = t]
  BY <1>1, Zenon
<1>3. /\ c.taken = t /\ c.name = b.name /\ c.item = b.item /\ c.price = b.price
      /\ c.given = b.given
  BY <1>2 DEF Trade!Bargain
<1>4. c.taken
  BY <1>1, <1>3, Zenon
<1> QED
  BY <1>3, <1>4

LEMMA GiveBalance ==
  ASSUME DealInv, IsFiniteSet(Struck), Balanced(items, Struck), NEW b \in Struck,
         Trade!Give(b)
  PROVE  IsFiniteSet(Struck') /\ Balanced(items, Struck)'
<1>1. /\ b \in Trade!Bargain /\ \A c \in Struck : c.name = b.name => c = b
      /\ items \in [Nodes -> [Items -> Nat]]
  BY StruckParts DEF DealInv, TypeOK, ItemListsTypeOK
<1>2. PICK c : c = [b EXCEPT !.given = TRUE]
  OBVIOUS
<1>3. /\ ~b.given /\ items[b.giver][b.item] > 0
      /\ items' = Swapped(items, b.giver, b.item, b.price)
      /\ Struck' = (Struck \ {b}) \cup {c}
  BY <1>2 DEF Trade!Give, Trade!Swap, Swapped
<1>4. /\ c # b /\ c.name = b.name /\ c.item = b.item /\ c.price = b.price
      /\ c.given /\ (c.taken <=> b.taken)
  BY <1>1, <1>2, <1>3, NowGiven
<1>5. c \notin Struck
  BY <1>1, <1>4
<1>6. b.giver \in Nodes /\ b.item \in Items /\ b.price \in Items
  BY <1>1 DEF Trade!Bargain
<1>7. TermsMatch(b, c, b.item, b.price)
  BY <1>3, <1>4, GivenTerms
<1>8. PICK t : t = items'
  OBVIOUS
<1>9. PICK T : T = Struck'
  OBVIOUS
<1>10. PICK n \in Nodes : n = b.giver
  BY <1>6
<1>11. PICK x \in Items : x = b.item
  BY <1>6
<1>12. PICK y \in Items : y = b.price
  BY <1>6
<1>13. PICK s : s = items
  OBVIOUS
<1>14. PICK S : S = Struck
  OBVIOUS
<1>15. /\ s \in [Nodes -> [Items -> Nat]] /\ IsFiniteSet(S) /\ Balanced(s, S)
       /\ b \in S /\ c \notin S /\ T = (S \ {b}) \cup {c}
       /\ s[n][x] > 0 /\ t = Swapped(s, n, x, y) /\ TermsMatch(b, c, x, y)
  BY <1>1, <1>3, <1>5, <1>7, <1>8, <1>9, <1>10, <1>11, <1>12, <1>13, <1>14
<1>16. IsFiniteSet(T) /\ Balanced(t, T)
  BY ONLY <1>15, n \in Nodes, x \in Items, y \in Items, BookedBalance
<1> QED
  BY <1>8, <1>9, <1>16 DEF Balanced, Holding

LEMMA TakeBalance ==
  ASSUME DealInv, IsFiniteSet(Struck), Balanced(items, Struck), NEW b \in Struck,
         Trade!Take(b)
  PROVE  IsFiniteSet(Struck') /\ Balanced(items, Struck)'
<1>1. /\ b \in Trade!Bargain /\ \A c \in Struck : c.name = b.name => c = b
      /\ items \in [Nodes -> [Items -> Nat]]
  BY StruckParts DEF DealInv, TypeOK, ItemListsTypeOK
<1>2. PICK c : c = [b EXCEPT !.taken = TRUE]
  OBVIOUS
<1>3. /\ ~b.taken /\ items[b.taker][b.price] > 0
      /\ items' = Swapped(items, b.taker, b.price, b.item)
      /\ Struck' = (Struck \ {b}) \cup {c}
  BY <1>2 DEF Trade!Take, Trade!Swap, Swapped
<1>4. /\ c # b /\ c.name = b.name /\ c.item = b.item /\ c.price = b.price
      /\ c.taken /\ (c.given <=> b.given)
  BY <1>1, <1>2, <1>3, NowTaken
<1>5. c \notin Struck
  BY <1>1, <1>4
<1>6. b.taker \in Nodes /\ b.item \in Items /\ b.price \in Items
  BY <1>1 DEF Trade!Bargain
<1>7. TermsMatch(b, c, b.price, b.item)
  BY <1>3, <1>4, TakenTerms
<1>8. PICK t : t = items'
  OBVIOUS
<1>9. PICK T : T = Struck'
  OBVIOUS
<1>10. PICK n \in Nodes : n = b.taker
  BY <1>6
<1>11. PICK x \in Items : x = b.price
  BY <1>6
<1>12. PICK y \in Items : y = b.item
  BY <1>6
<1>13. PICK s : s = items
  OBVIOUS
<1>14. PICK S : S = Struck
  OBVIOUS
<1>15. /\ s \in [Nodes -> [Items -> Nat]] /\ IsFiniteSet(S) /\ Balanced(s, S)
       /\ b \in S /\ c \notin S /\ T = (S \ {b}) \cup {c}
       /\ s[n][x] > 0 /\ t = Swapped(s, n, x, y) /\ TermsMatch(b, c, x, y)
  BY <1>1, <1>3, <1>5, <1>7, <1>8, <1>9, <1>10, <1>11, <1>12, <1>13, <1>14
<1>16. IsFiniteSet(T) /\ Balanced(t, T)
  BY ONLY <1>15, n \in Nodes, x \in Items, y \in Items, BookedBalance
<1> QED
  BY <1>8, <1>9, <1>16 DEF Balanced, Holding

LEMMA StrikeBalance ==
  ASSUME IsFiniteSet(Struck), Balanced(items, Struck), Trade!Strike
  PROVE  IsFiniteSet(Struck') /\ Balanced(items, Struck)'
<1>1. PICK b : ~b.given /\ ~b.taken /\ Struck' = Struck \cup {b} /\ items' = items
  BY DEF Trade!Strike
<1>2. \A x \in Items : ToCome(Struck', x) = ToCome(Struck, x) /\ ToGo(Struck', x) = ToGo(Struck, x)
  BY <1>1 DEF ToCome, ToGo, Brings, Takes
<1>3. IsFiniteSet(Struck')
  BY <1>1, FS_AddElement
<1> QED
  BY <1>1, <1>2, <1>3 DEF Balanced, Holding

LEMMA BalanceStep ==
  ASSUME DealStep, YellowPagesStay, ~ShopClicks, IsFiniteSet(Struck), Balanced(items, Struck)
  PROVE  IsFiniteSet(Struck') /\ Balanced(items, Struck)'
<1>1. CASE Trade!Strike
  BY <1>1, StrikeBalance
<1>2. CASE Books
  BY <1>2, GiveBalance, TakeBalance DEF Books, DealStep
<1>3. CASE UNCHANGED << items, Struck >>
  BY <1>3 DEF Balanced, Holding
<1> QED
  BY <1>1, <1>2, <1>3, TradeStepIs

(* No clicks on "sell" and on the answers to a payment request.            *)
NoShopping == MaxClicks["Sell"] = 0 /\ MaxClicks["Pay"] = 0

LEMMA ShopBounds == TypeOK /\ NoShopping => ~ShopClicks
<1>1. TypeOK => clicks["Sell"] \in Nat /\ clicks["Pay"] \in Nat
  BY DEF TypeOK, Buttons
<1> QED
  BY <1>1 DEF NoShopping, ShopClicks, Sell, Pay, Click

(* As startSystem() leaves the nodes: every node is given one copy of      *)
(* every item, and then they only swap.                                    *)
EvenStart ==
  \A dist \in InitialItems, x \in Items :
    FoldFunction(+, 0, [n \in Nodes |-> dist[n][x]]) = Cardinality(Nodes)

LEMMA HoldingIs ==
  ASSUME NEW s, s \in [Nodes -> [Items -> Nat]], NEW x \in Items
  PROVE  FoldFunction(+, 0, [n \in Nodes |-> s[n][x]]) = Holding(s, x) /\ Holding(s, x) \in Nat
<1>1. PICK f : f = [n \in Nodes |-> s[n][x]]
  OBVIOUS
<1>2. DOMAIN f = Nodes /\ \A n \in Nodes : f[n] \in Nat
  BY <1>1
<1>3. IsFiniteSet(Nodes)
  BY NodesAssumption
<1>4. FoldFunction(+, 0, f) = Cardinality(Units(f, Nodes))
  BY ONLY <1>2, <1>3, SumCounts
<1>5. Cardinality(Units(f, Nodes)) \in Nat
  BY <1>2, <1>3, UnitsFinite, FS_CardinalityType
<1> QED
  BY <1>1, <1>4, <1>5 DEF Holding

LEMMA BalanceInit ==
  ASSUME EvenStart, Init
  PROVE  IsFiniteSet(Struck) /\ Balanced(items, Struck)
<1>1. Struck = {}
  BY BarterInit DEF Trade!Init
<1>2. \A x \in Items : ToCome(Struck, x) = {} /\ ToGo(Struck, x) = {}
  BY <1>1 DEF ToCome, ToGo
<1>3. items \in InitialItems /\ items \in [Nodes -> [Items -> Nat]]
  BY TypeInit DEF Init, NodesInit, TypeOK, ItemListsTypeOK
<1>4. ASSUME NEW x \in Items PROVE Holding(items, x) = Cardinality(Nodes)
  BY <1>3, HoldingIs DEF EvenStart
<1>5. Cardinality(Nodes) \in Nat
  BY NodesAssumption, FS_CardinalityType
<1> QED
  BY <1>1, <1>2, <1>4, <1>5, FS_EmptySet DEF Balanced

-----------------------------------------------------------------------------
(* When nothing is left to book.                                           *)

(* A search of the user's that succeeded is there to book, or destroyed.   *)
SuccessDue(q) == agent[q].kind = "MCP" /\ agent[q].valid /\ agent[q].success => Due(q)

LEMMA SuccessDueStep ==
  ASSUME DealStep, NEW q \in Ids, SuccessDue(q)
  PROVE  SuccessDue(q)'
<1>0. /\ TypeOK /\ AgentsTypeOK /\ ChildrenTyped /\ SearchInv /\ OwnInv /\ Life /\ Turns
      /\ [Next]_vars /\ ~CloseCluster /\ ~KillCluster
  BY DEF DealStep, DealInv, TypeOK, LifeInv, OwnershipInv
<1> SUFFICES ASSUME agent'[q].kind = "MCP", agent'[q].valid, agent'[q].success
             PROVE  Due(q)'
  BY DEF SuccessDue
<1>1. agent[q].kind = "MCP" /\ agent[q].valid /\ MCPTurn(q)
  <2>1. agent[q].kind # "none"
    BY <1>0, NewOne
  <2> QED
    BY <1>0, <2>1, OldAgent DEF Turn
<1>2. CASE agent[q].success
  <2>1. MCPFinished(q)
    <3>1. agent[q].state = MCP_FINISHED /\ agent[q].child # Nobody /\ Quiet(q)
      BY <1>0, <1>1, <1>2 DEF OwnInv, Verdict
    <3>2. agent[q].depth \in 0..MaxSearchDepth
      BY <1>0, AgentParts DEF Agent
    <3> QED
      BY <1>1, <3>1, <3>2 DEF Quiet, Nested, MCPFinished, Is, MaxSearchDepth
  <2>2. Due(q)
    BY <1>1, <1>2 DEF SuccessDue
  <2>3. CASE ExchangeAgent(q)
    <3>1. agent' # AfterStop({q})
      BY <1>0, <1>1, <2>1, StoppedTop
    <3>2. phase' = "aborted"
      BY <1>2, <2>3, <3>1, ExchangePlace
    <3> QED
      BY <3>2 DEF Due
  <2>4. CASE ~ExchangeAgent(q)
    BY <1>0, <1>1, <2>1, <2>2, <2>4, BookKept DEF ExchangeActs
  <2> QED
    BY <2>3, <2>4
<1>3. CASE ~agent[q].success
  <2>1. UpdateAgent(q)
    BY <1>1, <1>3 DEF MCPTurn
  <2>2. phase' = "update" /\ todo' = {j \in todo : j > q}
    BY <2>1, BargainPlace
  <2>3. q \notin todo'
    BY <2>2, IdsArePositive
  <2> QED
    BY <2>2, <2>3 DEF Due, ToBook
<1> QED
  BY <1>2, <1>3

LEMMA AllBooked ==
  ASSUME DealInv, \A q \in Ids : SuccessDue(q), FrameStarts, \A u \in Ids : ~Unbooked(u),
         NEW b \in Struck
  PROVE  b.given /\ b.taken
<1>0. AgentsTypeOK /\ OwnInv /\ SearchInv /\ phase = "update" /\ todo = present
  BY DEF DealInv, TypeOK, OwnershipInv, FrameStarts
<1>1. PICK u \in Ids, p \in Ids, q \in Ids : Deal(u, p, q) /\ b = DealOf(u, p, q)
  BY StruckIs
<1>2. PICK c : c = agent[u].location
  OBVIOUS
<1>3. c \in Ids /\ agent[c].kind = "UCC" /\ agent[q].child # Nobody
  BY <1>1, <1>2, DealParts
<1>4. \A i \in Ids : agent[i].valid => ~Due(i)
  BY <1>0 DEF SearchInv, Reachable, Due, ToBook
<1>5. ~agent[c].valid
  <2> SUFFICES ASSUME agent[c].valid PROVE FALSE
    OBVIOUS
  <2>1. PICK r \in Ids : OwnsUCC(r, c)
    BY <1>0, <1>3 DEF OwnInv, Owned
  <2>2. r \in ContributorOf(u) /\ agent[r].state = MCC_NEGOCIATING
    BY <1>2, <1>4, <2>1 DEF OwnsUCC, ContributorOf
  <2> QED
    BY <1>1, <2>2 DEF Deal, Unbooked
<1>6. ~agent[q].valid
  <2> SUFFICES ASSUME agent[q].valid PROVE FALSE
    OBVIOUS
  <2>1. agent[q].state = MCP_NEGOCIATING_UCP_RES \/ agent[q].success
    BY <1>0, <1>1, <1>3 DEF OwnInv, Verdict, ChildOf, Deal
  <2>2. ~agent[q].success
    BY <1>1, <1>4 DEF SuccessDue, Deal
  <2>3. q \in PetitionerOf(u)
    BY <1>1 DEF PetitionerOf, Deal
  <2> QED
    BY <1>1, <2>1, <2>2, <2>3 DEF Deal, Unbooked
<1>7. b.given = (~agent[c].valid) /\ b.taken = (~agent[q].valid)
  BY <1>1, <1>2 DEF DealOf, BargainOf
<1> QED
  BY <1>5, <1>6, <1>7

LEMMA BookedIsEven ==
  ASSUME TypeOK, Balanced(items, Struck), \A b \in Struck : b.given /\ b.taken, NEW x \in Items
  PROVE  Copies(x) = Cardinality(Nodes)
<1>1. ToCome(Struck, x) = {} /\ ToGo(Struck, x) = {}
  BY DEF ToCome, ToGo, Brings, Takes
<1>2. Holding(items, x) + 0 = Cardinality(Nodes) + 0
  BY <1>1, FS_EmptySet DEF Balanced
<1>3. Copies(x) = Holding(items, x) /\ Holding(items, x) \in Nat
  BY HoldingIs DEF TypeOK, ItemListsTypeOK, Copies
<1>4. Cardinality(Nodes) \in Nat
  BY NodesAssumption, FS_CardinalityType
<1> QED
  BY <1>2, <1>3, <1>4

BalanceInv ==
  IsFiniteSet(Struck) /\ Balanced(items, Struck) /\ \A q \in Ids : SuccessDue(q)

(* While the user only searches, exchanges conserve the items of the       *)
(* cluster: however many bargains are under way or half booked, when a     *)
(* frame starts with none of them open every item has its copies again.    *)
THEOREM ExchangesConserve ==
  ASSUME NoClear, ClusterStays, YellowPagesStay, GarbageIsNowhere, NoShopping, EvenStart
  PROVE  Spec => []Conservation
<1>1. Init => BalanceInv
  <2>1. ASSUME Init PROVE \A q \in Ids : SuccessDue(q)
    <3>1. \A q \in Ids : ~agent[q].valid
      BY <2>1, NoAgentType DEF Init, AgentsInit, NoAgent, NewAgent
    <3> QED
      BY <3>1 DEF SuccessDue
  <2> QED
    BY <2>1, BalanceInit DEF BalanceInv
<1>2. ASSUME DealInv, DealInv', PayerAlive, [Next]_vars, BalanceInv
      PROVE  BalanceInv'
  <2>1. TypeOK /\ BargainInv /\ LifeInv /\ JustifiedInv /\ SearchInv /\ TimelyTokens
        /\ OwnershipInv
    BY <1>2 DEF DealInv, TalkInv
  <2>2. Life /\ Turns
    BY <1>2, <2>1, OwnershipStep
  <2>3. ~ClearAgents /\ ~CloseCluster /\ ~KillCluster /\ ~ShopClicks
    BY <2>1, Bounds, ShopBounds
  <2>4. DealStep
    BY <1>2, <2>2, <2>3 DEF DealStep
  <2> QED
    BY <1>2, <2>3, <2>4, BalanceStep, SuccessDueStep DEF BalanceInv
<1>3. DealInv /\ BalanceInv => Conservation
  <2>1. ASSUME DealInv, BalanceInv, FrameStarts, \A u \in Ids : ~Unbooked(u), NEW x \in Items
        PROVE  Copies(x) = Cardinality(Nodes)
    BY <2>1, AllBooked, BookedIsEven DEF BalanceInv, DealInv
  <2> QED
    BY <2>1 DEF Conservation
<1>4. Spec => [](DealInv /\ PayerAlive)
  BY DealInvariant
<1> QED
  BY <1>1, <1>2, <1>3, <1>4, PTL DEF Spec
=============================================================================
