---------------------------- MODULE Trade_proofs ----------------------------
(***************************************************************************)
(* Proofs about what a negotiation and a search lead to: runSystem()       *)
(* exchanges items only for MCCs that struck a bargain, marks belong to    *)
(* negotiations, the payment request on the screen belongs to a living     *)
(* petitioner; the directory and every answer to a search name MCCs that   *)
(* offer the item searched for, and the MCC behind a successful UCP gives  *)
(* what the UCP wants and wants what it gives.                             *)
(***************************************************************************)
EXTENDS NodeCluster_proofs

-----------------------------------------------------------------------------
(* What a step may do to an agent.                                         *)

ChildOf(i) == agent[agent[i].child]

(* UCC c concluded without a bargain.                                      *)
Refused(c) == agent[c].state = UCC_FINISHED /\ ~agent[c].success

(* Agent b is what became of a: what is over stays over.                   *)
Ages(b, a) ==
  /\ SameIdentity(b, a)
  /\ b.valid => a.valid
  /\ a.kind = "MCP" =>
       /\ b.depth = a.depth
       /\ a.state = MCP_FINISHED => b.state = a.state /\ b.success = a.success
  /\ a.kind = "UCC" =>
       /\ a.state = UCC_FINISHED => b.state = a.state /\ b.success = a.success
       /\ b.success => a.success \/ b.state = UCC_FINISHED

(* The child of agent j is kept, or it is the agent created in this step.  *)
ChildStep(j) ==
  \/ agent'[j].child = agent[j].child
  \/ /\ nextId \in Ids /\ agent'[j].child = nextId
     /\ agent[j].kind \in {"MCC", "MCP", "UCP"}
     /\ agent[j].kind = "MCC" => agent'[nextId].kind = "UCC"
     /\ agent[j].kind = "MCP" => agent'[nextId].kind = "UCP"
     /\ agent[j].kind = "UCP" => agent'[nextId].kind = "MCP" /\ agent'[nextId].depth > 0

(* The life of an MCC: the states it goes through, the child it has        *)
(* meanwhile, and the mark it sets and takes off.  The last case is that   *)
(* of an MCC that is stopped.                                              *)
MCCStep(j) ==
  LET a == agent[j]
      b == agent'[j]
  IN  a.kind = "MCC" =>
        \/ b.state = a.state /\ b.child = a.child
        \/ /\ a.state = MCC_INIT /\ b.child = a.child
           /\ b.state = MCC_REGISTERING \/ (b.state = MCC_FINISHED /\ ~ypUp)
        \/ a.state = MCC_REGISTERING /\ b.state = MCC_IDLE /\ b.child = a.child
        \/ /\ a.state = MCC_NEGOCIATING /\ b.child = a.child
           /\ \/ b.state = MCC_IDLE /\ Refused(a.child)
              \/ b.state = MCC_FINISHED /\ ChildOf(j).success
           /\ SetItemUsed(a.node, a.give, FALSE)
        \/ /\ a.state = MCC_IDLE /\ b.state = MCC_NEGOCIATING
           /\ b.child = nextId /\ nextId \in Ids
           /\ SetItemUsed(a.node, a.give, TRUE)
        \/ /\ b.state = MCC_FINISHED /\ b.child = a.child
           /\ (phase = "prune" /\ a.state = MCC_IDLE) \/ ClearAgents
           /\ a.child # Nobody => ~agent'[a.child].valid

(* A search the user started is over when runSystem() exchanges items for  *)
(* it, when the user has answered its request for payment, or when         *)
(* everything is cleared.                                                  *)
Answered(j) ==
  \/ agent[j].success /\ ExchangeAgent(j)
  \/ payer = j /\ payer' = Nobody
  \/ ClearAgents

TopSearch(j) == agent[j].kind = "MCP" /\ agent[j].depth = 0

SearchStep(j) ==
  TopSearch(j) /\ agent[j].valid /\ ~agent'[j].valid => Answered(j)

(* An agent that is new has no history, and waits to join the others.      *)
Born(j) ==
  /\ agent[j].kind = "none" /\ j \in pending'
  /\ agent'[j].kind # "none"
  /\ agent'[j].state = 0 /\ ~agent'[j].success /\ agent'[j].child = Nobody

Lives(j) == Ages(agent'[j], agent[j]) /\ ChildStep(j) /\ MCCStep(j) /\ SearchStep(j)

Life == \A j \in Ids : Born(j) \/ Lives(j)

(* Who is whose child, and what an agent without one has not done yet.     *)
ChildrenTyped ==
  \A i \in Ids :
    /\ agent[i].kind \in {"none", "UCC"} => agent[i].child = Nobody
    /\ agent[i].child # Nobody =>
         /\ agent[i].kind = "MCC" => ChildOf(i).kind = "UCC"
         /\ agent[i].kind = "MCP" => ChildOf(i).kind = "UCP"
         /\ agent[i].kind = "UCP" => ChildOf(i).kind = "MCP" /\ ChildOf(i).depth > 0
    /\ Is(i, "MCC", MCC_INIT) \/ Is(i, "MCC", MCC_REGISTERING) => agent[i].child = Nobody
    /\ Is(i, "MCC", MCC_IDLE) /\ agent[i].child # Nobody => Refused(agent[i].child)
    /\ Is(i, "MCC", MCC_NEGOCIATING) => agent[i].child # Nobody
    /\ agent[i].kind = "UCC" /\ agent[i].success => agent[i].state = UCC_FINISHED

(* The payment request belongs to a search of the user's that failed.      *)
PayerAsked == payer # Nobody => MCPFinished(payer) /\ ~agent[payer].success

LEMMA AgesFields ==
  ASSUME NEW a \in Agent
  PROVE  /\ Ages(a, a)
         /\ Ages([a EXCEPT !.valid = FALSE], a)
         /\ [a EXCEPT !.valid = FALSE].child = a.child
         /\ \A s :
              /\ [a EXCEPT !.state = s].child = a.child
              /\ [a EXCEPT !.state = s].valid = a.valid
              /\ (a.kind = "MCP" => a.state # MCP_FINISHED)
                 /\ (a.kind = "UCC" => a.state # UCC_FINISHED /\ ~a.success)
                 => Ages([a EXCEPT !.state = s], a)
              /\ \A b \in BOOLEAN :
                   /\ [a EXCEPT !.success = b, !.state = s].child = a.child
                   /\ [a EXCEPT !.success = b, !.state = s].valid = a.valid
                   /\ (a.kind = "MCP" => a.state # MCP_FINISHED)
                      /\ (a.kind = "UCC" => a.state # UCC_FINISHED /\ s = UCC_FINISHED)
                      => Ages([a EXCEPT !.success = b, !.state = s], a)
         /\ \A s, r, k :
              /\ [a EXCEPT !.registers = r, !.index = k, !.state = s].child = a.child
              /\ a.kind = "MCP" /\ a.state # MCP_FINISHED
                 => Ages([a EXCEPT !.registers = r, !.index = k, !.state = s], a)
         /\ NextContributor(a).child = a.child /\ NextContributor(a).valid = a.valid
         /\ a.kind = "MCP" /\ a.state # MCP_FINISHED => Ages(NextContributor(a), a)
         /\ a.kind = "UCP" => Ages(SearchingDeeper(a), a)
<1>1. /\ Ages(a, a)
      /\ Ages([a EXCEPT !.valid = FALSE], a)
      /\ [a EXCEPT !.valid = FALSE].child = a.child
  BY DEF Agent, Ages, SameIdentity
<1>2. ASSUME NEW s
      PROVE  /\ [a EXCEPT !.state = s].child = a.child
             /\ [a EXCEPT !.state = s].valid = a.valid
             /\ (a.kind = "MCP" => a.state # MCP_FINISHED)
                /\ (a.kind = "UCC" => a.state # UCC_FINISHED /\ ~a.success)
                => Ages([a EXCEPT !.state = s], a)
  BY DEF Agent, Ages, SameIdentity
<1>3. ASSUME NEW s, NEW b \in BOOLEAN
      PROVE  /\ [a EXCEPT !.success = b, !.state = s].child = a.child
             /\ [a EXCEPT !.success = b, !.state = s].valid = a.valid
             /\ (a.kind = "MCP" => a.state # MCP_FINISHED)
                /\ (a.kind = "UCC" => a.state # UCC_FINISHED /\ s = UCC_FINISHED)
                => Ages([a EXCEPT !.success = b, !.state = s], a)
  BY DEF Agent, Ages, SameIdentity
<1>4. ASSUME NEW s, NEW r, NEW k
      PROVE  /\ [a EXCEPT !.registers = r, !.index = k, !.state = s].child = a.child
             /\ a.kind = "MCP" /\ a.state # MCP_FINISHED
                => Ages([a EXCEPT !.registers = r, !.index = k, !.state = s], a)
  BY DEF Agent, Ages, SameIdentity
<1>5. /\ NextContributor(a).child = a.child /\ NextContributor(a).valid = a.valid
      /\ a.kind = "MCP" /\ a.state # MCP_FINISHED => Ages(NextContributor(a), a)
  BY DEF Agent, Ages, SameIdentity, NextContributor
<1>6. a.kind = "UCP" => Ages(SearchingDeeper(a), a)
  BY DEF Agent, Ages, SameIdentity, SearchingDeeper
<1> QED
  BY <1>1, <1>2, <1>3, <1>4, <1>5, <1>6

LEMMA LivesOn ==
  ASSUME AgentsTypeOK, NEW j \in Ids, agent'[j] = agent[j]
  PROVE  Lives(j)
  BY AgentParts, AgesFields DEF Lives, ChildStep, MCCStep, SearchStep, TopSearch

LEMMA LifeOfSame ==
  ASSUME AgentsTypeOK, agent' = agent
  PROVE  Life
  BY LivesOn DEF Life

LEMMA LifeOfOne ==
  ASSUME AgentsTypeOK, NEW i \in Ids, NEW e, agent' = [agent EXCEPT ![i] = e],
         Ages(e, agent[i]), e.child = agent[i].child,
         agent[i].kind = "MCC" =>
           \/ e.state = agent[i].state
           \/ /\ agent[i].state = MCC_INIT
              /\ e.state = MCC_REGISTERING \/ (e.state = MCC_FINISHED /\ ~ypUp)
           \/ agent[i].state = MCC_REGISTERING /\ e.state = MCC_IDLE
           \/ /\ agent[i].state = MCC_NEGOCIATING /\ e.state = MCC_FINISHED
              /\ ChildOf(i).success
              /\ SetItemUsed(agent[i].node, agent[i].give, FALSE),
         agent[i].kind = "MCP" => e.valid = agent[i].valid
  PROVE  Life
<1> SUFFICES ASSUME NEW j \in Ids PROVE Lives(j)
  BY DEF Life
<1>1. CASE j # i
  <2>1. agent'[j] = agent[j]
    BY <1>1 DEF AgentsTypeOK
  <2> QED
    BY <2>1, LivesOn
<1>2. CASE j = i
  <2>1. agent'[i] = e
    BY DEF AgentsTypeOK
  <2> QED
    BY <1>2, <2>1 DEF Lives, ChildStep, MCCStep, SearchStep, TopSearch
<1> QED
  BY <1>1, <1>2

LEMMA StoppedFields ==
  ASSUME AgentsTypeOK, NEW S, NEW j \in Ids
  PROVE  LET b == AfterStop(S)[j]
         IN  /\ Ages(b, agent[j])
             /\ b.child = agent[j].child /\ b.depth = agent[j].depth
             /\ b.success = agent[j].success
             /\ b.valid <=> agent[j].valid /\ j \notin DestroyedByStop(S)
             /\ b.state = IF j \in S /\ agent[j].kind = "MCC" THEN MCC_FINISHED
                          ELSE agent[j].state
<1> DEFINE v == IF j \in DestroyedByStop(S) THEN FALSE ELSE agent[j].valid
           t == IF j \in S /\ agent[j].kind = "MCC" THEN MCC_FINISHED ELSE agent[j].state
<1>1. agent[j] \in Agent
  BY AgentParts
<1>2. AfterStop(S)[j] = [agent[j] EXCEPT !.valid = v, !.state = t]
  BY DEF AfterStop
<1>3. v \in BOOLEAN /\ (v <=> agent[j].valid /\ j \notin DestroyedByStop(S))
  BY <1>1 DEF Agent
<1>4. agent[j].kind # "MCC" => t = agent[j].state
  OBVIOUS
<1> HIDE DEF v, t
<1>5. /\ AfterStop(S)[j].valid = v /\ AfterStop(S)[j].state = t
      /\ AfterStop(S)[j].child = agent[j].child /\ AfterStop(S)[j].depth = agent[j].depth
      /\ AfterStop(S)[j].success = agent[j].success
      /\ SameIdentity(AfterStop(S)[j], agent[j])
  BY <1>1, <1>2 DEF Agent, SameIdentity
<1>6. Ages(AfterStop(S)[j], agent[j])
  BY <1>1, <1>3, <1>4, <1>5 DEF Ages
<1> QED
  BY <1>3, <1>5, <1>6 DEF t

(* The stop() of an MCC destroys its UCC.                                  *)
LEMMA StoppedChild ==
  ASSUME AgentsTypeOK, NEW S, NEW j \in Ids, j \in S, agent[j].kind = "MCC",
         agent[j].child # Nobody
  PROVE  agent[j].child \in Ids /\ ~AfterStop(S)[agent[j].child].valid
<1>1. agent[j].child \in Ids
  BY AgentParts
<1>2. agent[j].child \in DestroyedByStop(S)
  BY DEF DestroyedByStop
<1> QED
  BY <1>1, <1>2, StoppedFields

(* A search the user started is destroyed by no one else's stop().         *)
LEMMA OnlyStopped ==
  ASSUME AgentsTypeOK, ChildrenTyped, NEW S \in SUBSET Ids, NEW j \in Ids, TopSearch(j),
         j \in DestroyedByStop(S)
  PROVE  j \in S
<1>1. ASSUME NEW i \in Ids PROVE agent[i].child # j
  <2>1. j # Nobody
    BY IdsArePositive
  <2>2. agent[i].kind \in {"none", "MCC", "UCC", "MCP", "UCP"}
    BY AgentParts DEF Agent
  <2> QED
    BY <2>1, <2>2 DEF TopSearch, ChildrenTyped, ChildOf
<1>2. ASSUME NEW T, j \in Below(T) PROVE j \in T
  BY <1>1, <1>2 DEF Below
<1>3. PICK i \in S : j \in IF agent[i].kind = "MCC" THEN {agent[i].child} \ {Nobody}
                                                   ELSE Search(i)
  BY DEF DestroyedByStop
<1>4. CASE j \in Search(i)
  BY <1>2, <1>4 DEF Search
<1>5. CASE j = agent[i].child
  BY <1>1, <1>5
<1> QED
  BY <1>3, <1>4, <1>5

LEMMA LifeOfStopped ==
  ASSUME AgentsTypeOK, ChildrenTyped, NEW S \in SUBSET Ids, agent' = AfterStop(S),
         \A j \in S :
           /\ agent[j].kind = "MCC" =>
                \/ agent[j].state = MCC_FINISHED
                \/ phase = "prune" /\ agent[j].state = MCC_IDLE
                \/ ClearAgents
           /\ TopSearch(j) => Answered(j)
  PROVE  Life
<1> SUFFICES ASSUME NEW j \in Ids PROVE Lives(j)
  BY DEF Life
<1>1. /\ Ages(agent'[j], agent[j]) /\ agent'[j].child = agent[j].child
      /\ agent'[j].state = IF j \in S /\ agent[j].kind = "MCC" THEN MCC_FINISHED
                           ELSE agent[j].state
  BY StoppedFields
<1>2. MCCStep(j)
  <2>1. CASE j \notin S \/ agent[j].kind # "MCC" \/ agent[j].state = MCC_FINISHED
    BY <1>1, <2>1 DEF MCCStep
  <2>2. CASE /\ j \in S /\ agent[j].kind = "MCC"
             /\ (phase = "prune" /\ agent[j].state = MCC_IDLE) \/ ClearAgents
    BY <1>1, <2>2, StoppedChild DEF MCCStep
  <2> QED
    BY <2>1, <2>2
<1>3. SearchStep(j)
  <2> SUFFICES ASSUME TopSearch(j), agent[j].valid, ~agent'[j].valid PROVE j \in S
    BY DEF SearchStep
  <2>1. j \in DestroyedByStop(S)
    BY StoppedFields
  <2> QED
    BY <2>1, OnlyStopped
<1> QED
  BY <1>1, <1>2, <1>3 DEF Lives, ChildStep

LEMMA LifeOfCreateChild ==
  ASSUME AgentsTypeOK, FreshIds, NEW i \in Ids, NEW parent \in Agent, NEW child,
         CreateChild(i, parent, child), Ages(parent, agent[i]),
         child.kind # "none", child.state = 0, ~child.success, child.child = Nobody,
         \/ /\ Is(i, "MCC", MCC_IDLE) /\ parent.state = MCC_NEGOCIATING /\ child.kind = "UCC"
            /\ SetItemUsed(agent[i].node, agent[i].give, TRUE)
         \/ agent[i].kind = "MCP" /\ child.kind = "UCP" /\ parent.valid = agent[i].valid
         \/ agent[i].kind = "UCP" /\ child.kind = "MCP" /\ child.depth > 0
  PROVE  Life
<1>1. nextId \in Ids /\ agent[nextId].kind = "none"
  BY IdsArePositive DEF CreateChild, AddAgent, FreshIds
<1>2. nextId # i
  BY <1>1 DEF Is
<1>3. /\ agent'[nextId] = child
      /\ agent'[i] = [parent EXCEPT !.child = nextId]
      /\ \A j \in Ids : j # i /\ j # nextId => agent'[j] = agent[j]
  BY <1>1, <1>2 DEF CreateChild
<1>4. Born(nextId)
  BY <1>1, <1>3 DEF Born, CreateChild, AddAgent
<1>5. Lives(i)
  <2>1. agent'[i].child = nextId /\ agent'[i].state = parent.state /\ agent'[i].valid = parent.valid
        /\ agent'[i].depth = parent.depth /\ agent'[i].success = parent.success
        /\ SameIdentity(agent'[i], parent)
    BY <1>3 DEF Agent, SameIdentity
  <2>2. Ages(agent'[i], agent[i])
    BY <2>1 DEF Ages, SameIdentity
  <2>3. ChildStep(i)
    BY <1>1, <1>3, <2>1 DEF ChildStep, Is
  <2>4. MCCStep(i)
    BY <1>1, <2>1 DEF MCCStep, Is
  <2>5. SearchStep(i)
    BY <2>1 DEF SearchStep, TopSearch, Is
  <2> QED
    BY <2>2, <2>3, <2>4, <2>5 DEF Lives
<1> SUFFICES ASSUME NEW j \in Ids, j # i, j # nextId PROVE Lives(j)
  BY <1>4, <1>5 DEF Life
<1> QED
  BY <1>3, LivesOn

LEMMA LifeOfContributorUpdate ==
  ASSUME AgentsTypeOK, ChildrenTyped, NEW i \in Ids, ContributorUpdate(i)
  PROVE  Life
<1>0. agent \in [Ids -> Agent] /\ agent[i] \in Agent /\ agent[i].child \in Ids \cup {Nobody}
  BY AgentParts
<1>1. CASE MCCRegister(i)
  <2>1. PICK s : /\ agent' = [agent EXCEPT ![i] = [@ EXCEPT !.state = s]]
                 /\ s = MCC_REGISTERING \/ (s = MCC_FINISHED /\ ~ypUp)
    BY <1>1 DEF MCCRegister
  <2>2. agent[i].kind = "MCC" /\ agent[i].state = MCC_INIT
    BY <1>1 DEF MCCRegister, Is
  <2> DEFINE e == [agent[i] EXCEPT !.state = s]
  <2>3. Ages(e, agent[i]) /\ e.child = agent[i].child
    BY <1>0, <2>2, AgesFields
  <2>4. e.state = s
    BY <1>0, AgentFields
  <2> HIDE DEF e
  <2> QED
    BY <2>1, <2>2, <2>3, <2>4, LifeOfOne DEF e
<1>2. CASE MCCConclude(i) /\ agent[agent[i].child].success
  <2>1. agent' = [agent EXCEPT ![i] = [@ EXCEPT !.state = MCC_FINISHED]]
    BY <1>2 DEF MCCConclude
  <2>2. /\ agent[i].kind = "MCC" /\ agent[i].state = MCC_NEGOCIATING /\ ChildOf(i).success
        /\ SetItemUsed(agent[i].node, agent[i].give, FALSE)
    BY <1>2 DEF MCCConclude, UCCHasResult, Is, ChildOf
  <2> DEFINE e == [agent[i] EXCEPT !.state = MCC_FINISHED]
  <2>3. Ages(e, agent[i]) /\ e.child = agent[i].child
    BY <1>0, <2>2, AgesFields
  <2>4. e.state = MCC_FINISHED
    BY <1>0, AgentFields
  <2> HIDE DEF e
  <2> QED
    BY <2>1, <2>2, <2>3, <2>4, LifeOfOne DEF e
<1>3. CASE MCCConclude(i) /\ ~agent[agent[i].child].success
  <2> DEFINE ucc == agent[i].child
             a == [agent[ucc] EXCEPT !.valid = FALSE]
             e == [agent[i] EXCEPT !.state = MCC_IDLE]
  <2>1. /\ agent[i].kind = "MCC" /\ agent[i].state = MCC_NEGOCIATING
        /\ ucc \in Ids /\ agent[ucc].kind = "UCC"
        /\ ucc = agent[i].child /\ Refused(agent[i].child)
        /\ SetItemUsed(agent[i].node, agent[i].give, FALSE)
    BY <1>0, <1>3 DEF MCCConclude, UCCHasResult, Is, ChildrenTyped, ChildOf, Refused
  <2>2. agent' = [[agent EXCEPT ![ucc].valid = FALSE] EXCEPT ![i].state = MCC_IDLE]
    BY <1>3 DEF MCCConclude
  <2>3. i # ucc
    BY <2>1
  <2>4. /\ agent'[ucc] = a /\ agent'[i] = e
        /\ \A j \in Ids : j # i /\ j # ucc => agent'[j] = agent[j]
    BY <1>0, <2>1, <2>2, <2>3
  <2>5. Ages(a, agent[ucc]) /\ a.child = agent[ucc].child
    BY <2>1, AgentParts, AgesFields
  <2>6. Ages(e, agent[i]) /\ e.child = agent[i].child
    BY <1>0, <2>1, AgesFields
  <2>7. e.state = MCC_IDLE
    BY <1>0, AgentFields
  <2> HIDE DEF ucc, a, e
  <2> SUFFICES ASSUME NEW j \in Ids PROVE Lives(j)
    BY DEF Life
  <2>8. CASE j = ucc
    BY <2>1, <2>4, <2>5, <2>8 DEF Lives, ChildStep, MCCStep, SearchStep, TopSearch
  <2>9. CASE j = i
    BY <2>1, <2>4, <2>6, <2>7, <2>9 DEF Lives, ChildStep, MCCStep, SearchStep, TopSearch
  <2>10. CASE j # ucc /\ j # i
    BY <2>4, <2>10, LivesOn
  <2> QED
    BY <2>8, <2>9, <2>10
<1>4. CASE MCCDestroy(i)
  <2>1. agent' = [agent EXCEPT ![i] = [@ EXCEPT !.valid = FALSE]]
    BY <1>4 DEF MCCDestroy
  <2> DEFINE e == [agent[i] EXCEPT !.valid = FALSE]
  <2>2. Ages(e, agent[i]) /\ e.child = agent[i].child /\ e.state = agent[i].state
    BY <1>0, AgesFields, AgentFields
  <2>3. agent[i].kind = "MCC"
    BY <1>4 DEF MCCDestroy, Is
  <2> HIDE DEF e
  <2> QED
    BY <2>1, <2>2, <2>3, LifeOfOne DEF e
<1>5. CASE UCCStart(i)
  <2>1. agent' = [agent EXCEPT ![i] = [@ EXCEPT !.state = UCC_WAITING_REQUEST]]
    BY <1>5 DEF UCCStart
  <2>2. agent[i].kind = "UCC" /\ agent[i].state # UCC_FINISHED /\ ~agent[i].success
    BY <1>5 DEF UCCStart, Is, ChildrenTyped, UCC_INIT, UCC_FINISHED
  <2> DEFINE e == [agent[i] EXCEPT !.state = UCC_WAITING_REQUEST]
  <2>3. Ages(e, agent[i]) /\ e.child = agent[i].child
    BY <1>0, <2>2, AgesFields
  <2> HIDE DEF e
  <2> QED
    BY <2>1, <2>2, <2>3, LifeOfOne DEF e
<1> QED
  BY <1>1, <1>2, <1>3, <1>4, <1>5 DEF ContributorUpdate

LEMMA AgesTransitive ==
  ASSUME NEW a, NEW b, NEW c, Ages(b, a), Ages(c, b)
  PROVE  Ages(c, a)
  BY DEF Ages, SameIdentity

LEMMA LifeOfPetitionerUpdate ==
  ASSUME AgentsTypeOK, ChildrenTyped, NEW i \in Ids, PetitionerUpdate(i)
  PROVE  Life
<1>0. agent \in [Ids -> Agent] /\ agent[i] \in Agent /\ agent[i].child \in Ids \cup {Nobody}
  BY AgentParts
<1>a. /\ agent[i].kind \in {"MCP", "UCP"}
      /\ agent[i].kind = "MCP" => agent[i].state # MCP_FINISHED
  BY DEF PetitionerUpdate, MCPQuery, MCPIterate, MCPConclude, UCPHasResult, UCPStart,
     UCPConclude, Is, MCP_INIT, MCP_ITERATING_OVER_MCCs, MCP_NEGOCIATING_UCP_RES, MCP_FINISHED
<1>1. CASE MCPQuery(i) \/ MCPIterate(i) \/ UCPStart(i)
  <2>1. PICK s : agent' = [agent EXCEPT ![i] = [@ EXCEPT !.state = s]]
    BY <1>1 DEF MCPQuery, MCPIterate, UCPStart
  <2> DEFINE e == [agent[i] EXCEPT !.state = s]
  <2>2. Ages(e, agent[i]) /\ e.child = agent[i].child /\ e.valid = agent[i].valid
    BY <1>0, <1>a, AgesFields
  <2> HIDE DEF e
  <2> QED
    BY <1>a, <2>1, <2>2, LifeOfOne DEF e
<1>2. CASE UCPConclude(i) \/ (MCPConclude(i) /\ agent[agent[i].child].success)
  <2>1. PICK b \in BOOLEAN, s \in {UCP_FINISHED, MCP_FINISHED} :
          agent' = [agent EXCEPT ![i] = [@ EXCEPT !.success = b, !.state = s]]
    BY <1>2 DEF UCPConclude, MCPConclude
  <2> DEFINE e == [agent[i] EXCEPT !.success = b, !.state = s]
  <2>2. Ages(e, agent[i]) /\ e.child = agent[i].child /\ e.valid = agent[i].valid
    <3>1. \A q \in Agent :
            /\ (q.kind = "MCP" => q.state # MCP_FINISHED) /\ q.kind # "UCC"
               => Ages([q EXCEPT !.success = b, !.state = s], q)
            /\ [q EXCEPT !.success = b, !.state = s].child = q.child
            /\ [q EXCEPT !.success = b, !.state = s].valid = q.valid
      BY AgesFields
    <3> QED
      BY <1>0, <1>a, <3>1
  <2> HIDE DEF e
  <2> QED
    BY <1>a, <2>1, <2>2, LifeOfOne DEF e
<1>3. CASE MCPConclude(i) /\ ~agent[agent[i].child].success
  <2>1. agent[i].kind = "MCP" /\ agent[i].child \in Ids /\ agent[agent[i].child].kind = "UCP"
    BY <1>0, <1>3 DEF MCPConclude, UCPHasResult, Is, ChildrenTyped, ChildOf
  <2>2. PICK f \in [Ids -> Agent] : f = AfterStop({agent[i].child})
    BY <1>0, AfterStopType
  <2>3. agent' = [f EXCEPT ![i] = NextContributor(@)]
    BY <1>3, <2>2 DEF MCPConclude
  <2>4. ASSUME NEW j \in Ids
        PROVE  /\ Ages(f[j], agent[j]) /\ f[j].child = agent[j].child
               /\ f[j].state = agent[j].state
               /\ TopSearch(j) => (f[j].valid <=> agent[j].valid)
    <3>1. /\ Ages(f[j], agent[j]) /\ f[j].child = agent[j].child
          /\ f[j].state = agent[j].state
          /\ f[j].valid <=> agent[j].valid /\ j \notin DestroyedByStop({agent[i].child})
      BY <2>1, <2>2, StoppedFields
    <3>2. TopSearch(j) => j \notin DestroyedByStop({agent[i].child})
      BY <2>1, OnlyStopped DEF TopSearch
    <3> QED
      BY <3>1, <3>2
  <2> SUFFICES ASSUME NEW j \in Ids PROVE Lives(j)
    BY DEF Life
  <2>5. CASE j # i
    <3>1. agent'[j] = f[j]
      BY <2>3, <2>5
    <3> QED
      BY <2>4, <3>1 DEF Lives, ChildStep, MCCStep, SearchStep, TopSearch
  <2>6. CASE j = i
    <3>1. agent'[i] = NextContributor(f[i])
      BY <2>3
    <3>2. f[i].kind = "MCP" /\ f[i].state # MCP_FINISHED
      BY <1>a, <2>1, <2>4 DEF Ages, SameIdentity
    <3>3. Ages(agent'[i], f[i]) /\ agent'[i].child = f[i].child /\ agent'[i].valid = f[i].valid
      BY <3>1, <3>2, AgesFields
    <3>4. Ages(agent'[i], agent[i]) /\ agent'[i].child = agent[i].child
      BY <2>4, <3>3, AgesTransitive
    <3> QED
      BY <2>1, <2>4, <2>6, <3>3, <3>4 DEF Lives, ChildStep, MCCStep, SearchStep, TopSearch
  <2> QED
    BY <2>5, <2>6
<1> QED
  BY <1>1, <1>2, <1>3 DEF PetitionerUpdate

LEMMA LifeOfContributorReceive ==
  ASSUME AgentsTypeOK, FreshIds, ChildrenTyped, NEW m \in msgs, m.dst \in Ids,
         ContributorReceive(m)
  PROVE  Life
<1>0. agent \in [Ids -> Agent] /\ agent[m.dst] \in Agent /\ m \in Packet
  BY AgentParts DEF AgentsTypeOK
<1>1. CASE ReceiveRegisterAck(m)
  <2>1. /\ agent' = [agent EXCEPT ![m.dst] = [@ EXCEPT !.state = MCC_IDLE]]
        /\ agent[m.dst].kind = "MCC" /\ agent[m.dst].state = MCC_REGISTERING
    BY <1>1 DEF ReceiveRegisterAck, Is
  <2> DEFINE e == [agent[m.dst] EXCEPT !.state = MCC_IDLE]
  <2>2. Ages(e, agent[m.dst]) /\ e.child = agent[m.dst].child
    BY <1>0, <2>1, AgesFields
  <2>3. e.state = MCC_IDLE
    BY <1>0, AgentFields
  <2> HIDE DEF e
  <2> QED
    BY <2>1, <2>2, <2>3, LifeOfOne DEF e
<1>2. CASE ReceiveItemRequest(m)
  <2>1. /\ agent' = [agent EXCEPT ![m.dst] = [@ EXCEPT !.state = UCC_WAITING_CONSTRAINT]]
        /\ agent[m.dst].kind = "UCC" /\ agent[m.dst].state # UCC_FINISHED
        /\ ~agent[m.dst].success
    BY <1>2 DEF ReceiveItemRequest, Is, ChildrenTyped, UCC_WAITING_REQUEST, UCC_FINISHED
  <2> DEFINE e == [agent[m.dst] EXCEPT !.state = UCC_WAITING_CONSTRAINT]
  <2>2. Ages(e, agent[m.dst]) /\ e.child = agent[m.dst].child
    BY <1>0, <2>1, AgesFields
  <2> HIDE DEF e
  <2> QED
    BY <2>1, <2>2, LifeOfOne DEF e
<1>3. CASE ReceiveConstraintAcceptance(m)
  <2>1. /\ agent' = [agent EXCEPT ![m.dst] =
                       [@ EXCEPT !.success = m.accepted, !.state = UCC_FINISHED]]
        /\ agent[m.dst].kind = "UCC" /\ agent[m.dst].state # UCC_FINISHED
    BY <1>3 DEF ReceiveConstraintAcceptance, Is, UCC_WAITING_CONSTRAINT, UCC_FINISHED
  <2>2. m.accepted \in BOOLEAN
    BY <1>0, <1>3, PacketParts DEF ReceiveConstraintAcceptance
  <2> DEFINE e == [agent[m.dst] EXCEPT !.success = m.accepted, !.state = UCC_FINISHED]
  <2>3. Ages(e, agent[m.dst]) /\ e.child = agent[m.dst].child
    BY <1>0, <2>1, <2>2, AgesFields
  <2> HIDE DEF e
  <2> QED
    BY <2>1, <2>3, LifeOfOne DEF e
<1>4. CASE ReceiveNegotiationRequest(m)
  <2>1. CASE NegotiationRequestBusy(m) \/ NegotiationRequestUsed(m)
    BY <2>1, LifeOfSame DEF NegotiationRequestBusy, NegotiationRequestUsed
  <2>2. CASE NegotiationRequestAccepted(m)
    <3> DEFINE mcc == agent[m.dst]
               parent == [mcc EXCEPT !.state = MCC_NEGOCIATING]
               child == NewUCC(mcc.node, mcc.give, mcc.want)
    <3>1. /\ Is(m.dst, "MCC", MCC_IDLE) /\ CreateChild(m.dst, parent, child)
          /\ SetItemUsed(agent[m.dst].node, agent[m.dst].give, TRUE)
      BY <1>4, <2>2 DEF ReceiveNegotiationRequest, NegotiationRequestAccepted, Is
    <3>2. parent \in Agent /\ Ages(parent, mcc) /\ parent.state = MCC_NEGOCIATING
      <4>1. parent \in Agent
        <5>1. MCC_NEGOCIATING \in 0..5
          BY DEF MCC_NEGOCIATING
        <5> QED
          BY <1>0, <5>1, AgentWith
      <4>2. mcc.kind = "MCC"
        BY <3>1 DEF Is
      <4>3. Ages(parent, mcc)
        BY <1>0, <4>2, AgesFields
      <4>4. parent.state = MCC_NEGOCIATING
        BY <1>0, AgentFields
      <4> QED
        BY <4>1, <4>3, <4>4
    <3>3. child.kind = "UCC" /\ child.state = 0 /\ ~child.success /\ child.child = Nobody
      BY DEF NewUCC, NewAgent
    <3> HIDE DEF parent, child
    <3> QED
      BY <3>1, <3>2, <3>3, LifeOfCreateChild
  <2> QED
    BY <1>4, <2>1, <2>2 DEF ReceiveNegotiationRequest
<1> QED
  BY <1>1, <1>2, <1>3, <1>4 DEF ContributorReceive

LEMMA LifeOfPetitionerReceive ==
  ASSUME AgentsTypeOK, FreshIds, ChildrenTyped, NEW m \in msgs, m.dst \in Ids,
         PetitionerReceive(m)
  PROVE  Life
<1>0. /\ agent \in [Ids -> Agent] /\ agent[m.dst] \in Agent
      /\ agent[m.dst].depth \in 0..MaxSearchDepth
  BY AgentParts
<1>1. CASE ReceiveMCCsForItem(m)
  <2>1. PICK s, r, k : agent' = [agent EXCEPT ![m.dst] =
                                  [@ EXCEPT !.registers = r, !.index = k, !.state = s]]
    BY <1>1 DEF ReceiveMCCsForItem
  <2>2. agent[m.dst].kind = "MCP" /\ agent[m.dst].state # MCP_FINISHED
    BY <1>1 DEF ReceiveMCCsForItem, Is, MCP_REQUESTING_MCCs, MCP_FINISHED
  <2> DEFINE e == [agent[m.dst] EXCEPT !.registers = r, !.index = k, !.state = s]
  <2>3. /\ Ages(e, agent[m.dst])
        /\ e.child = agent[m.dst].child /\ e.valid = agent[m.dst].valid
    <3>1. PICK a \in Agent : a = agent[m.dst]
      BY <1>0
    <3>2. e = [a EXCEPT !.registers = r, !.index = k, !.state = s]
      BY <3>1
    <3>3. a.kind = "MCP" /\ a.state # MCP_FINISHED
      BY <2>2, <3>1
    <3>4. Ages([a EXCEPT !.registers = r, !.index = k, !.state = s], a)
      BY <3>3, AgesFields
    <3>5. /\ [a EXCEPT !.registers = r, !.index = k, !.state = s].child = a.child
          /\ [a EXCEPT !.registers = r, !.index = k, !.state = s].valid = a.valid
      BY DEF Agent
    <3> QED
      BY <3>1, <3>2, <3>4, <3>5
  <2> HIDE DEF e
  <2> QED
    BY <2>1, <2>2, <2>3, LifeOfOne DEF e
<1>2. CASE ReceiveNegotiationResult(m)
  <2>0. agent[m.dst].kind = "MCP" /\ agent[m.dst].state # MCP_FINISHED
    BY <1>2 DEF ReceiveNegotiationResult, Is, MCP_WAIT_ACCEPTANCE, MCP_FINISHED
  <2>1. CASE ~m.available
    <3>1. agent' = [agent EXCEPT ![m.dst] = NextContributor(@)]
      BY <1>2, <2>1 DEF ReceiveNegotiationResult
    <3>2. /\ Ages(NextContributor(agent[m.dst]), agent[m.dst])
          /\ NextContributor(agent[m.dst]).child = agent[m.dst].child
          /\ NextContributor(agent[m.dst]).valid = agent[m.dst].valid
      BY <1>0, <2>0, AgesFields
    <3> QED
      BY <2>0, <3>1, <3>2, LifeOfOne
  <2>2. CASE m.available
    <3> DEFINE mcp == agent[m.dst]
               parent == [mcp EXCEPT !.state = MCP_NEGOCIATING_UCP_RES]
               child == NewUCP(mcp.want, mcp.give, m.location, mcp.depth)
    <3>1. parent \in Agent /\ Ages(parent, mcp) /\ parent.valid = mcp.valid
      <4>1. MCP_NEGOCIATING_UCP_RES \in 0..5
        BY DEF MCP_NEGOCIATING_UCP_RES
      <4>2. parent \in Agent
        BY <1>0, <4>1, AgentWith
      <4> QED
        BY <1>0, <2>0, <4>2, AgesFields
    <3>2. child.kind = "UCP" /\ child.state = 0 /\ ~child.success /\ child.child = Nobody
      BY DEF NewUCP, NewAgent
    <3>3. CreateChild(m.dst, parent, child)
      BY <1>2, <2>2 DEF ReceiveNegotiationResult
    <3> HIDE DEF parent, child
    <3> QED
      BY <2>0, <3>1, <3>2, <3>3, LifeOfCreateChild
  <2> QED
    BY <2>1, <2>2
<1>3. CASE ReceiveConstraintRequest(m)
  <2>0. agent[m.dst].kind = "UCP"
    BY <1>3 DEF ReceiveConstraintRequest, Is
  <2>1. CASE ConstraintMet(m)
    <3> DEFINE e == [agent[m.dst] EXCEPT !.success = TRUE, !.state = UCP_FINISHED]
    <3>1. agent' = [agent EXCEPT ![m.dst] = e]
      BY <2>1 DEF ConstraintMet
    <3>2. Ages(e, agent[m.dst]) /\ e.child = agent[m.dst].child
      BY <1>0, <2>0, AgesFields
    <3> HIDE DEF e
    <3> QED
      BY <2>0, <3>1, <3>2, LifeOfOne
  <2>2. CASE ConstraintTooDeep(m)
    <3> DEFINE e == [agent[m.dst] EXCEPT !.state = UCP_FINISHED]
    <3>1. agent' = [agent EXCEPT ![m.dst] = e]
      BY <2>2 DEF ConstraintTooDeep
    <3>2. Ages(e, agent[m.dst]) /\ e.child = agent[m.dst].child
      BY <1>0, <2>0, AgesFields
    <3> HIDE DEF e
    <3> QED
      BY <2>0, <3>1, <3>2, LifeOfOne
  <2>3. CASE agent[m.dst].depth # MaxSearchDepth /\ ConstraintSearched(m)
    <3> DEFINE ucp == agent[m.dst]
               parent == SearchingDeeper(ucp)
               child == NewMCP(ScratchNode, m.item, ucp.give, ucp.depth + 1)
    <3>1. parent \in Agent /\ Ages(parent, ucp)
      BY <1>0, <2>0, <2>3, SearchingDeeperType, AgesFields
    <3>2. /\ child.kind = "MCP" /\ child.state = 0 /\ ~child.success /\ child.child = Nobody
          /\ child.depth = ucp.depth + 1
      BY DEF NewMCP, NewAgent
    <3>3. child.depth > 0
      BY <1>0, <3>2 DEF MaxSearchDepth
    <3>4. CreateChild(m.dst, parent, child)
      BY <2>3 DEF ConstraintSearched
    <3> HIDE DEF parent, child
    <3> QED
      BY <2>0, <3>1, <3>2, <3>3, <3>4, LifeOfCreateChild
  <2> QED
    BY <1>3, <2>1, <2>2, <2>3 DEF ReceiveConstraintRequest
<1> QED
  BY <1>1, <1>2, <1>3 DEF PetitionerReceive

LEMMA LifeOfUser ==
  ASSUME TypeOK, FreshIds, ChildrenTyped, PayerAsked, User
  PROVE  Life
<1>0. AgentsTypeOK /\ agent \in [Ids -> Agent]
  BY DEF TypeOK, AgentsTypeOK
<1>1. CASE CreateMCCs
  <2> SUFFICES ASSUME NEW j \in Ids PROVE Born(j) \/ Lives(j)
    BY DEF Life
  <2> DEFINE new == {OfferId(o) : o \in Offers}
  <2>1. CASE j \in new
    <3>1. \E n, x, y : agent'[j] = NewMCC(n, x, y)
      BY <1>1, <2>1 DEF CreateMCCs
    <3>2. \A n, x, y : LET a == NewMCC(n, x, y)
                       IN  /\ a.kind = "MCC" /\ a.state = 0 /\ ~a.success
                           /\ a.child = Nobody
      BY DEF NewMCC, NewAgent
    <3>3. agent[j].kind = "none"
      <4>1. PICK o \in Offers : j = OfferId(o)
        BY <2>1
      <4>2. j \in nextId..(nextId + Cardinality(Offers) - 1)
        BY <1>0, <4>1, OfferIdType, MaxAgentsAssumption
        DEF TypeOK, AgentsTypeOK, ItemListsTypeOK
      <4>3. j >= nextId
        BY <4>2
      <4> QED
        BY <4>3 DEF FreshIds
    <3>4. j \in pending'
      BY <1>1, <2>1 DEF CreateMCCs
    <3> QED
      BY <3>1, <3>2, <3>3, <3>4 DEF Born
  <2>2. CASE j \notin new
    <3>1. agent'[j] = agent[j]
      BY <1>1, <2>2 DEF CreateMCCs
    <3> QED
      BY <1>0, <3>1, LivesOn
  <2> QED
    BY <2>1, <2>2
<1>2. CASE ClearAgents
  <2>1. present \in SUBSET Ids /\ agent' = AfterStop(present)
    BY <1>0, <1>2 DEF ClearAgents, AgentsTypeOK
  <2> QED
    BY <1>0, <1>2, <2>1, LifeOfStopped DEF Answered
<1>5. ASSUME NEW yes \in BOOLEAN, Pay(yes) PROVE Life
  <2>1. payer \in Ids /\ payer' = Nobody /\ agent' = AfterStop({payer})
    BY <1>5 DEF Pay, TypeOK
  <2>2. agent[payer].kind = "MCP"
    BY <2>1, IdsArePositive DEF PayerAsked, MCPFinished, Is
  <2> QED
    BY <1>0, <2>1, <2>2, LifeOfStopped DEF Answered
<1>3. ASSUME NEW n \in Nodes, NEW want \in Items, NEW give \in Items, SpawnMCP(n, want, give)
      PROVE  Life
  <2>1. agent' = [agent EXCEPT ![nextId] = NewMCP(n, want, give, 0)] /\ nextId \in Ids
    BY <1>3 DEF SpawnMCP, AddAgent
  <2>2. Born(nextId)
    <3>1. LET a == NewMCP(n, want, give, 0)
          IN  a.kind = "MCP" /\ a.state = 0 /\ ~a.success /\ a.child = Nobody
      BY DEF NewMCP, NewAgent
    <3>2. agent[nextId].kind = "none"
      BY <2>1, IdsArePositive DEF FreshIds
    <3>3. agent'[nextId] = NewMCP(n, want, give, 0)
      BY <1>0, <2>1
    <3>4. nextId \in pending'
      BY <1>3 DEF SpawnMCP, AddAgent
    <3> QED
      BY <3>1, <3>2, <3>3, <3>4 DEF Born
  <2>3. ASSUME NEW j \in Ids, j # nextId PROVE Lives(j)
    <3>1. agent'[j] = agent[j]
      BY <1>0, <2>1, <2>3
    <3> QED
      BY <1>0, <3>1, LivesOn
  <2> QED
    BY <2>2, <2>3 DEF Life
<1>4. CASE PayFreed \/ \E n \in Nodes, x \in Items : Sell(n, x)
  BY <1>0, <1>4, LifeOfSame DEF PayFreed, Sell, agentVars
<1> QED
  BY <1>1, <1>2, <1>3, <1>4, <1>5 DEF User

(* Every step but the end of the process is a step of the lives of agents. *)
LEMMA LifeStep ==
  ASSUME TypeOK, FreshIds, ChildrenTyped, PayerAsked, [Next]_vars, ~CloseCluster, ~KillCluster
  PROVE  Life
<1>0. AgentsTypeOK
  BY DEF TypeOK
<1>1. ASSUME NEW i \in Ids, UpdateAgent(i) PROVE Life
  BY <1>0, <1>1, LifeOfContributorUpdate, LifeOfPetitionerUpdate DEF UpdateAgent
<1>2. ASSUME NEW i \in Ids, ExchangeAgent(i) \/ PruneAgent(i) PROVE Life
  <2>1. \/ agent' = agent
        \/ /\ agent' = AfterStop({i})
           /\ agent[i].kind = "MCC" =>
                agent[i].state = MCC_FINISHED \/ (phase = "prune" /\ agent[i].state = MCC_IDLE)
           /\ agent[i].kind = "MCP" => agent[i].success /\ ExchangeAgent(i)
    BY <1>2
    DEF ExchangeAgent, MCCExchange, MCPExchange, MCPFinished, AskPayment, Abort, PruneAgent,
        PruneActs, Visit, Is, agentVars
  <2>2. CASE agent' = agent
    BY <1>0, <2>2, LifeOfSame
  <2>3. CASE agent' # agent
    <3>1. \A j \in {i} :
            /\ agent[j].kind = "MCC" =>
                 \/ agent[j].state = MCC_FINISHED
                 \/ phase = "prune" /\ agent[j].state = MCC_IDLE
                 \/ ClearAgents
            /\ TopSearch(j) => Answered(j)
      BY <2>1, <2>3 DEF TopSearch, Answered
    <3> QED
      BY <1>0, <2>1, <2>3, <3>1, LifeOfStopped
  <2> QED
    BY <2>2, <2>3
<1>3. CASE Deliver
  <2>1. PICK m \in {p \in msgs : p.type \notin ToYellowPages} :
          \/ m.dst \in Reachable /\ (ContributorReceive(m) \/ PetitionerReceive(m))
          \/ Discard(m)
    BY <1>3 DEF Deliver
  <2>2. m.dst \in Ids
    BY <1>0, <2>1, PacketParts DEF AgentsTypeOK
  <2>3. CASE Discard(m)
    BY <1>0, <2>3, LifeOfSame DEF Discard
  <2> QED
    BY <1>0, <2>1, <2>2, <2>3, LifeOfContributorReceive, LifeOfPetitionerReceive
<1>4. CASE \/ UpdateEnds \/ ExchangeEnds \/ PruneEnds \/ NoClick \/ FrameEnds \/ YellowPages
           \/ YellowPagesEnds \/ YellowPagesStarts \/ StartCluster \/ UNCHANGED vars
  <2>1. agent' = agent
    BY <1>4
    DEF UpdateEnds, ExchangeEnds, PruneEnds, LoopEnds, NoClick, FrameEnds, YellowPages,
        YellowPagesEnds, YellowPagesStarts, StartCluster, vars, agentVars
  <2> QED
    BY <1>0, <2>1, LifeOfSame
<1> QED
  BY <1>1, <1>2, <1>3, <1>4, LifeOfUser DEF Next, Loops, Faults

-----------------------------------------------------------------------------
(* Children and the payment request.                                       *)

LEMMA NobodyBornChildren ==
  ASSUME agent = [i \in Ids |-> NoAgent]
  PROVE  ChildrenTyped
<1>1. NoAgent.kind = "none" /\ NoAgent.child = Nobody
  BY DEF NoAgent, NewAgent
<1> QED
  BY <1>1 DEF ChildrenTyped, Is

LEMMA ChildrenKept ==
  ASSUME AgentsTypeOK, AgentsTypeOK', ChildrenTyped, Life
  PROVE  ChildrenTyped'
<1> SUFFICES ASSUME NEW i \in Ids
             PROVE  /\ agent'[i].kind \in {"none", "UCC"} => agent'[i].child = Nobody
                    /\ agent'[i].child # Nobody =>
                         LET c == agent'[agent'[i].child]
                         IN  /\ agent'[i].kind = "MCC" => c.kind = "UCC"
                             /\ agent'[i].kind = "MCP" => c.kind = "UCP"
                             /\ agent'[i].kind = "UCP" => c.kind = "MCP" /\ c.depth > 0
                    /\ /\ agent'[i].kind = "MCC"
                       /\ agent'[i].state = MCC_INIT \/ agent'[i].state = MCC_REGISTERING
                       => agent'[i].child = Nobody
                    /\ /\ agent'[i].kind = "MCC" /\ agent'[i].state = MCC_IDLE
                       /\ agent'[i].child # Nobody
                       => Refused(agent[i].child)'
                    /\ agent'[i].kind = "MCC" /\ agent'[i].state = MCC_NEGOCIATING =>
                         agent'[i].child # Nobody
                    /\ agent'[i].kind = "UCC" /\ agent'[i].success =>
                         agent'[i].state = UCC_FINISHED
  BY DEF ChildrenTyped, ChildOf, Is
<1>1. CASE Born(i)
  BY <1>1 DEF Born, MCC_NEGOCIATING
<1>a. /\ MCC_INIT \notin {MCC_REGISTERING, MCC_IDLE, MCC_NEGOCIATING, MCC_FINISHED}
      /\ MCC_REGISTERING \notin {MCC_IDLE, MCC_NEGOCIATING, MCC_FINISHED}
      /\ MCC_IDLE \notin {MCC_NEGOCIATING, MCC_FINISHED}
  BY DEF MCC_INIT, MCC_REGISTERING, MCC_IDLE, MCC_NEGOCIATING, MCC_FINISHED
<1>2. CASE Lives(i)
  <2>1. Ages(agent'[i], agent[i]) /\ ChildStep(i) /\ MCCStep(i)
    BY <1>2 DEF Lives
  <2>2. agent'[i].kind = agent[i].kind
    BY <2>1 DEF Ages, SameIdentity
  <2>3. agent'[i].kind \in {"none", "UCC"} => agent'[i].child = Nobody
    BY <2>1, <2>2 DEF ChildStep, ChildrenTyped
  <2>4. ASSUME agent'[i].child # Nobody
        PROVE  LET c == agent'[agent'[i].child]
               IN  /\ agent'[i].kind = "MCC" => c.kind = "UCC"
                   /\ agent'[i].kind = "MCP" => c.kind = "UCP"
                   /\ agent'[i].kind = "UCP" => c.kind = "MCP" /\ c.depth > 0
    <3>1. CASE agent'[i].child = agent[i].child /\ agent[i].kind \in {"MCC", "MCP", "UCP"}
      <4> DEFINE c == agent[i].child
      <4>1. c \in Ids
        BY <2>4, <3>1, AgentParts
      <4>2. /\ agent[i].kind = "MCC" => agent[c].kind = "UCC"
            /\ agent[i].kind = "MCP" => agent[c].kind = "UCP"
            /\ agent[i].kind = "UCP" => agent[c].kind = "MCP" /\ agent[c].depth > 0
        BY <2>4, <3>1 DEF ChildrenTyped, ChildOf
      <4>3. Ages(agent'[c], agent[c])
        BY <3>1, <4>1, <4>2 DEF Life, Born, Lives
      <4> QED
        BY <2>2, <3>1, <4>2, <4>3 DEF Ages, SameIdentity
    <3>2. CASE agent'[i].child # agent[i].child
      BY <2>1, <2>2, <3>2 DEF ChildStep
    <3>3. agent[i].kind \in {"none", "MCC", "UCC", "MCP", "UCP"}
      BY AgentParts DEF Agent
    <3> QED
      BY <2>2, <2>3, <2>4, <3>1, <3>2, <3>3
  <2>5. /\ agent'[i].kind = "MCC"
        /\ agent'[i].state = MCC_INIT \/ agent'[i].state = MCC_REGISTERING
        => agent'[i].child = Nobody
    <3>1. ASSUME agent'[i].kind = "MCC",
                 agent'[i].state = MCC_INIT \/ agent'[i].state = MCC_REGISTERING
          PROVE  /\ agent[i].state = MCC_INIT \/ agent[i].state = MCC_REGISTERING
                 /\ agent'[i].child = agent[i].child
      BY <1>a, <2>1, <2>2, <3>1 DEF MCCStep
    <3> QED
      BY <2>2, <3>1 DEF ChildrenTyped, Is
  <2>8. ASSUME agent'[i].kind = "MCC", agent'[i].state = MCC_IDLE, agent'[i].child # Nobody
        PROVE  Refused(agent[i].child)'
    <3> DEFINE c == agent[i].child
    <3>1. /\ agent[i].kind = "MCC" /\ agent'[i].child = c
          /\ agent[i].state = MCC_IDLE \/ agent[i].state = MCC_REGISTERING \/ Refused(c)
      BY <1>a, <2>1, <2>2, <2>8 DEF MCCStep
    <3>2. c \in Ids /\ agent[c].kind = "UCC" /\ Refused(c)
      BY <2>8, <3>1, AgentParts DEF ChildrenTyped, ChildOf, Is
    <3>3. Ages(agent'[c], agent[c])
      BY <3>2 DEF Life, Born, Lives
    <3> QED
      BY <3>1, <3>2, <3>3 DEF Ages, Refused
  <2>6. agent'[i].kind = "MCC" /\ agent'[i].state = MCC_NEGOCIATING => agent'[i].child # Nobody
    <3>1. ASSUME agent'[i].kind = "MCC", agent'[i].state = MCC_NEGOCIATING
          PROVE  \/ agent[i].state = MCC_NEGOCIATING /\ agent'[i].child = agent[i].child
                 \/ agent'[i].child = nextId /\ nextId \in Ids
      <4>1. /\ MCC_NEGOCIATING # MCC_REGISTERING /\ MCC_NEGOCIATING # MCC_IDLE
            /\ MCC_NEGOCIATING # MCC_FINISHED
        BY DEF MCC_REGISTERING, MCC_IDLE, MCC_NEGOCIATING, MCC_FINISHED
      <4>2. agent[i].kind = "MCC"
        BY <2>2, <3>1
      <4> QED
        BY <2>1, <3>1, <4>1, <4>2 DEF MCCStep
    <3> QED
      BY <2>2, <3>1, IdsArePositive DEF ChildrenTyped, Is
  <2>7. agent'[i].kind = "UCC" /\ agent'[i].success => agent'[i].state = UCC_FINISHED
    BY <2>1, <2>2 DEF Ages, ChildrenTyped
  <2> QED
    BY <2>3, <2>4, <2>5, <2>6, <2>7, <2>8
<1> QED
  BY <1>1, <1>2 DEF Life

(* Only AskPayment puts a request on the screen.                           *)
LEMMA PayerStep ==
  ASSUME [Next]_vars
  PROVE  \/ payer' = payer \/ payer' = Nobody
         \/ \E i \in Ids : AskPayment(i) /\ i \in todo /\ agent[i].valid /\ UNCHANGED agentVars
<1>1. ASSUME NEW i \in Ids, ExchangeAgent(i)
      PROVE  \/ payer' = payer
             \/ AskPayment(i) /\ i \in todo /\ agent[i].valid /\ UNCHANGED agentVars
  BY <1>1 DEF ExchangeAgent, Visit, AskPayment, MCCExchange, MCPExchange, Abort, userVars
<1>2. ASSUME NEW i \in Ids, UpdateAgent(i) \/ PruneAgent(i) PROVE payer' = payer
  BY <1>2 DEF UpdateAgent, PruneAgent, userVars
<1>3. CASE User
  BY <1>3 DEF User, CreateMCCs, ClearAgents, SpawnMCP, Sell, Pay, PayFreed
<1>4. CASE \/ UpdateEnds \/ ExchangeEnds \/ PruneEnds \/ NoClick \/ Deliver \/ FrameEnds
           \/ YellowPages \/ YellowPagesStarts \/ StartCluster \/ Faults \/ UNCHANGED vars
  BY <1>4
  DEF UpdateEnds, ExchangeEnds, PruneEnds, LoopEnds, NoClick, Deliver, FrameEnds, YellowPages,
      YellowPagesStarts, StartCluster, Faults, YellowPagesEnds, CloseCluster, KillCluster,
      ClusterGone, vars, userVars
<1> QED
  BY <1>1, <1>2, <1>3, <1>4 DEF Next, Loops

LEMMA PayerAskedKept ==
  ASSUME TypeOK, PayerAsked, Life, [Next]_vars
  PROVE  PayerAsked'
<1> SUFFICES ASSUME payer' # Nobody PROVE (MCPFinished(payer) /\ ~agent[payer].success)'
  BY DEF PayerAsked
<1>1. CASE payer' = payer
  <2>1. payer \in Ids /\ MCPFinished(payer) /\ ~agent[payer].success
    BY <1>1 DEF PayerAsked, TypeOK
  <2>2. Ages(agent'[payer], agent[payer])
    BY <2>1 DEF Life, Lives, Born, MCPFinished, Is
  <2> QED
    BY <1>1, <2>1, <2>2 DEF MCPFinished, Is, Ages, SameIdentity
<1>2. CASE \E i \in Ids : AskPayment(i) /\ UNCHANGED agentVars
  BY <1>2 DEF AskPayment, MCPFinished, Is, agentVars
<1> QED
  BY <1>1, <1>2, PayerStep

(* What is true of the agents of a process whatever happens to it.         *)
LifeInv == ChildrenTyped /\ PayerAsked

LEMMA LifeInit == Init => LifeInv
  BY NobodyBornChildren DEF Init, AgentsInit, LifeInv, PayerAsked

LEMMA ClusterGoneLife ==
  ASSUME CloseCluster \/ KillCluster
  PROVE  LifeInv' /\ \A i \in Ids : agent'[i].kind = "none"
<1>1. agent' = [i \in Ids |-> NoAgent] /\ payer' = Nobody
  BY DEF CloseCluster, KillCluster, ClusterGone
<1>2. NoAgent.kind = "none" /\ NoAgent.child = Nobody
  BY DEF NoAgent, NewAgent
<1>3. ChildrenTyped'
  BY <1>1, <1>2 DEF ChildrenTyped, Is
<1> QED
  BY <1>1, <1>2, <1>3 DEF LifeInv, PayerAsked

LEMMA LifeInvStep ==
  ASSUME TypeOK, FreshIds, LifeInv, [Next]_vars
  PROVE  LifeInv'
<1>1. CASE CloseCluster \/ KillCluster
  BY <1>1, ClusterGoneLife
<1>2. CASE ~CloseCluster /\ ~KillCluster
  <2>1. Life
    BY <1>2, LifeStep DEF LifeInv
  <2>2. AgentsTypeOK /\ AgentsTypeOK'
    BY TypeStep DEF TypeOK
  <2> QED
    BY <2>1, <2>2, ChildrenKept, PayerAskedKept DEF LifeInv
<1> QED
  BY <1>1, <1>2

LEMMA LifeInvariant == Spec => []LifeInv
<1>1. BargainInv => FreshIds
  BY DEF BargainInv
<1>2. TypeOK /\ FreshIds /\ LifeInv /\ [Next]_vars => LifeInv'
  BY LifeInvStep
<1> QED
  BY <1>1, <1>2, LifeInit, TypeCorrect, BargainsAreTrue, PTL DEF Spec

-----------------------------------------------------------------------------
(* runSystem() exchanges items for those who struck a bargain.             *)

(* Every kind of step is possible only if its bound allows it.             *)
NoClear        == MaxClicks["Clear"] = 0
YellowPagesStay == MaxFaults["CloseYellowPages"] = 0
ClusterStays   == MaxFaults["CloseCluster"] = 0 /\ MaxFaults["KillCluster"] = 0

LEMMA Bounds ==
  ASSUME TypeOK
  PROVE  /\ NoClear => ~ClearAgents
         /\ YellowPagesStay => ~YellowPagesEnds
         /\ ClusterStays => ~CloseCluster /\ ~KillCluster
<1>1. clicks["Clear"] \in Nat /\ \A f \in Failures : faults[f] \in Nat
  BY DEF TypeOK, Buttons
<1>2. NoClear => ~ClearAgents
  BY <1>1 DEF NoClear, ClearAgents, Click
<1>3. YellowPagesStay => ~YellowPagesEnds
  BY <1>1 DEF YellowPagesStay, YellowPagesEnds, Fail, Failures
<1>4. ClusterStays => ~CloseCluster /\ ~KillCluster
  BY <1>1 DEF ClusterStays, CloseCluster, KillCluster, Fail, Failures
<1> QED
  BY <1>2, <1>3, <1>4

(* A finished MCC which the first loop of runSystem() should not see: it   *)
(* took no petitioner, though its registration cannot have failed, or its  *)
(* negotiation did not succeed.                                            *)
Unjustified(i) ==
  /\ agent[i].valid
  /\ Is(i, "MCC", MCC_FINISHED)
  /\ IF agent[i].child = Nobody THEN YellowPagesStay ELSE ~ChildOf(i).success

(* Such MCCs are left by the prune loop and the user, and the update loop  *)
(* destroys each one before it ends.                                       *)
JustifiedInv ==
  /\ YellowPagesStay => ypUp
  /\ todo \subseteq present
  /\ phase = "update" => \A i \in present \ todo : ~Unjustified(i)
  /\ phase = "exchange" => \A i \in present : ~Unjustified(i)

LEMMA Unjustifiable ==
  ASSUME AgentsTypeOK, ChildrenTyped, Life, phase \notin {"prune", "gui"},
         YellowPagesStay => ypUp, NEW i \in Ids, Unjustified(i)'
  PROVE  Unjustified(i)
<1>1. agent'[i].valid /\ agent'[i].kind = "MCC" /\ agent'[i].state = MCC_FINISHED
  BY DEF Unjustified, Is
<1>2. ~Born(i)
  BY <1>1 DEF Born, MCC_FINISHED
<1>3. Ages(agent'[i], agent[i]) /\ ChildStep(i) /\ MCCStep(i)
  BY <1>2 DEF Life, Lives
<1>4. agent[i].valid /\ agent[i].kind = "MCC"
  BY <1>1, <1>3 DEF Ages, SameIdentity
<1>5. \/ agent[i].state = MCC_FINISHED
      \/ agent[i].state = MCC_INIT /\ ~ypUp
      \/ agent[i].state = MCC_NEGOCIATING /\ ChildOf(i).success
  <2>1. ~(phase = "prune" /\ agent[i].state = MCC_IDLE) /\ ~ClearAgents
    BY DEF ClearAgents, Click
  <2>2. MCC_FINISHED \notin {MCC_REGISTERING, MCC_IDLE, MCC_NEGOCIATING}
    BY DEF MCC_REGISTERING, MCC_IDLE, MCC_NEGOCIATING, MCC_FINISHED
  <2> QED
    BY <1>1, <1>3, <1>4, <2>1, <2>2 DEF MCCStep
<1>6. agent'[i].child = agent[i].child
  <2>1. MCC_FINISHED # MCC_NEGOCIATING
    BY DEF MCC_FINISHED, MCC_NEGOCIATING
  <2> QED
    BY <1>1, <1>3, <1>4, <2>1 DEF MCCStep
<1>7. CASE agent[i].child = Nobody
  <2>1. agent[i].state # MCC_NEGOCIATING
    BY <1>4, <1>7 DEF ChildrenTyped, Is
  <2>2. YellowPagesStay
    BY <1>6, <1>7 DEF Unjustified
  <2> QED
    BY <1>4, <1>5, <1>7, <2>1, <2>2 DEF Unjustified, Is
<1>8. CASE agent[i].child # Nobody
  <2> DEFINE c == agent[i].child
  <2>1. c \in Ids /\ agent[c].kind = "UCC"
    BY <1>4, <1>8, AgentParts DEF ChildrenTyped, ChildOf
  <2>2. ~agent'[c].success
    BY <1>6, <1>8 DEF Unjustified, ChildOf
  <2>3. ~agent[c].success
    BY <2>1, <2>2 DEF Life, Born, Lives, Ages, ChildrenTyped
  <2>4. agent[i].state # MCC_INIT
    BY <1>4, <1>8 DEF ChildrenTyped, Is
  <2> QED
    BY <1>4, <1>5, <1>8, <2>3, <2>4 DEF Unjustified, Is, ChildOf
<1> QED
  BY <1>7, <1>8

(* Where the loops of the frame stand after a step.                        *)
LEMMA LoopStep ==
  ASSUME [Next]_vars, ~CloseCluster, ~KillCluster, ~StartCluster
  PROVE  \/ phase' = phase /\ present' = present /\ todo' = todo
         \/ \E i \in Ids :
              /\ UpdateAgent(i) \/ ExchangeAgent(i) \/ PruneAgent(i)
              /\ present' = present
              /\ phase' = phase \/ phase' = "aborted"
         \/ UpdateEnds \/ ExchangeEnds \/ PruneEnds \/ FrameEnds
         \/ phase = "gui" /\ present' = present /\ todo' = todo /\ phase' \in {"net", "aborted"}
<1>1. ASSUME NEW i \in Ids, UpdateAgent(i) \/ ExchangeAgent(i) \/ PruneAgent(i)
      PROVE  present' = present /\ (phase' = phase \/ phase' = "aborted")
  <2>1. CASE UpdateAgent(i)
    BY <2>1
    DEF UpdateAgent, ContributorUpdate, MCCRegister, MCCConclude, MCCDestroy, UCCStart,
        PetitionerUpdate, MCPQuery, MCPIterate, MCPConclude, UCPStart, UCPConclude,
        containerVars
  <2>2. CASE ExchangeAgent(i) \/ PruneAgent(i)
    BY <2>2
    DEF ExchangeAgent, MCCExchange, MCPExchange, AskPayment, Abort, PruneAgent, agentVars,
        containerVars
  <2> QED
    BY <1>1, <2>1, <2>2
<1>2. CASE User \/ NoClick
  BY <1>2
  DEF User, CreateMCCs, ClearAgents, SpawnMCP, Sell, Pay, PayFreed, NoClick, Click, GUIDone,
      AddAgent, agentVars, containerVars
<1>3. CASE Deliver
  BY <1>3
  DEF Deliver, Discard, frameVars, containerVars, CreateChild, AddAgent,
      ContributorReceive, ReceiveRegisterAck, ReceiveNegotiationRequest, ReceiveItemRequest,
      ReceiveConstraintAcceptance, NegotiationRequestBusy, NegotiationRequestUsed,
      NegotiationRequestAccepted, PetitionerReceive, ReceiveMCCsForItem,
      ReceiveNegotiationResult, ReceiveConstraintRequest, ConstraintMet, ConstraintTooDeep,
      ConstraintSearched
<1>4. CASE YellowPages \/ YellowPagesEnds \/ YellowPagesStarts \/ UNCHANGED vars
  BY <1>4
  DEF YellowPages, YellowPagesEnds, YellowPagesStarts, frameVars, containerVars, vars, agentVars
<1> QED
  BY <1>1, <1>2, <1>3, <1>4 DEF Next, Loops, Faults

(* The yellow pages stop listening only when their process ends.           *)
LEMMA YellowPagesUpStep ==
  ASSUME [Next]_vars, ypUp, ~ypUp'
  PROVE  YellowPagesEnds
<1>1. ASSUME NEW i \in Ids, UpdateAgent(i) \/ ExchangeAgent(i) \/ PruneAgent(i) PROVE ypUp' = ypUp
  BY <1>1
  DEF UpdateAgent, ExchangeAgent, PruneAgent, MCCExchange, MCPExchange, AskPayment, Abort, ypVars
<1>2. CASE User
  BY <1>2 DEF User, CreateMCCs, ClearAgents, SpawnMCP, Sell, Pay, PayFreed, ypVars
<1>3. CASE \/ UpdateEnds \/ ExchangeEnds \/ PruneEnds \/ NoClick \/ Deliver \/ FrameEnds
           \/ YellowPages \/ YellowPagesStarts \/ StartCluster \/ CloseCluster \/ KillCluster
           \/ UNCHANGED vars
  BY <1>3
  DEF UpdateEnds, ExchangeEnds, PruneEnds, LoopEnds, NoClick, Deliver, FrameEnds, YellowPages,
      YellowPagesStep, HandleRegister, HandleQuery, HandleUnregister, YellowPagesStarts,
      YellowPagesStart, StartCluster, CloseCluster, KillCluster, ClusterGone, vars, ypVars
<1> QED
  BY <1>1, <1>2, <1>3 DEF Next, Loops, Faults

(* A process that does not run starts, or stays as it is.                  *)
LEMMA DownStep ==
  ASSUME [Next]_vars, phase = "down", phase' # "down"
  PROVE  StartCluster
<1>1. ~CloseCluster /\ ~KillCluster
  BY DEF CloseCluster, KillCluster, ClusterGone
<1>2. ASSUME NEW i \in Ids, UpdateAgent(i) \/ ExchangeAgent(i) \/ PruneAgent(i) PROVE FALSE
  BY <1>2 DEF UpdateAgent, ExchangeAgent, PruneAgent, Visit
<1>3. ~UpdateEnds /\ ~ExchangeEnds /\ ~PruneEnds /\ ~FrameEnds
  BY DEF UpdateEnds, ExchangeEnds, PruneEnds, LoopEnds, FrameEnds
<1> QED
  BY <1>1, <1>2, <1>3, LoopStep

(* An agent visited or passed over by the update loop is justified.        *)
LEMMA UpdateJustifies ==
  ASSUME TypeOK, JustifiedInv, ChildrenTyped, NEW k \in Ids, UpdateAgent(k), Life,
         NEW i \in present \ todo', Unjustified(i)'
  PROVE  FALSE
<1>0. i \in Ids /\ AgentsTypeOK /\ phase = "update"
  BY DEF TypeOK, AgentsTypeOK, UpdateAgent, Visit
<1>1. Unjustified(i)
  BY <1>0, Unjustifiable DEF JustifiedInv
<1>2. i \in todo
  BY <1>0, <1>1 DEF JustifiedInv
<1>3. agent[i].valid /\ Is(i, "MCC", MCC_FINISHED) /\ UpdateActs(i)
  BY <1>1 DEF Unjustified, UpdateActs, ContributorActs
<1>4. i = k
  <2>1. k <= i
    BY <1>2, <1>3 DEF UpdateAgent, Visit
  <2>2. ~(i > k)
    BY <1>2 DEF UpdateAgent, Visit
  <2>3. i \in Int /\ k \in Int
    BY <1>0, MaxAgentsAssumption DEF Ids
  <2> QED
    BY <2>1, <2>2, <2>3
<1>5. ~agent'[i].valid
  <2>1. ContributorUpdate(i) \/ PetitionerUpdate(i)
    BY <1>4 DEF UpdateAgent
  <2>2. /\ MCC_FINISHED # MCC_INIT /\ MCC_FINISHED # MCC_NEGOCIATING
    BY DEF MCC_FINISHED, MCC_INIT, MCC_NEGOCIATING
  <2>3. MCCDestroy(i)
    BY <1>3, <2>1, <2>2
    DEF ContributorUpdate, PetitionerUpdate, MCCRegister, MCCConclude, UCCHasResult, UCCStart,
        MCPQuery, MCPIterate, MCPConclude, UCPHasResult, UCPStart, UCPConclude, Is
  <2>4. agent[i] \in Agent /\ agent' = [agent EXCEPT ![i] = [@ EXCEPT !.valid = FALSE]]
    BY <1>0, <2>3, AgentParts DEF MCCDestroy
  <2> QED
    BY <1>0, <2>4 DEF AgentsTypeOK, Agent
<1> QED
  BY <1>5 DEF Unjustified

LEMMA JustifiedStep ==
  ASSUME TypeOK, FreshIds, DownIsEmpty, LifeInv, JustifiedInv, [Next]_vars
  PROVE  JustifiedInv'
<1>0. AgentsTypeOK /\ TypeOK' /\ ChildrenTyped /\ PayerAsked
  BY TypeStep DEF TypeOK, LifeInv
<1>1. CASE CloseCluster \/ KillCluster
  BY <1>1 DEF JustifiedInv, CloseCluster, KillCluster, ClusterGone, ypVars
<1>2. CASE StartCluster
  <2>1. \A i \in Ids : ~Unjustified(i)'
    BY <1>2 DEF StartCluster, DownIsEmpty, Unjustified, Is
  <2> QED
    BY <1>0, <1>2, <2>1
    DEF JustifiedInv, StartCluster, ypVars, containerVars, AgentsTypeOK
<1>3. CASE ~CloseCluster /\ ~KillCluster /\ ~StartCluster
  <2>1. Life
    BY <1>0, <1>3, LifeStep
  <2>2. ASSUME NEW i \in Ids, phase \notin {"prune", "gui"}, Unjustified(i)'
        PROVE  Unjustified(i)
    BY <1>0, <2>1, <2>2, Unjustifiable DEF JustifiedInv
  <2>3. present \subseteq Ids /\ present' \subseteq Ids
    BY <1>0 DEF TypeOK, AgentsTypeOK
  <2>4. YellowPagesStay => ypUp'
    <3> SUFFICES ASSUME YellowPagesStay, ypUp, ~ypUp' PROVE FALSE
      BY DEF JustifiedInv
    <3>1. ~YellowPagesEnds
      BY Bounds
    <3> QED
      BY <1>3, <3>1, YellowPagesUpStep
  <2>5. CASE phase' = phase /\ present' = present /\ todo' = todo
    BY <2>2, <2>3, <2>4, <2>5 DEF JustifiedInv
  <2>6. ASSUME NEW k \in Ids, UpdateAgent(k) PROVE JustifiedInv'
    <3>1. phase = "update" /\ phase' = "update" /\ todo' \subseteq todo /\ present' = present
      BY <2>6 DEF UpdateAgent, Visit, ContributorUpdate, MCCRegister, MCCConclude,
         MCCDestroy, UCCStart, PetitionerUpdate, MCPQuery, MCPIterate, MCPConclude, UCPStart,
         UCPConclude, containerVars
    <3>2. \A i \in present \ todo' : ~Unjustified(i)'
      BY <1>0, <2>1, <2>6, UpdateJustifies
    <3> QED
      BY <2>4, <3>1, <3>2 DEF JustifiedInv
  <2>7. ASSUME NEW k \in Ids, ExchangeAgent(k) \/ PruneAgent(k), present' = present,
               phase' = phase \/ phase' = "aborted"
        PROVE  JustifiedInv'
    <3>1. phase \in {"exchange", "prune"} /\ todo' \subseteq todo
      BY <2>7 DEF ExchangeAgent, PruneAgent, Visit
    <3> QED
      BY <2>2, <2>3, <2>4, <2>7, <3>1 DEF JustifiedInv
  <2>8. CASE UpdateEnds
    <3>1. /\ phase = "update" /\ phase' = "exchange" /\ todo' = present /\ present' = present
      BY <2>8 DEF UpdateEnds, LoopEnds, agentVars, containerVars
    <3>2. \A i \in present : ~Unjustified(i)
      BY <2>8, <3>1
      DEF UpdateEnds, LoopEnds, JustifiedInv, Unjustified, UpdateActs, ContributorActs
    <3> QED
      BY <2>2, <2>3, <2>4, <3>1, <3>2 DEF JustifiedInv
  <2>9. CASE ExchangeEnds \/ PruneEnds
    BY <2>4, <2>9 DEF ExchangeEnds, PruneEnds, LoopEnds, JustifiedInv, agentVars, containerVars
  <2>10. CASE FrameEnds
    BY <2>4, <2>10 DEF FrameEnds, JustifiedInv
  <2>11. CASE present' = present /\ todo' = todo /\ phase' \in {"net", "aborted"}
    BY <2>4, <2>11 DEF JustifiedInv
  <2> QED
    BY <1>3, <2>5, <2>6, <2>7, <2>8, <2>9, <2>10, <2>11, LoopStep
<1> QED
  BY <1>1, <1>2, <1>3

LEMMA JustifiedInvariant == Spec => []JustifiedInv
<1>1. Init => JustifiedInv
  BY DEF Init, YellowPagesInit, AgentsInit, JustifiedInv
<1>2. BargainInv => FreshIds
  BY DEF BargainInv
<1>3. ReservationInv => DownIsEmpty
  BY DEF ReservationInv
<1>4. TypeOK /\ FreshIds /\ DownIsEmpty /\ LifeInv /\ JustifiedInv /\ [Next]_vars
      => JustifiedInv'
  BY JustifiedStep
<1> QED
  BY <1>1, <1>2, <1>3, <1>4, TypeCorrect, BargainsAreTrue, NegotiationsAreReserved,
     LifeInvariant, PTL DEF Spec

(* runSystem() never exchanges items for an MCC that took a petitioner and *)
(* was refused, cleared or interrupted: its own update() destroys it       *)
(* before the first loop, whatever fails and whatever the user does.       *)
THEOREM RefusedNeverExchange == Spec => []NoRefusedExchange
<1>1. JustifiedInv => NoRefusedExchange
  BY DEF JustifiedInv, NoRefusedExchange, Unjustified, ChildOf, Nobody
<1> QED
  BY <1>1, JustifiedInvariant, PTL

(* While the yellow pages stay up, every exchange for an MCC follows a     *)
(* bargain of its UCC: an MCC finished for any other reason never reaches  *)
(* the first loop of runSystem().                                          *)
THEOREM ExchangesAreJustified ==
  ASSUME YellowPagesStay
  PROVE  Spec => []ExchangeJustified
<1>1. JustifiedInv => ExchangeJustified
  BY DEF JustifiedInv, ExchangeJustified, Unjustified, ChildOf
<1> QED
  BY <1>1, JustifiedInvariant, PTL

-----------------------------------------------------------------------------
(* The payment request on the screen.                                      *)

LEMMA PayerAliveStep ==
  ASSUME NoClear, TypeOK, FreshIds, LifeInv, JustifiedInv, PayerAlive, [Next]_vars
  PROVE  PayerAlive'
<1>0. LifeInv' /\ AgentsTypeOK /\ ChildrenTyped /\ PayerAsked
  BY LifeInvStep DEF LifeInv, TypeOK
<1> SUFFICES ASSUME payer' # Nobody
             PROVE  payer' \in present' /\ agent'[payer'].valid
  BY <1>0 DEF LifeInv, PayerAsked, PayerAlive
<1>1. CASE CloseCluster \/ KillCluster \/ StartCluster
  BY <1>1 DEF CloseCluster, KillCluster, ClusterGone, StartCluster
<1>2. CASE /\ ~CloseCluster /\ ~KillCluster /\ ~StartCluster
           /\ \E i \in Ids : AskPayment(i) /\ i \in todo /\ agent[i].valid /\ UNCHANGED agentVars
  BY <1>2 DEF AskPayment, JustifiedInv, agentVars, containerVars
<1>3. CASE ~CloseCluster /\ ~KillCluster /\ ~StartCluster /\ payer' = payer
  <2>1. /\ payer \in Ids /\ payer \in present /\ agent[payer].valid
        /\ TopSearch(payer) /\ ~agent[payer].success
    BY <1>3 DEF PayerAlive, TypeOK, MCPFinished, Is, TopSearch
  <2>2. Life
    BY <1>0, <1>3, LifeStep
  <2>3. SearchStep(payer)
    BY <2>1, <2>2 DEF Life, Born, Lives, TopSearch
  <2>4. agent'[payer].valid
    BY <1>3, <2>1, <2>3, Bounds DEF SearchStep, Answered
  <2>5. payer \in present'
    <3>1. present' = present \/ present' = SurvivingAgents
      BY <1>3, LoopStep DEF UpdateEnds, ExchangeEnds, PruneEnds, LoopEnds, FrameEnds, agentVars,
         containerVars
    <3> QED
      BY <2>1, <3>1 DEF SurvivingAgents, Reachable
  <2> QED
    BY <1>3, <2>4, <2>5
<1> QED
  BY <1>1, <1>2, <1>3, PayerStep

(* The raw pointer behind the payment request points to a living petitioner *)
(* of the user's whose search failed, as long as the user does not clear    *)
(* all agents: the request is taken back before anything else ends it.      *)
THEOREM PayerLives ==
  ASSUME NoClear
  PROVE  Spec => []PayerAlive
<1>1. Init => PayerAlive
  BY DEF Init, PayerAlive
<1>2. BargainInv => FreshIds
  BY DEF BargainInv
<1>3. TypeOK /\ FreshIds /\ LifeInv /\ JustifiedInv /\ PayerAlive /\ [Next]_vars => PayerAlive'
  BY PayerAliveStep
<1> QED
  BY <1>1, <1>2, <1>3, TypeCorrect, BargainsAreTrue, LifeInvariant, JustifiedInvariant, PTL
  DEF Spec

-----------------------------------------------------------------------------
(* The marks of ItemList.                                                  *)

(* A mark is set for an MCC that starts to negotiate.                      *)
LEMMA MarkSet ==
  ASSUME TypeOK, FreshIds, [Next]_vars, NEW n \in Nodes, NEW x \in Items,
         used'[n][x], ~used[n][x]
  PROVE  \E i \in Ids : /\ Is(i, "MCC", MCC_IDLE)
                        /\ agent[i].node = n /\ agent[i].give = x
                        /\ agent'[i].state = MCC_NEGOCIATING
<1>0. used \in [Nodes -> [Items -> BOOLEAN]] /\ AgentsTypeOK
  BY DEF TypeOK, ItemListsTypeOK
<1>1. ASSUME NEW i \in Ids, UpdateAgent(i) \/ ExchangeAgent(i) \/ PruneAgent(i) PROVE FALSE
  <2>1. used' = used \/ MCCConclude(i)
    BY <1>1
    DEF UpdateAgent, ExchangeAgent, PruneAgent, MCCExchange, MCPExchange, AskPayment, Abort,
        ContributorUpdate, MCCRegister, MCCDestroy, UCCStart,
        PetitionerUpdate, MCPQuery, MCPIterate, MCPConclude, UCPStart, UCPConclude, nodeVars
  <2>2. MCCConclude(i) => used' = [used EXCEPT ![agent[i].node][agent[i].give] = FALSE]
    BY DEF MCCConclude, SetItemUsed
  <2> QED
    BY <1>0, <2>1, <2>2
<1>2. CASE User
  <2>1. used' = used
    BY <1>2 DEF User, CreateMCCs, ClearAgents, SpawnMCP, Sell, Pay, PayFreed, nodeVars
  <2> QED
    BY <2>1
<1>3. CASE \/ UpdateEnds \/ ExchangeEnds \/ PruneEnds \/ NoClick \/ FrameEnds \/ YellowPages
           \/ YellowPagesStarts \/ Faults \/ UNCHANGED vars
  <2>1. used' = used
    BY <1>3
    DEF UpdateEnds, ExchangeEnds, PruneEnds, LoopEnds, NoClick, FrameEnds, YellowPages,
        YellowPagesStarts, Faults, YellowPagesEnds, CloseCluster, KillCluster, ClusterGone,
        vars, nodeVars
  <2> QED
    BY <2>1
<1>4. CASE StartCluster
  BY <1>4 DEF StartCluster, StartNodes
<1>5. CASE Deliver
  <2>1. PICK m \in msgs :
          \/ m.type \notin ToYellowPages /\ (ContributorReceive(m) \/ PetitionerReceive(m))
          \/ Discard(m)
    BY <1>5 DEF Deliver
  <2>2. used' = used \/ (m.type \notin ToYellowPages /\ NegotiationRequestAccepted(m)
                         /\ agent[m.dst].kind = "MCC")
    BY <2>1
    DEF Discard, ContributorReceive, ReceiveRegisterAck, ReceiveNegotiationRequest,
        ReceiveItemRequest, ReceiveConstraintAcceptance, NegotiationRequestBusy,
        NegotiationRequestUsed, PetitionerReceive, ReceiveMCCsForItem,
        ReceiveNegotiationResult, ReceiveConstraintRequest, nodeVars
  <2>3. m.type \notin ToYellowPages /\ NegotiationRequestAccepted(m) /\ agent[m.dst].kind = "MCC"
    BY <2>2
  <2>4. m.dst \in Ids
    BY <1>0, <2>3, PacketParts DEF AgentsTypeOK
  <2> DEFINE a == agent[m.dst]
  <2>5. used' = [used EXCEPT ![a.node][a.give] = TRUE] /\ Is(m.dst, "MCC", MCC_IDLE)
    BY <2>3 DEF NegotiationRequestAccepted, SetItemUsed, Is
  <2>6. a.node = n /\ a.give = x
    BY <1>0, <2>5
  <2>7. agent'[m.dst].state = MCC_NEGOCIATING
    <3>1. PICK child : CreateChild(m.dst, [a EXCEPT !.state = MCC_NEGOCIATING], child)
      BY <2>3 DEF NegotiationRequestAccepted
    <3>2. a \in Agent /\ nextId \in Ids
      BY <1>0, <2>4, <3>1, AgentParts DEF CreateChild, AddAgent
    <3>3. m.dst # nextId
      BY <2>5, <3>2, IdsArePositive DEF FreshIds, Is
    <3>4. agent'[m.dst] = [[a EXCEPT !.state = MCC_NEGOCIATING] EXCEPT !.child = nextId]
      BY <2>4, <3>1, <3>3 DEF CreateChild
    <3> QED
      BY <3>2, <3>4 DEF Agent
  <2> QED
    BY <2>4, <2>5, <2>6, <2>7
<1> QED
  BY <1>1, <1>2, <1>3, <1>4, <1>5 DEF Next, Loops

Marked(n, x, i) == agent[i].kind = "MCC" /\ agent[i].node = n /\ agent[i].give = x

(* Why item x of node n is marked: MCC i negotiates it, or was stopped      *)
(* while it did.                                                            *)
Explains(n, x, i) ==
  /\ Marked(n, x, i)
  /\ \/ Negotiating(i)
     \/ agent[i].state = MCC_FINISHED /\ agent[i].child # Nobody /\ ~ChildOf(i).valid

LEMMA MarkedOn ==
  ASSUME AgentsTypeOK, ChildrenTyped, Life, NEW i \in Ids, agent[i].kind # "none"
  PROVE  /\ SameIdentity(agent'[i], agent[i]) /\ MCCStep(i)
         /\ agent[i].kind = "MCC" /\ agent[i].child # Nobody =>
              agent[i].child \in Ids /\ (agent'[agent[i].child].valid => ChildOf(i).valid)
<1>1. Lives(i)
  BY DEF Life, Born
<1>2. ASSUME agent[i].kind = "MCC", agent[i].child # Nobody
      PROVE  agent[i].child \in Ids /\ (agent'[agent[i].child].valid => ChildOf(i).valid)
  <2>1. agent[i].child \in Ids /\ ChildOf(i).kind = "UCC"
    BY <1>2, AgentParts DEF ChildrenTyped
  <2> QED
    BY <2>1 DEF Life, Born, Lives, Ages, ChildOf
<1> QED
  BY <1>1, <1>2 DEF Lives, Ages

LEMMA ExplanationKept ==
  ASSUME TypeOK, ChildrenTyped, Life, NEW n \in Nodes, NEW x \in Items, NEW i \in Ids,
         used'[n][x], Explains(n, x, i)
  PROVE  Explains(n, x, i)' /\ (NoClear /\ Negotiating(i) => Negotiating(i)')
<1>0. AgentsTypeOK /\ used \in [Nodes -> [Items -> BOOLEAN]]
  BY DEF TypeOK, ItemListsTypeOK
<1>1. agent[i].kind = "MCC" /\ agent[i].node = n /\ agent[i].give = x
  BY DEF Explains, Marked
<1>2. /\ SameIdentity(agent'[i], agent[i]) /\ MCCStep(i)
      /\ agent[i].child # Nobody =>
           agent[i].child \in Ids /\ (agent'[agent[i].child].valid => ChildOf(i).valid)
  BY <1>0, <1>1, MarkedOn
<1>3. Marked(n, x, i)'
  BY <1>1, <1>2 DEF Marked, SameIdentity
<1>4. /\ MCC_NEGOCIATING \notin {MCC_INIT, MCC_REGISTERING, MCC_IDLE, MCC_FINISHED}
      /\ MCC_FINISHED \notin {MCC_INIT, MCC_REGISTERING, MCC_IDLE}
  BY DEF MCC_INIT, MCC_REGISTERING, MCC_IDLE, MCC_NEGOCIATING, MCC_FINISHED
<1>5. ~SetItemUsed(agent[i].node, agent[i].give, FALSE)
  BY <1>0, <1>1 DEF SetItemUsed
<1>6. CASE agent[i].state = MCC_FINISHED
  <2>1. agent[i].child # Nobody /\ ~ChildOf(i).valid
    BY <1>4, <1>6 DEF Explains, Negotiating, Is
  <2>2. agent'[i].state = MCC_FINISHED /\ agent'[i].child = agent[i].child
    BY <1>1, <1>2, <1>4, <1>6 DEF MCCStep
  <2> QED
    BY <1>2, <1>3, <1>4, <1>6, <2>1, <2>2 DEF Explains, ChildOf, Negotiating, Is
<1>7. CASE Negotiating(i)
  <2>1. agent[i].state = MCC_NEGOCIATING /\ agent[i].child # Nobody
    BY <1>1, <1>7 DEF Negotiating, ChildrenTyped, Is
  <2>2. \/ agent'[i].state = MCC_NEGOCIATING
        \/ /\ ClearAgents /\ agent'[i].state = MCC_FINISHED
           /\ agent'[i].child = agent[i].child /\ ~agent'[agent[i].child].valid
    BY <1>1, <1>2, <1>4, <1>5, <2>1 DEF MCCStep
  <2>3. agent'[i].kind = "MCC"
    BY <1>3 DEF Marked
  <2> QED
    BY <1>3, <2>1, <2>2, <2>3, Bounds DEF Explains, ChildOf, Negotiating, Is
<1> QED
  BY <1>6, <1>7 DEF Explains

LEMMA MarksStep ==
  ASSUME TypeOK, FreshIds, LifeInv, [Next]_vars, NEW n \in Nodes, NEW x \in Items,
         used'[n][x], phase' # "down", phase # "down"
  PROVE  /\ (used[n][x] => \E i \in Ids : Explains(n, x, i)) => \E i \in Ids : Explains(n, x, i)'
         /\ NoClear /\ (used[n][x] => \E i \in Ids : Negotiating(i) /\ Marked(n, x, i))
            => \E i \in Ids : Negotiating(i)' /\ Marked(n, x, i)'
<1>0. ~CloseCluster /\ ~KillCluster /\ ChildrenTyped
  BY DEF CloseCluster, KillCluster, ClusterGone, LifeInv
<1>1. Life
  BY <1>0, LifeStep DEF LifeInv
<1>2. CASE used[n][x]
  <2>1. ASSUME NEW i \in Ids, Explains(n, x, i)
        PROVE  Explains(n, x, i)' /\ (NoClear /\ Negotiating(i) => Negotiating(i)')
    BY <1>0, <1>1, <2>1, ExplanationKept
  <2> QED
    BY <1>2, <2>1 DEF Explains
<1>3. CASE ~used[n][x]
  <2>1. PICK i \in Ids : /\ Is(i, "MCC", MCC_IDLE) /\ Marked(n, x, i)
                         /\ agent'[i].state = MCC_NEGOCIATING
    BY <1>3, MarkSet DEF Marked, Is
  <2>2. SameIdentity(agent'[i], agent[i])
    BY <1>0, <1>1, <2>1, MarkedOn DEF Is, TypeOK
  <2>3. Negotiating(i)' /\ Marked(n, x, i)'
    BY <2>1, <2>2 DEF Negotiating, Is, Marked, SameIdentity
  <2> QED
    BY <2>3 DEF Explains
<1> QED
  BY <1>2, <1>3

(* A mark of an item outlives nothing but a negotiation "Clear all agents"  *)
(* interrupted: it belongs to an MCC that negotiates, or that was stopped   *)
(* together with its UCC.                                                   *)
THEOREM MarksAreExplained == Spec => []MarksExplained
<1>1. MarksExplained <=>
        (phase # "down" =>
           \A n \in Nodes, x \in Items : used[n][x] => \E i \in Ids : Explains(n, x, i))
  BY DEF MarksExplained, Explains, Marked, ChildOf
<1>2. Init => MarksExplained
  BY DEF Init, NodesInit, MarksExplained
<1>3. TypeOK /\ FreshIds /\ LifeInv /\ MarksExplained /\ [Next]_vars => MarksExplained'
  <2> SUFFICES ASSUME TypeOK, FreshIds, LifeInv, MarksExplained, [Next]_vars,
                      NEW n \in Nodes, NEW x \in Items, phase' # "down", used'[n][x]
               PROVE  \E i \in Ids : Explains(n, x, i)'
    BY DEF MarksExplained, Explains, Marked, ChildOf
  <2>1. CASE phase # "down"
    BY <1>1, <2>1, MarksStep
  <2>2. CASE phase = "down"
    <3>1. StartCluster
      BY <2>2, DownStep
    <3> QED
      BY <3>1 DEF StartCluster, StartNodes
  <2> QED
    BY <2>1, <2>2
<1>4. BargainInv => FreshIds
  BY DEF BargainInv
<1> QED
  BY <1>2, <1>3, <1>4, TypeCorrect, BargainsAreTrue, LifeInvariant, PTL DEF Spec

(* Without "Clear all agents" an item is marked exactly as long as an MCC   *)
(* of the running process negotiates it, whatever happens to the yellow     *)
(* pages and to the packets in flight.                                      *)
THEOREM MarksAreExact ==
  ASSUME NoClear, ClusterStays
  PROVE  Spec => []ReservationExact
<1> DEFINE Held == \A n \in Nodes, x \in Items :
                     used[n][x] => \E i \in Ids : Negotiating(i) /\ Marked(n, x, i)
           Up == phase # "down"
<1>1. Init => Held /\ Up
  BY DEF Init, NodesInit
<1>2. TypeOK /\ Up /\ [Next]_vars => Up'
  <2> SUFFICES ASSUME TypeOK, [Next]_vars, phase # "down", phase' = "down" PROVE FALSE
    OBVIOUS
  <2>1. ~CloseCluster /\ ~KillCluster /\ ~StartCluster
    BY Bounds DEF StartCluster
  <2> QED
    BY <2>1, LoopStep DEF UpdateEnds, ExchangeEnds, PruneEnds, LoopEnds, FrameEnds
<1>3. TypeOK /\ FreshIds /\ LifeInv /\ Held /\ Up /\ [Next]_vars => Held'
  <2> SUFFICES ASSUME TypeOK, FreshIds, LifeInv, Held, Up, [Next]_vars,
                      NEW n \in Nodes, NEW x \in Items, used'[n][x]
               PROVE  \E i \in Ids : Negotiating(i)' /\ Marked(n, x, i)'
    OBVIOUS
  <2> QED
    BY <1>2, MarksStep
<1>4. TypeOK /\ ReservationInv /\ Held => ReservationExact
  BY DEF ReservationInv, MarkedWhileNegotiating, ReservationExact, Marked, Negotiating, Is
<1>5. BargainInv => FreshIds
  BY DEF BargainInv
<1> QED
  BY <1>1, <1>2, <1>3, <1>4, <1>5, TypeCorrect, BargainsAreTrue, NegotiationsAreReserved,
     LifeInvariant, PTL DEF Spec

-----------------------------------------------------------------------------
(* What a step leaves alone.                                               *)

(* Agent b is what became of a in a step a's talk has no part in.          *)
Steady(b, a) ==
  /\ b.kind = a.kind /\ b.registers = a.registers
  /\ a.kind \in {"UCC", "UCP"} => b.state = a.state /\ b.success = a.success
  /\ a.kind = "UCP" => b.child = a.child
  /\ a.kind = "MCP" /\ a.state = MCP_INIT => b.state = a.state

SteadyBut(K) ==
  \A j \in Ids \ K : agent[j].kind # "none" => Steady(agent'[j], agent[j])

(* No UCC and no UCP is created in this step, but by agent numbers in K.   *)
NobodyJoins(K) ==
  \A j \in Ids \ K :
    agent[j].kind = "none" =>
      /\ agent'[j].kind \notin {"UCC", "UCP"}
      /\ agent'[j].kind = "MCP" => agent'[j].registers = << >>

LEMMA SteadyFields ==
  ASSUME NEW a \in Agent
  PROVE  /\ Steady(a, a)
         /\ Steady([a EXCEPT !.valid = FALSE], a)
         /\ \A s : a.kind = "MCC" => Steady([a EXCEPT !.state = s], a)
         /\ \A s : a.kind = "MCP" /\ a.state # MCP_INIT => Steady([a EXCEPT !.state = s], a)
         /\ \A s, b : a.kind = "MCP" /\ a.state # MCP_INIT =>
                        Steady([a EXCEPT !.success = b, !.state = s], a)
         /\ a.kind = "MCP" /\ a.state # MCP_INIT => Steady(NextContributor(a), a)
         /\ \A b : /\ NextContributor(a).registers = a.registers
                   /\ NextContributor(a).kind = a.kind
<1>1. Steady(a, a) /\ Steady([a EXCEPT !.valid = FALSE], a)
  BY DEF Agent, Steady
<1>2. ASSUME NEW s, a.kind = "MCC" PROVE Steady([a EXCEPT !.state = s], a)
  BY <1>2 DEF Agent, Steady
<1>3. ASSUME NEW s, a.kind = "MCP", a.state # MCP_INIT PROVE Steady([a EXCEPT !.state = s], a)
  BY <1>3 DEF Agent, Steady
<1>4. ASSUME NEW s, NEW b, a.kind = "MCP", a.state # MCP_INIT
      PROVE  Steady([a EXCEPT !.success = b, !.state = s], a)
  BY <1>4 DEF Agent, Steady
<1>5. a.kind = "MCP" /\ a.state # MCP_INIT => Steady(NextContributor(a), a)
  BY DEF Agent, Steady, NextContributor
<1>6. NextContributor(a).registers = a.registers /\ NextContributor(a).kind = a.kind
  BY DEF Agent, NextContributor
<1> QED
  BY <1>1, <1>2, <1>3, <1>4, <1>5, <1>6

LEMMA SteadySame ==
  ASSUME AgentsTypeOK, NEW K
  PROVE  /\ agent' = agent => SteadyBut(K)
         /\ \A j \in Ids : agent[j].kind # "none" /\ agent'[j] = agent[j]
                            => Steady(agent'[j], agent[j])
  BY AgentParts, SteadyFields DEF SteadyBut

LEMMA NobodyInSame ==
  ASSUME agent' = agent
  PROVE  NobodyJoins({})
  BY DEF NobodyJoins

LEMMA SteadyOne ==
  ASSUME AgentsTypeOK, NEW i \in Ids, agent[i].kind # "none", NEW e,
         agent' = [agent EXCEPT ![i] = e]
  PROVE  /\ SteadyBut({i}) /\ NobodyJoins({})
         /\ Steady(e, agent[i]) => SteadyBut({})
<1>1. agent'[i] = e /\ \A j \in Ids : j # i => agent'[j] = agent[j]
  BY DEF AgentsTypeOK
<1>2. \A j \in Ids : j # i /\ agent[j].kind # "none" => Steady(agent'[j], agent[j])
  BY <1>1, SteadySame
<1> QED
  BY <1>1, <1>2 DEF SteadyBut, NobodyJoins

LEMMA SteadyStopped ==
  ASSUME AgentsTypeOK, NEW S, NEW j \in Ids
  PROVE  Steady(AfterStop(S)[j], agent[j])
<1> DEFINE v == IF j \in DestroyedByStop(S) THEN FALSE ELSE agent[j].valid
           t == IF j \in S /\ agent[j].kind = "MCC" THEN MCC_FINISHED ELSE agent[j].state
<1>1. agent[j] \in Agent
  BY AgentParts
<1>2. AfterStop(S)[j] = [agent[j] EXCEPT !.valid = v, !.state = t]
  BY DEF AfterStop
<1>3. agent[j].kind # "MCC" => t = agent[j].state
  OBVIOUS
<1> HIDE DEF v, t
<1> QED
  BY <1>1, <1>2, <1>3 DEF Agent, Steady

LEMMA SteadyStop ==
  ASSUME AgentsTypeOK, NEW S, agent' = AfterStop(S)
  PROVE  SteadyBut({}) /\ NobodyJoins({})
<1>1. ASSUME NEW j \in Ids PROVE Steady(agent'[j], agent[j])
  BY SteadyStopped
<1> QED
  BY <1>1 DEF SteadyBut, NobodyJoins, Steady

LEMMA SteadyCreateChild ==
  ASSUME AgentsTypeOK, FreshIds, NEW i \in Ids, NEW parent, NEW child,
         CreateChild(i, parent, child), agent[i].kind # "none"
  PROVE  /\ nextId \in Ids /\ nextId # i /\ agent[nextId].kind = "none"
         /\ agent'[nextId] = child /\ agent'[i] = [parent EXCEPT !.child = nextId]
         /\ SteadyBut({i}) /\ NobodyJoins({nextId})
<1>1. nextId \in Ids /\ agent[nextId].kind = "none" /\ nextId # i
  BY IdsArePositive DEF CreateChild, AddAgent, FreshIds
<1>2. /\ agent'[nextId] = child
      /\ agent'[i] = [parent EXCEPT !.child = nextId]
      /\ \A j \in Ids : j # i /\ j # nextId => agent'[j] = agent[j]
  BY <1>1 DEF CreateChild
<1>3. SteadyBut({i})
  BY <1>1, <1>2, SteadySame DEF SteadyBut
<1>4. NobodyJoins({nextId})
  BY <1>2 DEF NobodyJoins
<1> QED
  BY <1>1, <1>2, <1>3, <1>4


-----------------------------------------------------------------------------
(* The packets that move a bargain.                                        *)

Invitation(m) ==
  m.type = "NegotiationRequestResult" /\ m.available /\ m.location # Nowhere

Token(m) ==
  \/ m.type \in {"ItemRequest", "ConstraintRequest", "ConstraintAcceptance"}
  \/ Invitation(m)

(* A step moves tokens from the sockets to the network, or loses some.     *)
NoNewTokens ==
  \/ /\ \A m \in msgs' : Token(m) => m \in msgs
     /\ \A m \in outgoing' : Token(m) => m \in outgoing
  \/ /\ \A m \in msgs' : Token(m) => m \in msgs \cup outgoing
     /\ outgoing' = {}

(* An uninitialised AgentLocation leads to no one.                         *)
GarbageIsNowhere == GarbageIds \subseteq {Nowhere}

(* No bargain moves in this step.                                          *)
Calm == SteadyBut({}) /\ NobodyJoins({}) /\ (GarbageIsNowhere => NoNewTokens)

LEMMA TokensSent ==
  ASSUME NEW P, msgs' \subseteq msgs, outgoing' = outgoing \cup P, \A m \in P : ~Token(m)
  PROVE  NoNewTokens
  BY DEF NoNewTokens

LEMMA TokenlessSent ==
  ASSUME NEW q, msgs' \subseteq msgs, outgoing' \subseteq outgoing \cup {q}, ~Token(q)
  PROVE  NoNewTokens
  BY DEF NoNewTokens

LEMMA TokensKept ==
  ASSUME msgs' \subseteq msgs, outgoing' \subseteq outgoing
  PROVE  NoNewTokens
  BY DEF NoNewTokens

LEMMA UnregisterIsNoToken ==
  ASSUME NEW S, NEW call, NEW connected
  PROVE  \A m \in UnregisterPackets(S, call, connected) : ~Token(m)
  BY DEF UnregisterPackets, Token, Invitation

LEMMA CalmUpdate ==
  ASSUME AgentsTypeOK, ChildrenTyped, NEW i \in Ids,
         MCCRegister(i) \/ MCCConclude(i) \/ MCCDestroy(i) \/ MCPIterate(i) \/ MCPConclude(i)
  PROVE  Calm
<1>0. agent \in [Ids -> Agent] /\ agent[i] \in Agent /\ agent[i].child \in Ids \cup {Nobody}
  BY AgentParts
<1>1. CASE MCCRegister(i) \/ MCPIterate(i)
  <2>1. PICK s : agent' = [agent EXCEPT ![i] = [@ EXCEPT !.state = s]]
    BY <1>1 DEF MCCRegister, MCPIterate
  <2>2. agent[i].kind = "MCC" \/ (agent[i].kind = "MCP" /\ agent[i].state # MCP_INIT)
    BY <1>1 DEF MCCRegister, MCPIterate, Is, MCP_INIT, MCP_ITERATING_OVER_MCCs
  <2> DEFINE e == [agent[i] EXCEPT !.state = s]
  <2>3. Steady(e, agent[i])
    BY <1>0, <2>2, SteadyFields
  <2>4. SteadyBut({}) /\ NobodyJoins({})
    <3> HIDE DEF e
    <3> QED
      BY <2>1, <2>2, <2>3, SteadyOne DEF e
  <2>5. NoNewTokens
    <3>1. CASE MCCRegister(i)
      <4> DEFINE q == [type |-> "RegisterMCC", src |-> i, item |-> agent[i].give]
      <4>1. msgs' \subseteq msgs /\ outgoing' \subseteq outgoing \cup {q}
        BY <3>1 DEF MCCRegister, Send
      <4>2. ~Token(q)
        BY DEF Token, Invitation
      <4> QED
        BY <4>1, <4>2, TokenlessSent
    <3>2. CASE MCPIterate(i)
      <4> DEFINE q == [type |-> "NegotiationRequest", src |-> i,
                       dst |-> agent[i].registers[agent[i].index + 1]]
      <4>1. msgs' \subseteq msgs /\ outgoing' \subseteq outgoing \cup {q}
        BY <3>2 DEF MCPIterate, Send
      <4>2. ~Token(q)
        BY DEF Token, Invitation
      <4> QED
        BY <4>1, <4>2, TokenlessSent
    <3> QED
      BY <1>1, <3>1, <3>2
  <2> QED
    BY <2>4, <2>5 DEF Calm
<1>2. CASE MCCDestroy(i)
  <2>1. agent' = [agent EXCEPT ![i] = [@ EXCEPT !.valid = FALSE]] /\ agent[i].kind = "MCC"
    BY <1>2 DEF MCCDestroy, Is
  <2> DEFINE e == [agent[i] EXCEPT !.valid = FALSE]
  <2>2. Steady(e, agent[i])
    BY <1>0, SteadyFields
  <2>3. SteadyBut({}) /\ NobodyJoins({})
    <3> HIDE DEF e
    <3> QED
      BY <2>1, <2>2, SteadyOne DEF e
  <2> QED
    BY <1>2, <2>3, TokensKept DEF MCCDestroy, netVars, Calm
<1>3. CASE MCCConclude(i)
  <2> DEFINE ucc == agent[i].child
             a == [agent[ucc] EXCEPT !.valid = FALSE]
  <2>1. /\ agent[i].kind = "MCC" /\ ucc \in Ids /\ agent[ucc].kind = "UCC" /\ i # ucc
    BY <1>0, <1>3 DEF MCCConclude, UCCHasResult, Is, ChildrenTyped, ChildOf
  <2>2. PICK s : /\ \A j \in Ids : j # i /\ j # ucc => agent'[j] = agent[j]
                 /\ agent'[i] = [agent[i] EXCEPT !.state = s]
                 /\ agent'[ucc] = agent[ucc] \/ agent'[ucc] = a
    BY <1>0, <1>3, <2>1 DEF MCCConclude
  <2>a. Steady(agent'[i], agent[i])
    <3> DEFINE e == [agent[i] EXCEPT !.state = s]
    <3>1. Steady(e, agent[i])
      BY <1>0, <2>1, SteadyFields
    <3>2. agent'[i] = e
      BY <2>2
    <3> HIDE DEF e
    <3> QED
      BY <3>1, <3>2
  <2>b. agent[ucc] \in Agent
    BY <2>1, AgentParts
  <2>c. Steady(agent[ucc], agent[ucc]) /\ Steady(a, agent[ucc])
    BY <2>b, SteadyFields
  <2>3. Steady(agent'[i], agent[i]) /\ Steady(agent'[ucc], agent[ucc])
    BY <2>2, <2>a, <2>c
  <2> HIDE DEF ucc, a
  <2>4. SteadyBut({})
    BY <2>2, <2>3, SteadySame DEF SteadyBut
  <2>5. NobodyJoins({})
    BY <2>1, <2>2 DEF NobodyJoins
  <2> QED
    BY <1>3, <2>4, <2>5, TokensKept DEF MCCConclude, netVars, Calm
<1>4. CASE MCPConclude(i)
  <2>0. agent[i].kind = "MCP" /\ agent[i].state # MCP_INIT
    BY <1>4 DEF MCPConclude, UCPHasResult, Is, MCP_INIT, MCP_NEGOCIATING_UCP_RES
  <2>1. SteadyBut({}) /\ NobodyJoins({})
    <3>1. CASE agent[agent[i].child].success
      <4> DEFINE e == [agent[i] EXCEPT !.success = TRUE, !.state = MCP_FINISHED]
      <4>1. agent' = [agent EXCEPT ![i] = e]
        BY <1>4, <3>1 DEF MCPConclude
      <4>2. Steady(e, agent[i])
        BY <1>0, <2>0, SteadyFields
      <4> HIDE DEF e
      <4> QED
        BY <2>0, <4>1, <4>2, SteadyOne
    <3>2. CASE ~agent[agent[i].child].success
      <4>1. PICK f \in [Ids -> Agent] : f = AfterStop({agent[i].child})
        BY <1>0, AfterStopType
      <4>2. agent' = [f EXCEPT ![i] = NextContributor(@)]
        BY <1>4, <3>2, <4>1 DEF MCPConclude
      <4>3. \A j \in Ids : Steady(f[j], agent[j])
        BY <4>1, SteadyStopped
      <4>4. \A j \in Ids : j # i => agent'[j] = f[j]
        BY <4>2
      <4>5. agent'[i] = NextContributor(f[i]) /\ f[i] \in Agent
        BY <4>2
      <4>6. f[i].kind = "MCP" /\ f[i].registers = agent[i].registers
        BY <2>0, <4>3 DEF Steady
      <4>7. Steady(agent'[i], agent[i])
        BY <2>0, <4>5, <4>6, SteadyFields DEF Steady
      <4>8. \A j \in Ids : Steady(agent'[j], agent[j])
        BY <4>3, <4>4, <4>7
      <4> QED
        BY <4>8 DEF SteadyBut, NobodyJoins, Steady
    <3> QED
      BY <3>1, <3>2
  <2> QED
    BY <1>4, <2>1, TokensKept DEF MCPConclude, netVars, Calm
<1> QED
  BY <1>1, <1>2, <1>3, <1>4

LEMMA CalmReceive ==
  ASSUME AgentsTypeOK, NEW m \in msgs, m.dst \in Ids,
         \/ ReceiveRegisterAck(m)
         \/ ReceiveNegotiationRequest(m) /\ ~NegotiationRequestAccepted(m)
         \/ ReceiveNegotiationResult(m) /\ ~m.available
         \/ Discard(m)
  PROVE  Calm
<1>0. agent \in [Ids -> Agent] /\ agent[m.dst] \in Agent
  BY AgentParts
<1>1. CASE ReceiveRegisterAck(m)
  <2>1. agent' = [agent EXCEPT ![m.dst] = [@ EXCEPT !.state = MCC_IDLE]]
          /\ agent[m.dst].kind = "MCC"
    BY <1>1 DEF ReceiveRegisterAck, Is
  <2> DEFINE e == [agent[m.dst] EXCEPT !.state = MCC_IDLE]
  <2>2. Steady(e, agent[m.dst])
    BY <1>0, <2>1, SteadyFields
  <2>3. SteadyBut({}) /\ NobodyJoins({})
    <3> HIDE DEF e
    <3> QED
      BY <2>1, <2>2, SteadyOne DEF e
  <2> QED
    BY <1>1, <2>3, TokensKept DEF ReceiveRegisterAck, Calm
<1>2. CASE ReceiveNegotiationRequest(m) /\ ~NegotiationRequestAccepted(m)
  <2>1. PICK r : /\ agent' = agent /\ outgoing' = outgoing \cup {r}
                 /\ GarbageIsNowhere => ~Token(r)
    <3>1. CASE NegotiationRequestBusy(m)
      <4>1. PICK loc \in GarbageIds :
              agent' = agent /\ outgoing' = outgoing \cup {NegotiationResult(m, TRUE, loc)}
        BY <3>1 DEF NegotiationRequestBusy, Send
      <4>2. GarbageIsNowhere => ~Token(NegotiationResult(m, TRUE, loc))
        BY <4>1 DEF GarbageIsNowhere, Token, Invitation, NegotiationResult
      <4> QED
        BY <4>1, <4>2
    <3>2. CASE NegotiationRequestUsed(m)
      <4>1. agent' = agent /\ outgoing' = outgoing \cup {NegotiationResult(m, FALSE, Nowhere)}
        BY <3>2 DEF NegotiationRequestUsed, Send
      <4>2. ~Token(NegotiationResult(m, FALSE, Nowhere))
        BY DEF Token, Invitation, NegotiationResult
      <4> QED
        BY <4>1, <4>2
    <3> QED
      BY <1>2, <3>1, <3>2 DEF ReceiveNegotiationRequest
  <2>2. msgs' \subseteq msgs
    BY <1>2 DEF ReceiveNegotiationRequest
  <2> QED
    BY <2>1, <2>2, TokenlessSent, SteadySame, NobodyInSame DEF Calm
<1>3. CASE ReceiveNegotiationResult(m) /\ ~m.available
  <2>1. /\ agent' = [agent EXCEPT ![m.dst] = NextContributor(@)]
        /\ agent[m.dst].kind = "MCP" /\ agent[m.dst].state # MCP_INIT
    BY <1>3 DEF ReceiveNegotiationResult, Is, MCP_INIT, MCP_WAIT_ACCEPTANCE
  <2>2. Steady(NextContributor(agent[m.dst]), agent[m.dst])
    BY <1>0, <2>1, SteadyFields
  <2>3. SteadyBut({}) /\ NobodyJoins({})
    BY <2>1, <2>2, SteadyOne
  <2> QED
    BY <1>3, <2>3, TokensKept DEF ReceiveNegotiationResult, Calm
<1>4. CASE Discard(m)
  <2>1. agent' = agent /\ msgs' \subseteq msgs /\ outgoing' = outgoing
    BY <1>4 DEF Discard
  <2> QED
    BY <2>1, TokensKept, SteadySame, NobodyInSame DEF Calm
<1> QED
  BY <1>1, <1>2, <1>3, <1>4

LEMMA CalmUser ==
  ASSUME AgentsTypeOK, TypeOK, FreshIds, User
  PROVE  Calm
<1>1. CASE CreateMCCs
  <2> DEFINE new == {OfferId(o) : o \in Offers}
  <2>1. ASSUME NEW j \in Ids
        PROVE  agent'[j] = agent[j] \/ (agent[j].kind = "none" /\ agent'[j].kind = "MCC")
    <3>1. CASE j \in new
      <4>1. \E n, x, y : agent'[j] = NewMCC(n, x, y)
        BY <1>1, <3>1 DEF CreateMCCs
      <4>2. \A n, x, y : NewMCC(n, x, y).kind = "MCC"
        BY DEF NewMCC, NewAgent
      <4>3. PICK o \in Offers : j = OfferId(o)
        BY <3>1
      <4>4. j \in nextId..(nextId + Cardinality(Offers) - 1)
        BY <4>3, OfferIdType, MaxAgentsAssumption DEF TypeOK, AgentsTypeOK, ItemListsTypeOK
      <4>5. j >= nextId
        BY <4>4
      <4> QED
        BY <4>1, <4>2, <4>5 DEF FreshIds
    <3>2. CASE j \notin new
      BY <1>1, <3>2 DEF CreateMCCs
    <3> QED
      BY <3>1, <3>2
  <2>2. SteadyBut({})
    BY <2>1, SteadySame DEF SteadyBut
  <2>3. NobodyJoins({})
    BY <2>1 DEF NobodyJoins
  <2> QED
    BY <1>1, <2>2, <2>3, TokensKept DEF CreateMCCs, netVars, Calm
<1>2. CASE ClearAgents
  <2>1. agent' = AfterStop(present)
    BY <1>2 DEF ClearAgents
  <2>2. msgs' = msgs /\ outgoing' = outgoing \cup UnregisterPackets(present, "gui", ypUp)
    BY <1>2 DEF ClearAgents, Send
  <2>3. NoNewTokens
    BY <2>2, UnregisterIsNoToken, TokensSent
  <2> QED
    BY <2>1, <2>3, SteadyStop DEF Calm
<1>3. ASSUME NEW n, NEW want, NEW give, SpawnMCP(n, want, give) PROVE Calm
  <2>1. nextId \in Ids /\ agent[nextId].kind = "none"
    BY <1>3, IdsArePositive DEF SpawnMCP, AddAgent, FreshIds
  <2>2. /\ agent'[nextId] = NewMCP(n, want, give, 0)
        /\ \A j \in Ids : j # nextId => agent'[j] = agent[j]
    BY <1>3, <2>1 DEF SpawnMCP, AgentsTypeOK
  <2>3. NewMCP(n, want, give, 0).kind = "MCP" /\ NewMCP(n, want, give, 0).registers = << >>
    BY DEF NewMCP, NewAgent
  <2>4. SteadyBut({})
    BY <2>1, <2>2, SteadySame DEF SteadyBut
  <2>5. NobodyJoins({})
    BY <2>2, <2>3 DEF NobodyJoins
  <2> QED
    BY <1>3, <2>4, <2>5, TokensKept DEF SpawnMCP, netVars, Calm
<1>4. ASSUME NEW yes, Pay(yes) PROVE Calm
  <2>1. agent' = AfterStop({payer})
    BY <1>4 DEF Pay
  <2> QED
    BY <1>4, <2>1, SteadyStop, TokensKept DEF Pay, netVars, Calm
<1>5. CASE PayFreed \/ \E n \in Nodes, x \in Items : Sell(n, x)
  <2>1. agent' = agent /\ msgs' = msgs /\ outgoing' = outgoing
    BY <1>5 DEF PayFreed, Sell, agentVars, netVars
  <2> QED
    BY <2>1, SteadySame, NobodyInSame, TokensKept DEF Calm
<1> QED
  BY <1>1, <1>2, <1>3, <1>4, <1>5 DEF User

LEMMA CalmLoops ==
  ASSUME AgentsTypeOK, NEW i \in Ids, ExchangeAgent(i) \/ PruneAgent(i)
  PROVE  Calm
<1>1. agent' = agent \/ agent' = AfterStop({i})
  BY DEF ExchangeAgent, MCCExchange, MCPExchange, AskPayment, Abort, PruneAgent, agentVars
<1>2. SteadyBut({}) /\ NobodyJoins({})
  BY <1>1, SteadySame, NobodyInSame, SteadyStop
<1>3. CASE Abort \/ AskPayment(i) \/ MCPExchange(i)
  BY <1>2, <1>3, TokensKept DEF MCPExchange, AskPayment, Abort, agentVars, netVars, Calm
<1>4. CASE MCCExchange(i) /\ ~Abort
  <2>1. msgs' = msgs /\ outgoing' = outgoing \cup UnregisterPackets({i}, "exchange", ypUp)
    BY <1>4 DEF MCCExchange, Send
  <2> QED
    BY <1>2, <2>1, UnregisterIsNoToken, TokensSent DEF Calm
<1>5. CASE PruneAgent(i)
  <2>1. msgs' = msgs /\ outgoing' = outgoing \cup UnregisterPackets({i}, "prune", ypUp)
    BY <1>5 DEF PruneAgent, Send
  <2> QED
    BY <1>2, <2>1, UnregisterIsNoToken, TokensSent DEF Calm
<1> QED
  BY <1>3, <1>4, <1>5 DEF ExchangeAgent

LEMMA CalmRest ==
  ASSUME AgentsTypeOK,
         \/ UpdateEnds \/ ExchangeEnds \/ PruneEnds \/ NoClick \/ FrameEnds \/ YellowPages
         \/ YellowPagesEnds \/ YellowPagesStarts \/ StartCluster \/ UNCHANGED vars
  PROVE  Calm
<1>1. agent' = agent
  BY DEF UpdateEnds, ExchangeEnds, PruneEnds, LoopEnds, NoClick, FrameEnds, YellowPages,
         YellowPagesEnds, YellowPagesStarts, StartCluster, vars, agentVars
<1>2. SteadyBut({}) /\ NobodyJoins({})
  BY <1>1, SteadySame, NobodyInSame
<1>3. NoNewTokens
  <2>1. CASE FrameEnds
    BY <2>1 DEF FrameEnds, NoNewTokens
  <2>2. CASE YellowPages
    <3>1. PICK m \in msgs : HandleRegister(m) \/ HandleQuery(m) \/ HandleUnregister(m)
      BY <2>2 DEF YellowPages, YellowPagesStep
    <3>2. PICK q : ~Token(q) /\ msgs' \subseteq msgs \cup {q} /\ outgoing' = outgoing
      <4>1. CASE HandleRegister(m)
        <5> DEFINE q == [type |-> "RegisterMCCAck", dst |-> m.src]
        <5>1. ~Token(q)
          BY DEF Token, Invitation
        <5> QED
          BY <4>1, <5>1 DEF HandleRegister
      <4>2. CASE HandleQuery(m)
        <5> DEFINE q == [type |-> "ReturnMCCsForItem", dst |-> m.src, mccs |-> mccByItem[m.item]]
        <5>1. ~Token(q)
          BY DEF Token, Invitation
        <5> QED
          BY <4>2, <5>1 DEF HandleQuery
      <4>3. CASE HandleUnregister(m)
        <5> DEFINE q == [type |-> "RegisterMCCAck", dst |-> m.src]
        <5>1. ~Token(q)
          BY DEF Token, Invitation
        <5> QED
          BY <4>3, <5>1 DEF HandleUnregister
      <4> QED
        BY <3>1, <4>1, <4>2, <4>3
    <3> QED
      BY <3>2 DEF NoNewTokens
  <2>3. CASE \/ UpdateEnds \/ ExchangeEnds \/ PruneEnds \/ NoClick \/ YellowPagesEnds
             \/ YellowPagesStarts \/ StartCluster \/ UNCHANGED vars
    <3>1. msgs' \subseteq msgs /\ outgoing' \subseteq outgoing
      BY <2>3
      DEF UpdateEnds, ExchangeEnds, PruneEnds, LoopEnds, NoClick, YellowPagesEnds,
          YellowPagesStop, YellowPagesStarts, YellowPagesStart, StartCluster, vars, agentVars,
          netVars
    <3> QED
      BY <3>1, TokensKept
  <2> QED
    BY <2>1, <2>2, <2>3
<1> QED
  BY <1>2, <1>3 DEF Calm

(* The steps that are not calm: those of a bargain.                        *)
BargainUpdate(i) == MCPQuery(i) \/ UCCStart(i) \/ UCPStart(i) \/ UCPConclude(i)

BargainReceive(m) ==
  \/ ReceiveMCCsForItem(m)
  \/ ReceiveNegotiationRequest(m) /\ NegotiationRequestAccepted(m)
  \/ ReceiveNegotiationResult(m) /\ m.available
  \/ ReceiveItemRequest(m)
  \/ ReceiveConstraintRequest(m)
  \/ ReceiveConstraintAcceptance(m)

LEMMA TradeStep ==
  ASSUME TypeOK, FreshIds, ChildrenTyped, [Next]_vars,
         ~CloseCluster, ~KillCluster
  PROVE  \/ Calm
         \/ \E i \in Ids : UpdateAgent(i) /\ BargainUpdate(i)
         \/ \E m \in msgs : m.dst \in Reachable /\ m.dst \in Ids /\ Deliver /\ BargainReceive(m)
<1>0. AgentsTypeOK
  BY DEF TypeOK
<1>1. ASSUME NEW i \in Ids, UpdateAgent(i) PROVE Calm \/ BargainUpdate(i)
  BY <1>0, <1>1, CalmUpdate DEF UpdateAgent, ContributorUpdate, PetitionerUpdate, BargainUpdate
<1>2. ASSUME NEW i \in Ids, ExchangeAgent(i) \/ PruneAgent(i) PROVE Calm
  BY <1>0, <1>2, CalmLoops
<1>3. CASE Deliver
  <2>1. PICK m \in {p \in msgs : p.type \notin ToYellowPages} :
          \/ m.dst \in Reachable /\ (ContributorReceive(m) \/ PetitionerReceive(m))
          \/ Discard(m)
    BY <1>3 DEF Deliver
  <2>2. m.dst \in Ids /\ m \in Packet
    BY <1>0, <2>1, PacketParts DEF AgentsTypeOK
  <2>3. m.type = "NegotiationRequestResult" => m.available \in BOOLEAN
    BY <2>2, PacketParts
  <2>4. CASE Discard(m)
    BY <1>0, <2>1, <2>2, <2>4, CalmReceive
  <2>5. CASE m.dst \in Reachable /\ (ContributorReceive(m) \/ PetitionerReceive(m))
    <3>1. \/ ReceiveRegisterAck(m)
          \/ ReceiveNegotiationRequest(m) /\ ~NegotiationRequestAccepted(m)
          \/ ReceiveNegotiationResult(m) /\ ~m.available
          \/ BargainReceive(m)
      BY <2>5 DEF ContributorReceive, PetitionerReceive, BargainReceive
    <3> QED
      BY <1>0, <1>3, <2>1, <2>2, <2>5, <3>1, CalmReceive
  <2> QED
    BY <2>1, <2>4, <2>5
<1>4. CASE User
  BY <1>0, <1>4, CalmUser
<1>5. CASE \/ UpdateEnds \/ ExchangeEnds \/ PruneEnds \/ NoClick \/ FrameEnds \/ YellowPages
           \/ YellowPagesEnds \/ YellowPagesStarts \/ StartCluster \/ UNCHANGED vars
  BY <1>0, <1>5, CalmRest
<1> QED
  BY <1>1, <1>2, <1>3, <1>4, <1>5 DEF Next, Loops, Faults

-----------------------------------------------------------------------------
(* The directory and the answers to a search.                              *)

OffersItem(i, x) == agent[i].kind = "MCC" /\ agent[i].give = x

ListsOffers(s, x) == \A k \in DOMAIN s : OffersItem(s[k], x)

(* What packet m says of MCCs and of searches is true.                     *)
Routed(m) ==
  /\ m.type = "RegisterMCC" => OffersItem(m.src, m.item)
  /\ m.type = "QueryMCCsForItem" => agent[m.src].kind = "MCP" /\ agent[m.src].want = m.item
  /\ m.type = "ReturnMCCsForItem" =>
       agent[m.dst].kind = "MCP" /\ ListsOffers(m.mccs, agent[m.dst].want)
  /\ m.type = "NegotiationRequest" =>
       agent[m.src].kind = "MCP" /\ OffersItem(m.dst, agent[m.src].want)
  /\ m.type = "NegotiationRequestResult" =>
       agent[m.dst].kind = "MCP" /\ OffersItem(m.src, agent[m.dst].want)

RoutedPackets == \A m \in msgs \cup outgoing : Routed(m)

Registers ==
  \A i \in Ids : agent[i].kind = "MCP" => ListsOffers(agent[i].registers, agent[i].want)

(* A search asks only for what it wants, the yellow pages list and return  *)
(* only MCCs that registered, and so a search tries only MCCs that offer   *)
(* what it wants.                                                          *)
RoutedInv == RoutedPackets /\ ListedContributes /\ Registers

RegistersStep ==
  \A j \in Ids :
    agent'[j].kind = "MCP" =>
      \/ agent'[j].registers = << >>
      \/ /\ agent[j].kind = "MCP"
         /\ \/ agent'[j].registers = agent[j].registers
            \/ ListsOffers(agent'[j].registers, agent[j].want)

DirectoryStep ==
  \A x \in Items : \A k \in DOMAIN mccByItem'[x] : OffersItem(mccByItem'[x][k], x)

NewPacketsRouted ==
  \A m \in msgs' \cup outgoing' : m \in msgs \cup outgoing \/ Routed(m)

LEMMA OffersKept ==
  ASSUME IdentitiesKept, NEW i \in Ids, NEW x, OffersItem(i, x)
  PROVE  OffersItem(i, x)'
  BY DEF IdentitiesKept, SameIdentity, Created, OffersItem

LEMMA ListsKept ==
  ASSUME IdentitiesKept, NEW s \in Seq(Ids), NEW x, ListsOffers(s, x)
  PROVE  \A k \in DOMAIN s : OffersItem(s[k], x)'
<1> SUFFICES ASSUME NEW k \in DOMAIN s PROVE OffersItem(s[k], x)'
  OBVIOUS
<1>1. s[k] \in Ids
  OBVIOUS
<1> QED
  BY <1>1, OffersKept DEF ListsOffers

LEMMA RoutedKept ==
  ASSUME IdentitiesKept, NEW m \in Packet, Routed(m)
  PROVE  Routed(m)'
<1>1. ASSUME NEW j \in Ids, agent[j].kind = "MCP"
      PROVE  agent'[j].kind = "MCP" /\ agent'[j].want = agent[j].want
  BY <1>1 DEF IdentitiesKept, SameIdentity, Created
<1>2. m.type = "RegisterMCC" => OffersItem(m.src, m.item)'
  BY PacketParts, OffersKept DEF Routed, ToYellowPages
<1>3. m.type = "QueryMCCsForItem" => agent'[m.src].kind = "MCP" /\ agent'[m.src].want = m.item
  BY <1>1, PacketParts DEF Routed, ToYellowPages
<1>4. m.type = "ReturnMCCsForItem" =>
        agent'[m.dst].kind = "MCP" /\ ListsOffers(m.mccs, agent[m.dst].want)'
  <2> SUFFICES ASSUME m.type = "ReturnMCCsForItem"
               PROVE  agent'[m.dst].kind = "MCP" /\ ListsOffers(m.mccs, agent[m.dst].want)'
    OBVIOUS
  <2>1. m.dst \in Ids /\ m.mccs \in Seq(Ids)
    BY PacketParts DEF ToYellowPages
  <2>2. agent'[m.dst].kind = "MCP" /\ agent'[m.dst].want = agent[m.dst].want
    BY <1>1, <2>1 DEF Routed
  <2>3. \A k \in DOMAIN m.mccs : OffersItem(m.mccs[k], agent[m.dst].want)'
    <3> DEFINE x == agent[m.dst].want
    <3>1. ListsOffers(m.mccs, x)
      BY DEF Routed
    <3>2. \A k \in DOMAIN m.mccs : m.mccs[k] \in Ids
      BY <2>1
    <3> QED
      BY <1>1, <2>1, <2>2, <3>1, <3>2
           DEF ListsOffers, OffersItem, IdentitiesKept, SameIdentity, Created
  <2> QED
    BY <2>2, <2>3 DEF ListsOffers
<1>5. m.type \in {"NegotiationRequest", "NegotiationRequestResult"}
      => m.src \in Ids /\ m.dst \in Ids
  BY PacketParts DEF ToYellowPages
<1>6. m.type = "NegotiationRequest" =>
        agent'[m.src].kind = "MCP" /\ OffersItem(m.dst, agent[m.src].want)'
  BY <1>1, <1>5 DEF Routed, OffersItem, IdentitiesKept, SameIdentity, Created
<1>7. m.type = "NegotiationRequestResult" =>
        agent'[m.dst].kind = "MCP" /\ OffersItem(m.src, agent[m.dst].want)'
  BY <1>1, <1>5 DEF Routed, OffersItem, IdentitiesKept, SameIdentity, Created
<1> QED
  BY <1>2, <1>3, <1>4, <1>6, <1>7 DEF Routed

LEMMA RoutedCarried ==
  ASSUME TypeOK, TypeOK', RoutedInv, IdentitiesKept, NewPacketsRouted, RegistersStep, DirectoryStep
  PROVE  RoutedInv'
<1>1. RoutedPackets'
  <2> SUFFICES ASSUME NEW m \in msgs' \cup outgoing' PROVE Routed(m)'
    BY DEF RoutedPackets
  <2>1. m \in Packet
    BY DEF TypeOK, AgentsTypeOK
  <2>2. Routed(m)
    BY DEF NewPacketsRouted, RoutedInv, RoutedPackets
  <2> QED
    BY <2>1, <2>2, RoutedKept
<1>2. ListedContributes'
  <2> SUFFICES ASSUME NEW x \in Items, NEW k \in DOMAIN mccByItem'[x]
               PROVE  agent'[mccByItem'[x][k]].kind = "MCC" /\ agent'[mccByItem'[x][k]].give = x
    BY DEF ListedContributes
  <2>1. mccByItem'[x][k] \in Ids
    BY DEF TypeOK, YellowPagesTypeOK
  <2>2. OffersItem(mccByItem'[x][k], x)
    BY DEF DirectoryStep
  <2> QED
    BY <2>1, <2>2, OffersKept DEF OffersItem, IdentitiesKept, SameIdentity, Created
<1>3. Registers'
  <2> SUFFICES ASSUME NEW i \in Ids, agent'[i].kind = "MCP", NEW k \in DOMAIN agent'[i].registers
               PROVE  agent'[agent'[i].registers[k]].kind = "MCC"
                      /\ agent'[agent'[i].registers[k]].give = agent'[i].want
    BY DEF Registers, ListsOffers, OffersItem
  <2>1. agent'[i].registers \in Seq(Ids)
    BY DEF TypeOK, AgentsTypeOK, Agent
  <2>2. agent'[i].registers[k] \in Ids
    BY <2>1
  <2>3. agent'[i].registers # << >>
    BY <2>1
  <2>4. agent[i].kind = "MCP" /\ ListsOffers(agent'[i].registers, agent[i].want)
    BY <2>3 DEF RegistersStep, RoutedInv, Registers
  <2>5. agent'[i].want = agent[i].want
    BY <2>4 DEF IdentitiesKept, SameIdentity, Created
  <2> QED
    BY <2>2, <2>4, <2>5 DEF ListsOffers, OffersItem, IdentitiesKept, SameIdentity, Created
<1> QED
  BY <1>1, <1>2, <1>3 DEF RoutedInv

(* What an agent that acts in a bargain has registered.                    *)
LEMMA RegistersFields ==
  ASSUME NEW a \in Agent
  PROVE  /\ \A s : /\ [a EXCEPT !.state = s].registers = a.registers
                   /\ [a EXCEPT !.state = s].kind = a.kind
         /\ \A s, b : /\ [a EXCEPT !.success = b, !.state = s].registers = a.registers
                      /\ [a EXCEPT !.success = b, !.state = s].kind = a.kind
         /\ \A c : /\ [a EXCEPT !.child = c].registers = a.registers
                   /\ [a EXCEPT !.child = c].kind = a.kind
         /\ SearchingDeeper(a).registers = a.registers /\ SearchingDeeper(a).kind = a.kind
  BY DEF Agent, SearchingDeeper

LEMMA RegistersOfOthers ==
  ASSUME AgentsTypeOK, RoutedInv, NEW i \in Ids, SteadyBut({i}),
         NEW K, NobodyJoins(K),
         \A j \in K : j \in Ids /\ agent'[j].kind = "MCP" => agent'[j].registers = << >>,
         agent'[i].kind = agent[i].kind,
         agent[i].kind = "MCP" =>
           \/ agent'[i].registers = agent[i].registers
           \/ ListsOffers(agent'[i].registers, agent[i].want)
  PROVE  RegistersStep
<1> SUFFICES ASSUME NEW j \in Ids, agent'[j].kind = "MCP"
             PROVE  \/ agent'[j].registers = << >>
                    \/ /\ agent[j].kind = "MCP"
                       /\ \/ agent'[j].registers = agent[j].registers
                          \/ ListsOffers(agent'[j].registers, agent[j].want)
  BY DEF RegistersStep
<1>1. CASE j = i
  BY <1>1
<1>2. CASE j # i /\ agent[j].kind # "none"
  BY <1>2 DEF SteadyBut, Steady
<1>3. CASE agent[j].kind = "none"
  BY <1>3 DEF NobodyJoins
<1> QED
  BY <1>1, <1>2, <1>3

LEMMA RegistersOfOne ==
  ASSUME AgentsTypeOK, RoutedInv, NEW i \in Ids, agent[i].kind # "none",
         NEW e, e.kind = agent[i].kind,
         agent' = [agent EXCEPT ![i] = e],
         e.registers = agent[i].registers \/ ListsOffers(e.registers, agent[i].want)
  PROVE  RegistersStep
<1>1. SteadyBut({i}) /\ NobodyJoins({})
  BY SteadyOne
<1>2. agent'[i] = e
  BY DEF AgentsTypeOK
<1> QED
  BY <1>1, <1>2, RegistersOfOthers

LEMMA RegistersOfCreateChild ==
  ASSUME AgentsTypeOK, FreshIds, RoutedInv, NEW i \in Ids, agent[i].kind # "none",
         NEW parent \in Agent, NEW child, CreateChild(i, parent, child),
         parent.kind = agent[i].kind, parent.registers = agent[i].registers,
         child.registers = << >>
  PROVE  RegistersStep
<1>1. /\ nextId \in Ids /\ agent'[nextId] = child /\ agent'[i] = [parent EXCEPT !.child = nextId]
      /\ SteadyBut({i}) /\ NobodyJoins({nextId})
  BY SteadyCreateChild
<1>2. agent'[i].kind = agent[i].kind /\ agent'[i].registers = agent[i].registers
  BY <1>1, RegistersFields
<1> QED
  BY <1>1, <1>2, RegistersOfOthers

LEMMA RegistersOfCalm ==
  ASSUME AgentsTypeOK, RoutedInv, Calm
  PROVE  RegistersStep
<1> SUFFICES ASSUME NEW j \in Ids, agent'[j].kind = "MCP"
             PROVE  \/ agent'[j].registers = << >>
                    \/ agent[j].kind = "MCP" /\ agent'[j].registers = agent[j].registers
  BY DEF RegistersStep
<1>1. CASE agent[j].kind # "none"
  BY <1>1 DEF Calm, SteadyBut, Steady
<1>2. CASE agent[j].kind = "none"
  BY <1>2 DEF Calm, NobodyJoins
<1> QED
  BY <1>1, <1>2

LEMMA NewAgentsFields ==
  ASSUME NEW n, NEW x, NEW y, NEW d
  PROVE  /\ NewUCC(n, x, y).registers = << >> /\ NewUCC(n, x, y).kind = "UCC"
         /\ NewUCP(x, y, n, d).registers = << >> /\ NewUCP(x, y, n, d).kind = "UCP"
         /\ NewMCP(n, x, y, d).registers = << >> /\ NewMCP(n, x, y, d).kind = "MCP"
         /\ NewMCP(n, x, y, d).state = MCP_INIT
  BY DEF NewUCC, NewUCP, NewMCP, NewAgent, MCP_INIT

LEMMA RegistersOfBargain ==
  ASSUME TypeOK, FreshIds, RoutedInv,
         \/ \E i \in Ids : BargainUpdate(i)
         \/ \E m \in msgs : m.dst \in Ids /\ BargainReceive(m)
  PROVE  RegistersStep
<1>0. AgentsTypeOK
  BY DEF TypeOK
<1>1. ASSUME NEW i \in Ids, BargainUpdate(i) PROVE RegistersStep
  <2>1. agent[i] \in Agent /\ agent[i].kind # "none"
    BY <1>0, <1>1, AgentParts DEF BargainUpdate, MCPQuery, UCCStart, UCPStart, UCPConclude, Is
  <2>2. CASE MCPQuery(i) \/ UCCStart(i) \/ UCPStart(i)
    <3>1. PICK s : agent' = [agent EXCEPT ![i] = [@ EXCEPT !.state = s]]
      BY <2>2 DEF MCPQuery, UCCStart, UCPStart
    <3> DEFINE e == [agent[i] EXCEPT !.state = s]
    <3>2. e.registers = agent[i].registers /\ e.kind = agent[i].kind
      BY <2>1, RegistersFields
    <3> HIDE DEF e
    <3> QED
      BY <1>0, <2>1, <3>1, <3>2, RegistersOfOne DEF e
  <2>3. CASE UCPConclude(i)
    <3>1. PICK s, b : agent' = [agent EXCEPT ![i] = [@ EXCEPT !.success = b, !.state = s]]
      BY <2>3 DEF UCPConclude
    <3> DEFINE e == [agent[i] EXCEPT !.success = b, !.state = s]
    <3>2. e.registers = agent[i].registers /\ e.kind = agent[i].kind
      BY <2>1, RegistersFields
    <3> HIDE DEF e
    <3> QED
      BY <1>0, <2>1, <3>1, <3>2, RegistersOfOne DEF e
  <2> QED
    BY <1>1, <2>2, <2>3 DEF BargainUpdate
<1>2. ASSUME NEW m \in msgs, m.dst \in Ids, BargainReceive(m) PROVE RegistersStep
  <2> DEFINE a == agent[m.dst]
  <2>1. a \in Agent /\ a.kind # "none" /\ m \in Packet
    BY <1>0, <1>2, AgentParts
    DEF BargainReceive, ReceiveMCCsForItem, ReceiveNegotiationRequest, ReceiveNegotiationResult,
        ReceiveItemRequest, ReceiveConstraintRequest, ReceiveConstraintAcceptance, Is,
        AgentsTypeOK
  <2>2. CASE ReceiveMCCsForItem(m)
    <3> DEFINE e == [a EXCEPT !.registers = m.mccs, !.index = 0, !.state = MCP_ITERATING_OVER_MCCs]
    <3>1. e.registers = m.mccs /\ e.kind = a.kind
      BY <2>1 DEF Agent
    <3>2. ListsOffers(m.mccs, a.want)
      BY <2>2 DEF ReceiveMCCsForItem, RoutedInv, RoutedPackets, Routed
    <3>3. agent' = [agent EXCEPT ![m.dst] = e]
      BY <2>2 DEF ReceiveMCCsForItem
    <3> HIDE DEF e
    <3> QED
      BY <1>0, <1>2, <2>1, <3>1, <3>2, <3>3, RegistersOfOne
  <2>3. CASE ReceiveNegotiationRequest(m) /\ NegotiationRequestAccepted(m)
    <3> DEFINE parent == [a EXCEPT !.state = MCC_NEGOCIATING]
               child == NewUCC(a.node, a.give, a.want)
    <3>1. CreateChild(m.dst, parent, child)
      BY <2>3 DEF NegotiationRequestAccepted
    <3>2. parent \in Agent
      <4>1. MCC_NEGOCIATING \in 0..5
        BY DEF MCC_NEGOCIATING
      <4> QED
        BY <2>1, <4>1, AgentWith
    <3>3. parent.kind = a.kind /\ parent.registers = a.registers /\ child.registers = << >>
      BY <2>1, RegistersFields, NewAgentsFields
    <3> HIDE DEF parent, child
    <3> QED
      BY <1>0, <1>2, <2>1, <3>1, <3>2, <3>3, RegistersOfCreateChild
  <2>4. CASE ReceiveNegotiationResult(m) /\ m.available
    <3> DEFINE parent == [a EXCEPT !.state = MCP_NEGOCIATING_UCP_RES]
               child == NewUCP(a.want, a.give, m.location, a.depth)
    <3>1. CreateChild(m.dst, parent, child)
      BY <2>4 DEF ReceiveNegotiationResult
    <3>2. parent \in Agent
      <4>1. MCP_NEGOCIATING_UCP_RES \in 0..5
        BY DEF MCP_NEGOCIATING_UCP_RES
      <4> QED
        BY <2>1, <4>1, AgentWith
    <3>3. parent.kind = a.kind /\ parent.registers = a.registers /\ child.registers = << >>
      BY <2>1, RegistersFields, NewAgentsFields
    <3> HIDE DEF parent, child
    <3> QED
      BY <1>0, <1>2, <2>1, <3>1, <3>2, <3>3, RegistersOfCreateChild
  <2>5. CASE ReceiveItemRequest(m)
    <3> DEFINE e == [a EXCEPT !.state = UCC_WAITING_CONSTRAINT]
    <3>1. e.registers = a.registers /\ e.kind = a.kind
      BY <2>1, RegistersFields
    <3>2. agent' = [agent EXCEPT ![m.dst] = e]
      BY <2>5 DEF ReceiveItemRequest
    <3> HIDE DEF e
    <3> QED
      BY <1>0, <1>2, <2>1, <3>1, <3>2, RegistersOfOne
  <2>6. CASE ReceiveConstraintAcceptance(m)
    <3> DEFINE e == [a EXCEPT !.success = m.accepted, !.state = UCC_FINISHED]
    <3>1. e.registers = a.registers /\ e.kind = a.kind
      BY <2>1, RegistersFields
    <3>2. agent' = [agent EXCEPT ![m.dst] = e]
      BY <2>6 DEF ReceiveConstraintAcceptance
    <3> HIDE DEF e
    <3> QED
      BY <1>0, <1>2, <2>1, <3>1, <3>2, RegistersOfOne
  <2>7. CASE ReceiveConstraintRequest(m)
    <3>1. CASE ConstraintMet(m)
      <4> DEFINE e == [a EXCEPT !.success = TRUE, !.state = UCP_FINISHED]
      <4>1. e.registers = a.registers /\ e.kind = a.kind
        BY <2>1, RegistersFields
      <4>2. agent' = [agent EXCEPT ![m.dst] = e]
        BY <3>1 DEF ConstraintMet
      <4> HIDE DEF e
      <4> QED
        BY <1>0, <1>2, <2>1, <4>1, <4>2, RegistersOfOne
    <3>2. CASE ConstraintTooDeep(m)
      <4> DEFINE e == [a EXCEPT !.state = UCP_FINISHED]
      <4>1. e.registers = a.registers /\ e.kind = a.kind
        BY <2>1, RegistersFields
      <4>2. agent' = [agent EXCEPT ![m.dst] = e]
        BY <3>2 DEF ConstraintTooDeep
      <4> HIDE DEF e
      <4> QED
        BY <1>0, <1>2, <2>1, <4>1, <4>2, RegistersOfOne
    <3>3. CASE ConstraintSearched(m) /\ a.depth # MaxSearchDepth
      <4> DEFINE parent == SearchingDeeper(a)
                 child == NewMCP(ScratchNode, m.item, a.give, a.depth + 1)
      <4>1. CreateChild(m.dst, parent, child)
        BY <3>3 DEF ConstraintSearched
      <4>2. parent \in Agent
        BY <2>1, <3>3, SearchingDeeperType
      <4>3. parent.kind = a.kind /\ parent.registers = a.registers /\ child.registers = << >>
        BY <2>1, RegistersFields, NewAgentsFields
      <4> HIDE DEF parent, child
      <4> QED
        BY <1>0, <1>2, <2>1, <4>1, <4>2, <4>3, RegistersOfCreateChild
    <3> QED
      BY <2>7, <3>1, <3>2, <3>3 DEF ReceiveConstraintRequest
  <2> QED
    BY <1>2, <2>2, <2>3, <2>4, <2>5, <2>6, <2>7 DEF BargainReceive
<1> QED
  BY <1>1, <1>2

(* Packets that say nothing of what is routed.                             *)
Unrouted(q) ==
  q.type \notin {"RegisterMCC", "QueryMCCsForItem", "ReturnMCCsForItem", "NegotiationRequest",
                 "NegotiationRequestResult"}

LEMMA UnroutedIsRouted ==
  ASSUME NEW q, Unrouted(q)
  PROVE  Routed(q)
  BY DEF Unrouted, Routed

LEMMA RoutedNew ==
  ASSUME NEW P, \A q \in P : Routed(q),
         msgs' \cup outgoing' \subseteq msgs \cup outgoing \cup P
  PROVE  NewPacketsRouted
  BY DEF NewPacketsRouted

LEMMA RoutedOneNew ==
  ASSUME NEW q, Routed(q), msgs' \cup outgoing' \subseteq msgs \cup outgoing \cup {q}
  PROVE  NewPacketsRouted
  BY DEF NewPacketsRouted

LEMMA RoutedSame ==
  ASSUME msgs' \cup outgoing' \subseteq msgs \cup outgoing
  PROVE  NewPacketsRouted
  BY DEF NewPacketsRouted

LEMMA UnregisterIsRouted ==
  ASSUME NEW S, NEW call, NEW connected
  PROVE  \A q \in UnregisterPackets(S, call, connected) : Routed(q)
  BY DEF UnregisterPackets, Routed

LEMMA DirectorySame ==
  ASSUME RoutedInv, UNCHANGED mccByItem
  PROVE  DirectoryStep
  BY DEF RoutedInv, ListedContributes, DirectoryStep, OffersItem

LEMMA RoutedOfUpdate ==
  ASSUME TypeOK, RoutedInv, NEW i \in Ids, ContributorUpdate(i) \/ PetitionerUpdate(i)
  PROVE  NewPacketsRouted
<1>0. AgentsTypeOK
  BY DEF TypeOK
<1>1. CASE MCCRegister(i)
  <2> DEFINE q == [type |-> "RegisterMCC", src |-> i, item |-> agent[i].give]
  <2>1. Routed(q)
    BY <1>1 DEF MCCRegister, Is, Routed, OffersItem
  <2>2. msgs' \cup outgoing' \subseteq msgs \cup outgoing \cup {q}
    BY <1>1 DEF MCCRegister, Send
  <2> QED
    BY <2>1, <2>2, RoutedOneNew
<1>2. CASE MCPQuery(i)
  <2> DEFINE q == [type |-> "QueryMCCsForItem", src |-> i, item |-> agent[i].want]
  <2>1. Routed(q)
    BY <1>2 DEF MCPQuery, Is, Routed
  <2>2. msgs' \cup outgoing' \subseteq msgs \cup outgoing \cup {q}
    BY <1>2 DEF MCPQuery, Send
  <2> QED
    BY <2>1, <2>2, RoutedOneNew
<1>3. CASE MCPIterate(i) /\ agent[i].index >= Len(agent[i].registers)
  BY <1>3, RoutedSame DEF MCPIterate
<1>4. CASE MCPIterate(i) /\ ~(agent[i].index >= Len(agent[i].registers))
  <2> DEFINE q == [type |-> "NegotiationRequest", src |-> i,
                   dst |-> agent[i].registers[agent[i].index + 1]]
  <2>1. agent[i].kind = "MCP"
    BY <1>4 DEF MCPIterate, Is
  <2>2. agent[i].index + 1 \in DOMAIN agent[i].registers
    BY <1>0, <1>4, AgentParts
  <2>3. OffersItem(agent[i].registers[agent[i].index + 1], agent[i].want)
    BY <2>1, <2>2 DEF RoutedInv, Registers, ListsOffers
  <2>4. Routed(q)
    BY <2>1, <2>3 DEF Routed
  <2>5. msgs' \cup outgoing' \subseteq msgs \cup outgoing \cup {q}
    BY <1>4 DEF MCPIterate, Send
  <2> QED
    BY <2>4, <2>5, RoutedOneNew
<1>5. CASE MCCConclude(i) \/ MCCDestroy(i) \/ UCCStart(i) \/ MCPConclude(i)
  BY <1>5, RoutedSame DEF MCCConclude, MCCDestroy, UCCStart, MCPConclude, netVars
<1>6. CASE UCPStart(i)
  <2> DEFINE q == [type |-> "ItemRequest", src |-> i, dst |-> agent[i].location]
  <2>1. Routed(q)
    BY UnroutedIsRouted DEF Unrouted
  <2>2. msgs' \cup outgoing' \subseteq msgs \cup outgoing \cup {q}
    BY <1>6 DEF UCPStart, Send, PacketTo
  <2> QED
    BY <2>1, <2>2, RoutedOneNew
<1>7. CASE UCPConclude(i)
  <2> DEFINE q == [type |-> "ConstraintAcceptance", src |-> i, dst |-> agent[i].location,
                   accepted |-> FALSE]
  <2>1. Routed(q)
    BY UnroutedIsRouted DEF Unrouted
  <2>2. msgs' \cup outgoing' \subseteq msgs \cup outgoing \cup {q}
    BY <1>7 DEF UCPConclude, Send, PacketTo
  <2> QED
    BY <2>1, <2>2, RoutedOneNew
<1> QED
  BY <1>1, <1>2, <1>3, <1>4, <1>5, <1>6, <1>7 DEF ContributorUpdate, PetitionerUpdate

LEMMA RoutedOfReceive ==
  ASSUME TypeOK, RoutedInv, NEW m \in msgs, ContributorReceive(m) \/ PetitionerReceive(m)
  PROVE  NewPacketsRouted
<1>1. CASE ReceiveRegisterAck(m) \/ ReceiveConstraintAcceptance(m) \/ PetitionerReceive(m)
  <2>1. PICK q : Unrouted(q) /\ msgs' \cup outgoing' \subseteq msgs \cup outgoing \cup {q}
    <3>1. \A b : Unrouted(Acceptance(m, b))
      BY DEF Unrouted, Acceptance
    <3>2. \E b : msgs' \cup outgoing' \subseteq msgs \cup outgoing \cup {Acceptance(m, b)}
      BY <1>1
      DEF ReceiveRegisterAck, ReceiveConstraintAcceptance, PetitionerReceive,
          ReceiveMCCsForItem, ReceiveNegotiationResult, ReceiveConstraintRequest,
          ConstraintMet, ConstraintTooDeep, ConstraintSearched, Send
    <3> QED
      BY <3>1, <3>2
  <2> QED
    BY <2>1, UnroutedIsRouted, RoutedOneNew
<1>2. CASE ReceiveItemRequest(m)
  <2> DEFINE q == [type |-> "ConstraintRequest", src |-> m.dst, dst |-> m.src,
                   item |-> agent[m.dst].want]
  <2>1. Routed(q)
    BY UnroutedIsRouted DEF Unrouted
  <2>2. msgs' \cup outgoing' \subseteq msgs \cup outgoing \cup {q}
    BY <1>2 DEF ReceiveItemRequest, Send
  <2> QED
    BY <2>1, <2>2, RoutedOneNew
<1>3. CASE ReceiveNegotiationRequest(m)
  <2>1. Routed(m)
    BY DEF RoutedInv, RoutedPackets
  <2>2. \A b, loc : Routed(NegotiationResult(m, b, loc))
    BY <1>3, <2>1 DEF ReceiveNegotiationRequest, Routed, NegotiationResult
  <2>3. PICK b, loc :
          msgs' \cup outgoing' \subseteq msgs \cup outgoing \cup {NegotiationResult(m, b, loc)}
    BY <1>3
    DEF ReceiveNegotiationRequest, NegotiationRequestBusy, NegotiationRequestUsed,
        NegotiationRequestAccepted, Send
  <2> QED
    BY <2>2, <2>3, RoutedOneNew
<1> QED
  BY <1>1, <1>2, <1>3 DEF ContributorReceive

LEMMA RoutedOfYellowPages ==
  ASSUME TypeOK, RoutedInv, YellowPages
  PROVE  NewPacketsRouted /\ DirectoryStep
<1>1. PICK m \in msgs : HandleRegister(m) \/ HandleQuery(m) \/ HandleUnregister(m)
  BY DEF YellowPages, YellowPagesStep
<1>2. Routed(m) /\ m \in Packet
  BY DEF RoutedInv, RoutedPackets, TypeOK, AgentsTypeOK
<1>3. mccByItem \in [Items -> Seq(Ids)]
  BY DEF TypeOK, YellowPagesTypeOK
<1>4. \A x \in Items : \A k \in DOMAIN mccByItem[x] : OffersItem(mccByItem[x][k], x)
  BY DEF RoutedInv, ListedContributes, OffersItem
<1>5. CASE HandleRegister(m)
  <2> DEFINE q == [type |-> "RegisterMCCAck", dst |-> m.src]
  <2>1. Routed(q)
    BY UnroutedIsRouted DEF Unrouted
  <2>2. msgs' \cup outgoing' \subseteq msgs \cup outgoing \cup {q}
    BY <1>5 DEF HandleRegister
  <2>3. OffersItem(m.src, m.item) /\ m.src \in Ids /\ m.item \in Items
    BY <1>2, <1>5, PacketParts DEF HandleRegister, Routed, ToYellowPages
  <2>4. mccByItem' = [mccByItem EXCEPT ![m.item] = Append(@, m.src)]
    BY <1>5 DEF HandleRegister
  <2>5. ASSUME NEW x \in Items, NEW k \in DOMAIN mccByItem'[x] PROVE OffersItem(mccByItem'[x][k], x)
    <3>1. CASE x # m.item
      BY <1>3, <1>4, <2>4, <3>1
    <3>2. CASE x = m.item
      <4>1. mccByItem'[x] = Append(mccByItem[x], m.src) /\ mccByItem[x] \in Seq(Ids)
        BY <1>3, <2>4, <3>2
      <4>2. \/ mccByItem'[x][k] = m.src
            \/ k \in DOMAIN mccByItem[x] /\ mccByItem'[x][k] = mccByItem[x][k]
        BY <2>3, <4>1
      <4> QED
        BY <1>4, <2>3, <3>2, <4>2
    <3> QED
      BY <3>1, <3>2
  <2> QED
    BY <2>1, <2>2, <2>5, RoutedOneNew DEF DirectoryStep
<1>6. CASE HandleQuery(m)
  <2> DEFINE q == [type |-> "ReturnMCCsForItem", dst |-> m.src, mccs |-> mccByItem[m.item]]
  <2>1. agent[m.src].kind = "MCP" /\ agent[m.src].want = m.item /\ m.item \in Items
    BY <1>2, <1>6, PacketParts DEF HandleQuery, Routed, ToYellowPages
  <2>2. Routed(q)
    BY <1>4, <2>1 DEF Routed, ListsOffers
  <2>3. msgs' \cup outgoing' \subseteq msgs \cup outgoing \cup {q}
    BY <1>6 DEF HandleQuery
  <2>4. DirectoryStep
    BY <1>6, DirectorySame DEF HandleQuery
  <2> QED
    BY <2>2, <2>3, <2>4, RoutedOneNew
<1>7. CASE HandleUnregister(m)
  <2>1. mccByItem' = [mccByItem EXCEPT ![m.item] = RemoveFirst(@, m.src)]
    BY <1>7 DEF HandleUnregister
  <2>2. ASSUME NEW x \in Items, NEW k \in DOMAIN mccByItem'[x] PROVE OffersItem(mccByItem'[x][k], x)
    <3>1. CASE x # m.item
      BY <1>3, <1>4, <2>1, <3>1
    <3>2. CASE x = m.item
      <4> DEFINE T == {i \in Ids : OffersItem(i, x)}
      <4>1. mccByItem[x] \in Seq(T)
        <5>1. mccByItem[x] \in Seq(Ids) /\ \A j \in DOMAIN mccByItem[x] : mccByItem[x][j] \in T
          BY <1>3, <1>4
        <5> HIDE DEF T
        <5> QED
          BY <5>1
      <4>2. RemoveFirst(mccByItem[x], m.src) \in Seq(T)
        BY <4>1, RemoveFirstType
      <4>3. mccByItem'[x] = RemoveFirst(mccByItem[x], m.src)
        BY <1>3, <2>1, <3>2
      <4>4. mccByItem'[x][k] \in T
        <5> HIDE DEF T
        <5> QED
          BY <4>2, <4>3
      <4> QED
        BY <4>4
    <3> QED
      BY <3>1, <3>2
  <2>3. msgs' \cup outgoing' \subseteq msgs \cup outgoing
    BY <1>7 DEF HandleUnregister
  <2> QED
    BY <2>2, <2>3, RoutedSame DEF DirectoryStep
<1> QED
  BY <1>1, <1>5, <1>6, <1>7

LEMMA RoutedPacketsStep ==
  ASSUME TypeOK, RoutedInv, [Next]_vars, ~CloseCluster, ~KillCluster
  PROVE  NewPacketsRouted /\ DirectoryStep
<1>1. ASSUME NEW i \in Ids, UpdateAgent(i) PROVE NewPacketsRouted /\ DirectoryStep
  BY <1>1, RoutedOfUpdate, DirectorySame DEF UpdateAgent, ypVars
<1>2. ASSUME NEW i \in Ids, ExchangeAgent(i) \/ PruneAgent(i)
      PROVE  NewPacketsRouted /\ DirectoryStep
  <2>1. UNCHANGED mccByItem
    BY <1>2
    DEF ExchangeAgent, MCCExchange, MCPExchange, AskPayment, Abort, PruneAgent, ypVars
  <2>2. CASE Abort \/ AskPayment(i) \/ MCPExchange(i)
    BY <2>1, <2>2, RoutedSame, DirectorySame DEF MCPExchange, AskPayment, Abort, agentVars, netVars
  <2>3. CASE MCCExchange(i) /\ ~Abort
    <3>1. msgs' \cup outgoing' \subseteq
            msgs \cup outgoing \cup UnregisterPackets({i}, "exchange", ypUp)
      BY <2>3 DEF MCCExchange, Send
    <3> QED
      BY <2>1, <3>1, UnregisterIsRouted, RoutedNew, DirectorySame
  <2>4. CASE PruneAgent(i)
    <3>1. msgs' \cup outgoing' \subseteq
            msgs \cup outgoing \cup UnregisterPackets({i}, "prune", ypUp)
      BY <2>4 DEF PruneAgent, Send
    <3> QED
      BY <2>1, <3>1, UnregisterIsRouted, RoutedNew, DirectorySame
  <2> QED
    BY <1>2, <2>2, <2>3, <2>4 DEF ExchangeAgent
<1>3. CASE Deliver
  <2>1. PICK m \in msgs : ContributorReceive(m) \/ PetitionerReceive(m) \/ Discard(m)
    BY <1>3 DEF Deliver
  <2>2. Discard(m) => NewPacketsRouted
    BY RoutedSame DEF Discard
  <2> QED
    BY <1>3, <2>1, <2>2, RoutedOfReceive, DirectorySame DEF Deliver, ypVars
<1>4. CASE User
  <2>1. UNCHANGED mccByItem
    BY <1>4 DEF User, CreateMCCs, ClearAgents, SpawnMCP, Sell, Pay, PayFreed, ypVars
  <2>2. CASE ClearAgents
    <3>1. msgs' \cup outgoing' \subseteq
            msgs \cup outgoing \cup UnregisterPackets(present, "gui", ypUp)
      BY <2>2 DEF ClearAgents, Send
    <3> QED
      BY <2>1, <3>1, UnregisterIsRouted, RoutedNew, DirectorySame
  <2>3. CASE ~ClearAgents
    BY <1>4, <2>1, <2>3, RoutedSame, DirectorySame
    DEF User, CreateMCCs, SpawnMCP, Sell, Pay, PayFreed, agentVars, netVars
  <2> QED
    BY <2>2, <2>3
<1>5. CASE YellowPagesEnds
  <2>1. mccByItem' = [x \in Items |-> << >>] /\ msgs' \cup outgoing' \subseteq msgs \cup outgoing
    BY <1>5 DEF YellowPagesEnds, YellowPagesStop
  <2> QED
    BY <2>1, RoutedSame DEF DirectoryStep
<1>6. CASE \/ UpdateEnds \/ ExchangeEnds \/ PruneEnds \/ NoClick \/ FrameEnds
           \/ YellowPagesStarts \/ StartCluster \/ UNCHANGED vars
  <2>1. UNCHANGED mccByItem /\ msgs' \cup outgoing' \subseteq msgs \cup outgoing
    BY <1>6
    DEF UpdateEnds, ExchangeEnds, PruneEnds, LoopEnds, NoClick, FrameEnds, YellowPagesStarts,
        YellowPagesStart, StartCluster, vars, agentVars, netVars, ypVars
  <2> QED
    BY <2>1, RoutedSame, DirectorySame
<1> QED
  BY <1>1, <1>2, <1>3, <1>4, <1>5, <1>6, RoutedOfYellowPages DEF Next, Loops, Faults

LEMMA RoutedStep ==
  ASSUME TypeOK, BargainInv, LifeInv, RoutedInv, [Next]_vars, ~CloseCluster, ~KillCluster
  PROVE  RoutedInv'
<1>1. AgentsTypeOK /\ FreshIds /\ ChildrenTyped
  BY DEF TypeOK, BargainInv, LifeInv
<1>2. RegistersStep
  BY <1>1, TradeStep, RegistersOfCalm, RegistersOfBargain
<1>3. TypeOK'
  BY TypeStep
<1> QED
  BY <1>1, <1>2, <1>3, IdentityStep, RoutedPacketsStep, RoutedCarried

LEMMA RoutedInit == Init => RoutedInv
<1> SUFFICES ASSUME Init PROVE RoutedInv
  OBVIOUS
<1>1. msgs = {} /\ outgoing = {} /\ mccByItem = [x \in Items |-> << >>]
  BY DEF Init, AgentsInit, YellowPagesInit
<1>2. \A i \in Ids : agent[i].kind = "none"
  BY NoAgentType DEF Init, AgentsInit
<1> QED
  BY <1>1, <1>2 DEF RoutedInv, RoutedPackets, ListedContributes, Registers

LEMMA RoutedInvariant ==
  ASSUME ClusterStays
  PROVE  Spec => []RoutedInv
<1>1. TypeOK /\ BargainInv /\ LifeInv /\ RoutedInv /\ [Next]_vars => RoutedInv'
  BY Bounds, RoutedStep DEF vars
<1> QED
  BY <1>1, RoutedInit, TypeCorrect, BargainsAreTrue, LifeInvariant, PTL DEF Spec

(* The yellow pages list an MCC of the cluster, under the item it offers,  *)
(* however registrations, answers and the pages' own restarts interleave;  *)
(* as long as the cluster itself is not restarted, which gives the numbers *)
(* of its agents to others.                                                *)
THEOREM DirectoryIsTrue ==
  ASSUME ClusterStays
  PROVE  Spec => []ListedContributes
<1>1. RoutedInv => ListedContributes
  BY DEF RoutedInv
<1> QED
  BY <1>1, RoutedInvariant, PTL

-----------------------------------------------------------------------------
(* The nested search of a UCP.                                             *)

(* UCP u, alive, waits for its nested search.                              *)
Waits(u) == Is(u, "UCP", UCP_IDLE) /\ agent[u].valid

(* A UCP that waits sees its search, an agent with a greater number, just  *)
(* created: it concludes in the first frame that visits it.                *)
FreshSearch(u) ==
  /\ agent[u].child \in Ids /\ agent[u].child > u
  /\ agent[agent[u].child].state = MCP_INIT
  /\ phase = "net" \/ (phase = "update" /\ u \in todo)

SearchInv ==
  /\ phase # "down"
  /\ phase # "net" => pending = {}
  /\ \A i \in Ids : agent[i].valid => i \in Reachable
  /\ \A u \in Ids : Waits(u) => FreshSearch(u)

LEMMA PendingStep ==
  ASSUME [Next]_vars, ~CloseCluster, ~KillCluster
  PROVE  \/ present' = present /\ pending \subseteq pending'
            /\ (pending' = pending \/ phase' = "net")
            /\ (phase' = "net" \/ phase # "net")
         \/ FrameEnds
<1>1. ASSUME NEW i \in Ids, UpdateAgent(i) \/ ExchangeAgent(i) \/ PruneAgent(i)
      PROVE  present' = present /\ pending' = pending /\ phase # "net"
  <2>1. CASE UpdateAgent(i)
    BY <2>1
    DEF UpdateAgent, Visit, ContributorUpdate, MCCRegister, MCCConclude, MCCDestroy, UCCStart,
        PetitionerUpdate, MCPQuery, MCPIterate, MCPConclude, UCPStart, UCPConclude,
        containerVars
  <2>2. CASE ExchangeAgent(i) \/ PruneAgent(i)
    BY <2>2
    DEF ExchangeAgent, Visit, MCCExchange, MCPExchange, AskPayment, Abort, PruneAgent,
        agentVars, containerVars
  <2> QED
    BY <1>1, <2>1, <2>2
<1>2. CASE User \/ NoClick
  BY <1>2
  DEF User, CreateMCCs, ClearAgents, SpawnMCP, Sell, Pay, PayFreed, NoClick, Click, GUIDone,
      AddAgent, agentVars, containerVars
<1>3. CASE Deliver
  BY <1>3
  DEF Deliver, Discard, frameVars, containerVars, CreateChild, AddAgent,
      ContributorReceive, ReceiveRegisterAck, ReceiveNegotiationRequest, ReceiveItemRequest,
      ReceiveConstraintAcceptance, NegotiationRequestBusy, NegotiationRequestUsed,
      NegotiationRequestAccepted, PetitionerReceive, ReceiveMCCsForItem,
      ReceiveNegotiationResult, ReceiveConstraintRequest, ConstraintMet, ConstraintTooDeep,
      ConstraintSearched
<1>4. CASE \/ UpdateEnds \/ ExchangeEnds \/ PruneEnds \/ YellowPages \/ YellowPagesEnds
           \/ YellowPagesStarts \/ StartCluster \/ UNCHANGED vars
  BY <1>4
  DEF UpdateEnds, ExchangeEnds, PruneEnds, LoopEnds, YellowPages, YellowPagesEnds,
      YellowPagesStarts, StartCluster, frameVars, containerVars, vars, agentVars
<1> QED
  BY <1>1, <1>2, <1>3, <1>4 DEF Next, Loops, Faults

(* The other agents of a step of a bargain.                                *)
LEMMA BargainOthers ==
  ASSUME AgentsTypeOK, FreshIds
  PROVE  /\ \A i \in Ids : BargainUpdate(i) => \A j \in Ids \ {i} : agent'[j] = agent[j]
         /\ \A m \in msgs : m.dst \in Ids /\ BargainReceive(m) =>
              \A j \in Ids \ {m.dst} :
                \/ agent'[j] = agent[j]
                \/ j = nextId /\ agent[j].kind = "none" /\ agent'[j].state = 0
<1>1. ASSUME NEW i \in Ids, BargainUpdate(i), NEW j \in Ids \ {i} PROVE agent'[j] = agent[j]
  <2>1. PICK e : agent' = [agent EXCEPT ![i] = e]
    BY <1>1 DEF BargainUpdate, MCPQuery, UCCStart, UCPStart, UCPConclude
  <2> QED
    BY <2>1 DEF AgentsTypeOK
<1>2. ASSUME NEW m \in msgs, m.dst \in Ids, BargainReceive(m), NEW j \in Ids \ {m.dst}
      PROVE  \/ agent'[j] = agent[j]
             \/ j = nextId /\ agent[j].kind = "none" /\ agent'[j].state = 0
  <2>1. CASE \E e : agent' = [agent EXCEPT ![m.dst] = e]
    BY <2>1 DEF AgentsTypeOK
  <2>2. ASSUME NEW parent, NEW child, CreateChild(m.dst, parent, child), child.state = 0
        PROVE  \/ agent'[j] = agent[j]
               \/ j = nextId /\ agent[j].kind = "none" /\ agent'[j].state = 0
    <3>1. agent'[j] = IF j = nextId THEN child ELSE agent[j]
      BY <2>2 DEF CreateChild
    <3>2. nextId \in Ids => agent[nextId].kind = "none"
      <4>1. nextId \in Ids => nextId \in Nat /\ nextId >= nextId
        BY IdsArePositive
      <4> QED
        BY <4>1 DEF FreshIds
    <3> QED
      BY <2>2, <3>1, <3>2
  <2>3. \A n, x, y, d : /\ NewUCC(n, x, y).state = 0 /\ NewUCP(x, y, n, d).state = 0
                        /\ NewMCP(n, x, y, d).state = 0
    BY DEF NewUCC, NewUCP, NewMCP, NewAgent
  <2>4. \/ \E e : agent' = [agent EXCEPT ![m.dst] = e]
        \/ \E parent, child : CreateChild(m.dst, parent, child) /\ child.state = 0
    <3>1. CASE ReceiveMCCsForItem(m) \/ ReceiveItemRequest(m) \/ ReceiveConstraintAcceptance(m)
      BY <3>1 DEF ReceiveMCCsForItem, ReceiveItemRequest, ReceiveConstraintAcceptance
    <3>2. CASE ReceiveNegotiationRequest(m) /\ NegotiationRequestAccepted(m)
      BY <2>3, <3>2 DEF NegotiationRequestAccepted
    <3>3. CASE ReceiveNegotiationResult(m) /\ m.available
      BY <2>3, <3>3 DEF ReceiveNegotiationResult
    <3>4. CASE ReceiveConstraintRequest(m)
      BY <2>3, <3>4
      DEF ReceiveConstraintRequest, ConstraintMet, ConstraintTooDeep, ConstraintSearched
    <3> QED
      BY <1>2, <3>1, <3>2, <3>3, <3>4 DEF BargainReceive
  <2> QED
    BY <2>1, <2>2, <2>4
<1> QED
  BY <1>1, <1>2

(* Agent i changes its state, or its verdict and its state.                *)
LEMMA OwnState ==
  ASSUME AgentsTypeOK, NEW i \in Ids
  PROVE  /\ \A s : agent' = [agent EXCEPT ![i] = [@ EXCEPT !.state = s]] =>
              agent'[i].state = s /\ agent'[i].success = agent[i].success
         /\ \A s, b : agent' = [agent EXCEPT ![i] = [@ EXCEPT !.success = b, !.state = s]] =>
              agent'[i].state = s /\ agent'[i].success = b
<1>1. agent[i] \in Agent /\ agent \in [Ids -> Agent]
  BY AgentParts
<1>2. ASSUME NEW s, agent' = [agent EXCEPT ![i] = [@ EXCEPT !.state = s]]
      PROVE  agent'[i].state = s /\ agent'[i].success = agent[i].success
  <2> DEFINE e == [agent[i] EXCEPT !.state = s]
  <2>1. e.state = s /\ e.success = agent[i].success
    BY <1>1, AgentFields
  <2>2. agent'[i] = e
    BY <1>1, <1>2
  <2> HIDE DEF e
  <2> QED
    BY <2>1, <2>2
<1>3. ASSUME NEW s, NEW b, agent' = [agent EXCEPT ![i] = [@ EXCEPT !.success = b, !.state = s]]
      PROVE  agent'[i].state = s /\ agent'[i].success = b
  <2> DEFINE e == [agent[i] EXCEPT !.success = b, !.state = s]
  <2>1. e.state = s /\ e.success = b
    BY <1>1 DEF Agent
  <2>2. agent'[i] = e
    BY <1>1, <1>3
  <2> HIDE DEF e
  <2> QED
    BY <2>1, <2>2
<1> QED
  BY <1>2, <1>3

(* The actions of a bargain happen where the frame says.                   *)
LEMMA BargainPlace ==
  /\ \A i \in Ids : UpdateAgent(i) =>
       /\ phase = "update" /\ phase' = "update" /\ i \in todo /\ agent[i].valid
       /\ todo' = {j \in todo : j > i}
       /\ \A j \in todo : agent[j].valid /\ UpdateActs(j) => i <= j
  /\ Deliver => phase = "net" /\ phase' = "net"
  BY DEF UpdateAgent, Visit, Deliver, frameVars

LEMMA WaitsStep ==
  ASSUME TypeOK, FreshIds, ChildrenTyped, SearchInv, [Next]_vars, ~CloseCluster, ~KillCluster,
         Life, NEW u \in Ids, Waits(u)'
  PROVE  \/ /\ Waits(u) /\ FreshSearch(u) /\ agent'[u].child = agent[u].child
            /\ agent'[agent[u].child].state = MCP_INIT
            /\ \A i \in Ids : UpdateAgent(i) => i < u
         \/ /\ phase' = "net"
            /\ agent'[u].child \in Ids /\ agent'[u].child > u
            /\ agent'[agent'[u].child].state = MCP_INIT
<1>0. AgentsTypeOK /\ UCP_IDLE # 0 /\ u \in Nat
  BY IdsArePositive DEF TypeOK, UCP_IDLE
<1>1. agent'[u].kind = "UCP" /\ agent'[u].state = UCP_IDLE /\ agent'[u].valid
  BY DEF Waits, Is
<1>2. agent[u].kind = "UCP" /\ agent[u].valid
  BY <1>0, <1>1 DEF Life, Lives, Born, Ages, SameIdentity
<1>a. ASSUME agent[u].state = UCP_IDLE PROVE Waits(u) /\ FreshSearch(u)
  BY <1>2, <1>a DEF Waits, Is, SearchInv
<1>b. ASSUME agent[u].state = UCP_IDLE
      PROVE  /\ agent[u].child \in Ids /\ agent[u].child # u /\ agent[agent[u].child].kind = "MCP"
             /\ agent[agent[u].child].state = MCP_INIT
  <2>1. agent[u].child \in Ids /\ agent[u].child > u /\ agent[agent[u].child].state = MCP_INIT
    BY <1>b, <1>a DEF FreshSearch
  <2>2. agent[agent[u].child].kind = "MCP"
    BY <1>2, <2>1, IdsArePositive DEF ChildrenTyped, ChildOf
  <2> QED
    BY <1>0, <2>1, <2>2, IdsArePositive
(* The update loop gets to u before it gets to anyone behind.              *)
<1>c. ASSUME agent[u].state = UCP_IDLE, NEW i \in Ids, UpdateAgent(i) PROVE i <= u
  <2>1. u \in todo
    BY <1>a, <1>c, BargainPlace DEF FreshSearch
  <2>2. UpdateActs(u)
    BY <1>2, <1>b, <1>c, IdsArePositive DEF UpdateActs, PetitionerActs, Is
  <2> QED
    BY <1>2, <1>c, <2>1, <2>2, BargainPlace
<1>d. ASSUME UpdateAgent(u) PROVE agent[u].state # UCP_IDLE
  <2> SUFFICES ASSUME agent[u].state = UCP_IDLE PROVE FALSE
    OBVIOUS
  <2>1. UCPConclude(u)
    BY <1>2, <1>d
    DEF UpdateAgent, ContributorUpdate, MCCRegister, MCCConclude, UCCHasResult, MCCDestroy,
        UCCStart, PetitionerUpdate, MCPQuery, MCPIterate, MCPConclude, UCPHasResult, UCPStart,
        Is, UCP_INIT, UCP_IDLE
  <2>2. agent'[u].state = UCP_FINISHED
    BY <1>0, <2>1, OwnState DEF UCPConclude
  <2> QED
    BY <1>1, <2>2 DEF UCP_IDLE, UCP_FINISHED
<1>e. ASSUME agent[u].state = UCP_IDLE, NEW i \in Ids, UpdateAgent(i) PROVE i < u
  BY <1>0, <1>c, <1>d, <1>e, IdsArePositive
<1>3. CASE Calm
  <2>1. Steady(agent'[u], agent[u])
    BY <1>2, <1>3 DEF Calm, SteadyBut
  <2>2. agent[u].state = UCP_IDLE /\ agent'[u].child = agent[u].child
    BY <1>1, <1>2, <2>1 DEF Steady
  <2>3. Steady(agent'[agent[u].child], agent[agent[u].child])
    BY <1>3, <1>b, <2>2 DEF Calm, SteadyBut
  <2>4. agent'[agent[u].child].state = MCP_INIT
    BY <1>b, <2>2, <2>3 DEF Steady
  <2> QED
    BY <1>a, <1>e, <2>2, <2>4
<1>4. ASSUME NEW i \in Ids, UpdateAgent(i), BargainUpdate(i)
      PROVE  /\ Waits(u) /\ FreshSearch(u) /\ agent'[u].child = agent[u].child
             /\ agent'[agent[u].child].state = MCP_INIT
             /\ \A k \in Ids : UpdateAgent(k) => k < u
  <2>1. i # u
    <3> SUFFICES ASSUME i = u PROVE FALSE
      OBVIOUS
    <3>1. UCPStart(u) \/ UCPConclude(u)
      BY <1>2, <1>4 DEF BargainUpdate, MCPQuery, UCCStart, Is
    <3>2. agent'[u].state \in {UCP_REQUEST_ITEM, UCP_FINISHED}
      <4>1. UCPStart(u) => agent'[u].state = UCP_REQUEST_ITEM
        BY <1>0, OwnState DEF UCPStart
      <4>2. ASSUME UCPConclude(u) PROVE agent'[u].state = UCP_FINISHED
        BY <1>0, <4>2, OwnState DEF UCPConclude
      <4> QED
        BY <3>1, <4>1, <4>2
    <3> QED
      BY <1>1, <3>2 DEF UCP_IDLE, UCP_REQUEST_ITEM, UCP_FINISHED
  <2>2. agent'[u] = agent[u]
    BY <1>0, <1>4, <2>1, BargainOthers
  <2>3. agent[u].state = UCP_IDLE /\ agent[u].child > u
    BY <1>1, <1>a, <2>2 DEF FreshSearch
  <2>4. agent[u].child # i
    BY <1>0, <1>4, <1>b, <1>e, <2>3, IdsArePositive
  <2>5. agent'[agent[u].child] = agent[agent[u].child]
    BY <1>0, <1>4, <1>b, <2>3, <2>4, BargainOthers
  <2> QED
    BY <1>a, <1>b, <1>e, <2>2, <2>3, <2>5
<1>5. ASSUME NEW m \in msgs, m.dst \in Ids, Deliver, BargainReceive(m), u # m.dst
      PROVE  /\ Waits(u) /\ FreshSearch(u) /\ agent'[u].child = agent[u].child
             /\ agent'[agent[u].child].state = MCP_INIT
             /\ \A k \in Ids : UpdateAgent(k) => k < u
  <2>1. agent'[u] = agent[u]
    BY <1>0, <1>1, <1>5, BargainOthers
  <2>2. agent[u].state = UCP_IDLE
    BY <1>1, <2>1
  <2>3. agent[u].child # m.dst
    BY <1>5, <1>b, <2>2
    DEF BargainReceive, ReceiveMCCsForItem, ReceiveNegotiationRequest, ReceiveNegotiationResult,
        ReceiveItemRequest, ReceiveConstraintRequest, ReceiveConstraintAcceptance, Is,
        MCP_INIT, MCP_REQUESTING_MCCs, MCP_WAIT_ACCEPTANCE
  <2>4. agent'[agent[u].child] = agent[agent[u].child]
    BY <1>0, <1>5, <1>b, <2>2, <2>3, BargainOthers
  <2> QED
    BY <1>a, <1>b, <1>e, <2>1, <2>2, <2>4
<1>6. ASSUME NEW m \in msgs, m.dst \in Ids, Deliver, BargainReceive(m), u = m.dst
      PROVE  /\ phase' = "net"
             /\ agent'[u].child \in Ids /\ agent'[u].child > u
             /\ agent'[agent'[u].child].state = MCP_INIT
  <2>1. ReceiveConstraintRequest(m)
    BY <1>2, <1>6
    DEF BargainReceive, ReceiveMCCsForItem, ReceiveNegotiationRequest, ReceiveNegotiationResult,
        ReceiveItemRequest, ReceiveConstraintAcceptance, Is
  <2>2. ~ConstraintMet(m) /\ ~ConstraintTooDeep(m)
    <3>1. ConstraintMet(m) \/ ConstraintTooDeep(m) => agent'[u].state = UCP_FINISHED
      BY <1>0, <1>6, OwnState DEF ConstraintMet, ConstraintTooDeep
    <3> QED
      BY <1>1, <3>1 DEF UCP_IDLE, UCP_FINISHED
  <2>3. ConstraintSearched(m)
    BY <2>1, <2>2 DEF ReceiveConstraintRequest
  <2> DEFINE parent == SearchingDeeper(agent[m.dst])
             child == NewMCP(ScratchNode, m.item, agent[m.dst].give, agent[m.dst].depth + 1)
  <2>4. CreateChild(m.dst, parent, child)
    BY <2>3 DEF ConstraintSearched
  <2>5. child.state = MCP_INIT
    BY NewAgentsFields
  <2>6. parent \in [DOMAIN agent[u] -> {parent[x] : x \in DOMAIN agent[u]}]
        /\ "child" \in DOMAIN agent[u]
    BY <1>0, <1>6, AgentParts DEF SearchingDeeper, Agent
  <2> HIDE DEF parent, child
  <2>7. nextId \in Ids /\ nextId # u /\ agent'[nextId] = child
        /\ agent'[u] = [parent EXCEPT !.child = nextId]
    BY <1>0, <1>2, <1>6, <2>4, SteadyCreateChild
  <2>8. agent'[u].child = nextId
    BY <2>6, <2>7
  <2>9. u < nextId
    BY <1>0, <1>2, <2>7, IdsArePositive DEF FreshIds
  <2> QED
    BY <1>6, <2>5, <2>7, <2>8, <2>9, BargainPlace
<1> QED
  BY <1>3, <1>4, <1>5, <1>6, TradeStep

LEMMA SearchInvStep ==
  ASSUME TypeOK, BargainInv, LifeInv, SearchInv, [Next]_vars, ~CloseCluster, ~KillCluster
  PROVE  SearchInv'
<1>0. FreshIds /\ ChildrenTyped /\ PayerAsked /\ ~StartCluster
  BY DEF BargainInv, LifeInv, SearchInv, StartCluster
<1>1. Life
  BY <1>0, LifeStep
<1>2. phase' # "down"
  <2>1. UpdateEnds \/ ExchangeEnds \/ PruneEnds \/ FrameEnds => phase' # "down"
    BY DEF UpdateEnds, ExchangeEnds, PruneEnds, LoopEnds, FrameEnds
  <2> QED
    BY <1>0, <2>1, LoopStep DEF SearchInv
<1>3. phase' # "net" => pending' = {}
  <2>1. FrameEnds => pending' = {}
    BY DEF FrameEnds
  <2> QED
    BY <2>1, PendingStep DEF SearchInv
<1>4. ASSUME NEW i \in Ids, agent'[i].valid PROVE i \in Reachable'
  <2>1. CASE agent[i].valid
    <3>1. i \in Reachable
      BY <2>1 DEF SearchInv
    <3>2. FrameEnds => i \in present'
      BY <2>1, <3>1 DEF FrameEnds, SurvivingAgents
    <3> QED
      BY <3>1, <3>2, PendingStep DEF Reachable
  <2>2. CASE ~agent[i].valid
    <3>1. Born(i)
      BY <1>1, <1>4, <2>2 DEF Life, Lives, Ages
    <3> QED
      BY <3>1 DEF Born, Reachable
  <2> QED
    BY <2>1, <2>2
<1>5. ASSUME NEW u \in Ids, Waits(u)' PROVE FreshSearch(u)'
  <2>1. CASE /\ phase' = "net"
             /\ agent'[u].child \in Ids /\ agent'[u].child > u
             /\ agent'[agent'[u].child].state = MCP_INIT
    BY <2>1 DEF FreshSearch
  <2>2. CASE /\ Waits(u) /\ FreshSearch(u) /\ agent'[u].child = agent[u].child
             /\ agent'[agent[u].child].state = MCP_INIT
             /\ \A i \in Ids : UpdateAgent(i) => i < u
    <3>1. phase' = "net" \/ (phase' = "update" /\ u \in todo')
      <4>1. CASE phase' = phase /\ todo' = todo
        BY <2>2, <4>1 DEF FreshSearch
      <4>2. ASSUME NEW i \in Ids, UpdateAgent(i) \/ ExchangeAgent(i) \/ PruneAgent(i)
            PROVE  phase' = "update" /\ u \in todo'
        <5>1. UpdateAgent(i)
          BY <2>2, <4>2 DEF FreshSearch, ExchangeAgent, PruneAgent, Visit
        <5> QED
          BY <2>2, <5>1, BargainPlace DEF FreshSearch
      <4>3. CASE UpdateEnds \/ ExchangeEnds \/ PruneEnds
        <5>1. phase = "update" => ~UpdateEnds
          <6>1. UpdateActs(u)
            BY <2>2, IdsArePositive DEF FreshSearch, Waits, UpdateActs, PetitionerActs, Is
          <6> QED
            BY <2>2, <6>1 DEF FreshSearch, Waits, UpdateEnds, LoopEnds
        <5> QED
          BY <2>2, <4>3, <5>1 DEF FreshSearch, UpdateEnds, ExchangeEnds, PruneEnds, LoopEnds
      <4>4. CASE FrameEnds
        <5>1. u \in Reachable /\ agent[u].valid
          BY <2>2 DEF Waits, SearchInv
        <5> QED
          BY <4>4, <5>1 DEF FrameEnds, SurvivingAgents
      <4>5. CASE phase = "gui"
        BY <2>2, <4>5 DEF FreshSearch
      <4> QED
        BY <1>0, <4>1, <4>2, <4>3, <4>4, <4>5, LoopStep
    <3> QED
      BY <2>2, <3>1 DEF FreshSearch
  <2>3. TypeOK /\ FreshIds
    BY <1>0
  <2> QED
    BY <1>0, <1>1, <1>5, <2>1, <2>2, WaitsStep
<1> QED
  BY <1>2, <1>3, <1>4, <1>5 DEF SearchInv

LEMMA SearchInit == Init => SearchInv
<1> SUFFICES ASSUME Init PROVE SearchInv
  OBVIOUS
<1>1. \A i \in Ids : agent[i].kind = "none" /\ ~agent[i].valid
  <2>1. \A i \in Ids : agent[i] = NoAgent
    BY DEF Init, AgentsInit
  <2>2. NoAgent.kind = "none" /\ ~NoAgent.valid
    BY NoAgentType DEF NoAgent, NewAgent
  <2> QED
    BY <2>1, <2>2
<1>2. phase = "update" /\ pending = {}
  BY DEF Init, AgentsInit
<1> QED
  BY <1>1, <1>2 DEF SearchInv, Waits, Is

(* A nested search is first looked at before it has begun.                 *)
LEMMA SearchInvariant ==
  ASSUME ClusterStays
  PROVE  Spec => []SearchInv
<1>1. TypeOK /\ BargainInv /\ LifeInv /\ SearchInv /\ [Next]_vars => SearchInv'
  BY Bounds, SearchInvStep
<1> QED
  BY <1>1, SearchInit, TypeCorrect, BargainsAreTrue, LifeInvariant, PTL DEF Spec

-----------------------------------------------------------------------------
(* Talks: a UCP and the UCC it was sent to.                                *)

(* UCC c has not been asked for its item yet.                              *)
Untouched(c) == agent[c].kind = "UCC" /\ agent[c].state \in {UCC_INIT, UCC_WAITING_REQUEST}

(* UCC c bargains for MCC p.                                               *)
Behind(p, c) == agent[p].kind = "MCC" /\ agent[p].child = c /\ agent[p].want = agent[c].want

TalksTo(u, c) == agent[u].kind = "UCP" /\ agent[u].location = c

(* Each packet of a bargain is the one its ends wait for.                  *)
Timely(m) ==
  /\ m.type = "ItemRequest" => agent[m.src].state = UCP_REQUEST_ITEM /\ Untouched(m.dst)
  /\ m.type = "ConstraintRequest" =>
       agent[m.src].state = UCC_WAITING_CONSTRAINT /\ agent[m.dst].state = UCP_REQUEST_ITEM
  /\ m.type = "ConstraintAcceptance" =>
       /\ TalksTo(m.src, m.dst)
       /\ agent[m.src].state = UCP_FINISHED /\ agent[m.src].success = m.accepted
       /\ agent[m.dst].kind = "UCC" /\ agent[m.dst].state = UCC_WAITING_CONSTRAINT
  /\ Invitation(m) =>
       /\ Untouched(m.location) /\ Behind(m.src, m.location)
       /\ \A u \in Ids : ~TalksTo(u, m.location)

TimelyTokens == \A m \in msgs \cup outgoing : Timely(m)

(* No packet of a bargain is sent twice, and no two invite to one UCC.     *)
OnceInFlight ==
  /\ \A m \in msgs \cap outgoing : ~Token(m)
  /\ \A m, n \in msgs \cup outgoing :
       Invitation(m) /\ Invitation(n) /\ m.location = n.location => m = n

OneUCP == \A u, v \in Ids, c \in Ids : TalksTo(u, c) /\ TalksTo(v, c) => u = v

(* Behind UCC c stands an MCC that gives what UCP u wants; unless the      *)
(* bargain was refused, when the MCC may have turned to another one.       *)
Backed(u, c) ==
  \/ Refused(c)
  \/ \E p \in Ids : Behind(p, c) /\ agent[p].give = agent[u].want

(* How far UCP u and UCC c have got.                                       *)
Talking(u, c) ==
  /\ agent[c].kind = "UCC"
  /\ agent[u].state \in {UCP_INIT, UCP_REQUEST_ITEM, UCP_IDLE, UCP_FINISHED}
  /\ agent[u].state = UCP_INIT => Untouched(c)
  /\ agent[u].state = UCP_IDLE => agent[c].state = UCC_WAITING_CONSTRAINT
  /\ agent[u].state = UCP_FINISHED =>
       \/ agent[c].state = UCC_WAITING_CONSTRAINT
       \/ agent[c].state = UCC_FINISHED /\ agent[c].success = agent[u].success
  /\ agent[c].state = UCC_FINISHED => agent[u].state = UCP_FINISHED
  /\ agent[u].success => agent[u].give = agent[c].want

(* A UCP that was sent nowhere waits for ever.                             *)
Stranded(u) == agent[u].state \in {UCP_INIT, UCP_REQUEST_ITEM} /\ ~agent[u].success

Talks ==
  \A u \in Ids :
    agent[u].kind = "UCP" =>
      IF agent[u].location = Nowhere THEN Stranded(u)
      ELSE Talking(u, agent[u].location) /\ Backed(u, agent[u].location)

TalkInv == TimelyTokens /\ OnceInFlight /\ OneUCP /\ Talks

LEMMA UCPLocation ==
  ASSUME AgentsTypeOK, NEW u \in Ids, agent[u].location # Nowhere
  PROVE  agent[u].location \in Ids
  BY AgentParts

(* What a token in flight says of its ends.                                *)
LEMMA TokenParts ==
  ASSUME AgentsTypeOK, NEW m \in Packet, Token(m), Timely(m), Faithful(m)
  PROVE  /\ m.src \in Ids /\ m.dst \in Ids
         /\ \/ /\ m.type = "ItemRequest" /\ TalksTo(m.src, m.dst)
               /\ agent[m.src].state = UCP_REQUEST_ITEM /\ Untouched(m.dst)
            \/ /\ m.type = "ConstraintRequest" /\ TalksTo(m.dst, m.src)
               /\ agent[m.dst].state = UCP_REQUEST_ITEM
               /\ agent[m.src].kind = "UCC" /\ agent[m.src].state = UCC_WAITING_CONSTRAINT
               /\ m.item = agent[m.src].want
            \/ /\ m.type = "ConstraintAcceptance" /\ TalksTo(m.src, m.dst)
               /\ agent[m.src].state = UCP_FINISHED /\ agent[m.src].success = m.accepted
               /\ agent[m.dst].kind = "UCC" /\ agent[m.dst].state = UCC_WAITING_CONSTRAINT
            \/ /\ Invitation(m) /\ m.location \in Ids
               /\ Untouched(m.location) /\ Behind(m.src, m.location)
               /\ \A u \in Ids : ~TalksTo(u, m.location)
<1>1. m.type \in {"ItemRequest", "ConstraintRequest", "ConstraintAcceptance",
                  "NegotiationRequestResult"}
  BY DEF Token, Invitation
<1>2. m.src \in Ids /\ m.dst \in Ids
  BY <1>1, PacketParts DEF ToYellowPages
<1>3. Invitation(m) => m.location \in Ids
  BY PacketParts DEF Invitation
<1> QED
  BY <1>1, <1>2, <1>3 DEF Token, Timely, Faithful, TalksTo

LEMMA SamePacket ==
  ASSUME NEW m \in Packet, NEW n \in Packet, m.type = n.type, m.src = n.src, m.dst = n.dst
  PROVE  /\ m.type = "ItemRequest" => m = n
         /\ m.type = "ConstraintRequest" /\ m.item = n.item => m = n
         /\ m.type = "ConstraintAcceptance" /\ m.accepted = n.accepted => m = n
<1>1. m.type = "ItemRequest" =>
        /\ m \in [type : {"NegotiationRequest", "ItemRequest"}, src : Ids, dst : Ids]
        /\ n \in [type : {"NegotiationRequest", "ItemRequest"}, src : Ids, dst : Ids]
  BY DEF Packet
<1>2. m.type = "ConstraintRequest" =>
        /\ m \in [type : {"ConstraintRequest"}, src : Ids, dst : Ids, item : Items]
        /\ n \in [type : {"ConstraintRequest"}, src : Ids, dst : Ids, item : Items]
  BY DEF Packet
<1>3. m.type = "ConstraintAcceptance" =>
        /\ m \in [type : {"ConstraintAcceptance"}, src : Ids, dst : Ids, accepted : BOOLEAN]
        /\ n \in [type : {"ConstraintAcceptance"}, src : Ids, dst : Ids, accepted : BOOLEAN]
  BY DEF Packet
<1> QED
  BY <1>1, <1>2, <1>3

(* An MCC turns from its UCC only after a refusal, which is final.         *)
LEMMA BehindKept ==
  ASSUME AgentsTypeOK, Life, ChildrenTyped, IdentitiesKept,
         NEW p \in Ids, NEW c \in Ids, agent[c].kind = "UCC", Behind(p, c), ~Refused(c)
  PROVE  Behind(p, c)' /\ agent'[p].give = agent[p].give
<1>1. agent[p].kind = "MCC" /\ agent[p].child = c /\ agent[p].want = agent[c].want /\ c # Nobody
  BY IdsArePositive DEF Behind
<1>2. Lives(p) /\ Lives(c)
  BY <1>1 DEF Life, Born
<1>3. agent[p].state # MCC_IDLE
  BY <1>1 DEF ChildrenTyped, Is
<1>4. agent'[p].child = c
  BY <1>1, <1>2, <1>3 DEF Lives, MCCStep
<1> QED
  BY <1>1, <1>2, <1>4 DEF Behind, Lives, Ages, SameIdentity

LEMMA RefusedKept ==
  ASSUME Life, NEW c \in Ids, agent[c].kind = "UCC", Refused(c)
  PROVE  Refused(c)'
  BY DEF Life, Born, Lives, Ages, Refused

LEMMA BackedKept ==
  ASSUME AgentsTypeOK, Life, ChildrenTyped, IdentitiesKept,
         NEW u \in Ids, NEW c \in Ids, agent[u].kind = "UCP", agent[c].kind = "UCC", Backed(u, c)
  PROVE  Backed(u, c)'
<1>1. agent'[u].want = agent[u].want
  BY DEF IdentitiesKept, SameIdentity, Created
<1>2. CASE Refused(c)
  BY <1>2, RefusedKept DEF Backed
<1>3. CASE ~Refused(c)
  <2>1. PICK p \in Ids : Behind(p, c) /\ agent[p].give = agent[u].want
    BY <1>3 DEF Backed
  <2> QED
    BY <1>1, <1>3, <2>1, BehindKept DEF Backed
<1> QED
  BY <1>2, <1>3

(* Agents in a talk that do not move in this step, but those in K.         *)
Still(j) == agent'[j].state = agent[j].state /\ agent'[j].success = agent[j].success

StillBut(K) == \A j \in Ids \ K : agent[j].kind \in {"UCC", "UCP"} => Still(j)

NoUCPJoins == \A j \in Ids : agent[j].kind = "none" => agent'[j].kind # "UCP"

LEMMA TalkingOn ==
  ASSUME IdentitiesKept, NEW u \in Ids, NEW c \in Ids, agent[u].kind = "UCP",
         Talking(u, c), Still(u), Still(c)
  PROVE  Talking(u, c)'
<1>1. /\ agent'[c].kind = agent[c].kind /\ agent'[c].want = agent[c].want
      /\ agent'[u].give = agent[u].give
  BY DEF Talking, IdentitiesKept, SameIdentity, Created
<1> QED
  BY <1>1 DEF Talking, Still, Untouched

LEMMA OldUCP ==
  ASSUME IdentitiesKept, NoUCPJoins, NEW u \in Ids, agent'[u].kind = "UCP"
  PROVE  agent[u].kind = "UCP" /\ agent'[u].location = agent[u].location
  BY DEF IdentitiesKept, NoUCPJoins, SameIdentity, Created

(* Talks go on if the talk of the agent that moves, x, does.               *)
LEMMA TalksOn ==
  ASSUME AgentsTypeOK, Life, ChildrenTyped, IdentitiesKept, OneUCP, Talks, NoUCPJoins,
         NEW x, StillBut({x}),
         \A u \in Ids : agent[u].kind = "UCP" /\ agent[u].location # Nowhere
                        /\ x \in {u, agent[u].location} => Talking(u, agent[u].location)',
         \A u \in Ids : u = x /\ TalksTo(u, Nowhere) => Stranded(u)'
  PROVE  OneUCP' /\ Talks'
<1>1. OneUCP'
  BY OldUCP DEF OneUCP, TalksTo
<1>2. Talks'
  <2> SUFFICES ASSUME NEW u \in Ids, agent'[u].kind = "UCP"
               PROVE  IF agent'[u].location = Nowhere THEN Stranded(u)'
                      ELSE (Talking(u, agent[u].location) /\ Backed(u, agent[u].location))'
    BY DEF Talks
  <2>1. agent[u].kind = "UCP" /\ agent'[u].location = agent[u].location
    BY OldUCP
  <2>2. CASE agent[u].location = Nowhere
    <3>1. Stranded(u)
      BY <2>1, <2>2 DEF Talks
    <3>2. u # x => Still(u)
      BY <2>1 DEF StillBut
    <3> QED
      BY <2>1, <2>2, <3>1, <3>2 DEF Still, Stranded, TalksTo
  <2>3. CASE agent[u].location # Nowhere
    <3>0. PICK c \in Ids : c = agent[u].location
      BY <2>3, UCPLocation
    <3>1. Talking(u, c) /\ Backed(u, c) /\ agent[c].kind = "UCC"
      BY <2>1, <2>3, <3>0 DEF Talks, Talking
    <3>2. Backed(u, c)'
      BY <2>1, <3>1, BackedKept
    <3>3. CASE x \in {u, c}
      BY <2>1, <2>3, <3>0, <3>2, <3>3
    <3>4. CASE x \notin {u, c}
      <4>1. Still(u) /\ Still(c)
        BY <2>1, <3>1, <3>4 DEF StillBut
      <4>2. Talking(u, c)'
        BY <2>1, <3>1, <4>1, TalkingOn
      <4> QED
        BY <2>1, <2>3, <3>0, <3>2, <4>2
    <3> QED
      BY <3>3, <3>4
  <2> QED
    BY <2>2, <2>3
<1> QED
  BY <1>1, <1>2

(* The state of agent x matters to token m.                                *)
Touches(m, x) == IF Invitation(m) THEN m.location = x ELSE x \in {m.src, m.dst}

(* A UCP created in this step talks to l.                                  *)
NewUCPAt(l) ==
  \A j \in Ids : agent[j].kind = "none" /\ agent'[j].kind = "UCP" => agent'[j].location = l

LEMMA TokenlessTimely ==
  ASSUME NEW m, ~Token(m)
  PROVE  Timely(m)'
  BY DEF Token, Timely, Invitation

LEMMA TokenKept ==
  ASSUME AgentsTypeOK, Life, ChildrenTyped, IdentitiesKept,
         NEW m \in Packet, Token(m), Timely(m), Faithful(m),
         NEW x, StillBut({x}), ~Touches(m, x),
         NEW l, NewUCPAt(l), Invitation(m) => m.location # l
  PROVE  Timely(m)'
<1>1. ASSUME NEW j \in Ids, j # x, agent[j].kind \in {"UCC", "UCP"}
      PROVE  /\ agent'[j].kind = agent[j].kind /\ agent'[j].location = agent[j].location
             /\ agent'[j].state = agent[j].state /\ agent'[j].success = agent[j].success
  BY <1>1 DEF StillBut, Still, IdentitiesKept, SameIdentity, Created
<1>2. CASE Invitation(m)
  <2>1. m.type = "NegotiationRequestResult" /\ Invitation(m)'
    BY <1>2 DEF Invitation
  <2>2. /\ m.src \in Ids /\ m.location \in Ids
        /\ Untouched(m.location) /\ Behind(m.src, m.location)
        /\ \A u \in Ids : ~TalksTo(u, m.location)
    BY <1>2, <2>1, TokenParts
  <2>3. m.location # x /\ agent[m.location].kind = "UCC"
    BY <1>2, <2>2 DEF Touches, Untouched
  <2>4. Untouched(m.location)'
    BY <1>1, <2>2, <2>3 DEF Untouched
  <2>5. ~Refused(m.location)
    BY <2>2 DEF Untouched, Refused, UCC_INIT, UCC_WAITING_REQUEST, UCC_FINISHED
  <2>6. Behind(m.src, m.location)'
    BY <2>2, <2>3, <2>5, BehindKept
  <2>7. \A u \in Ids : ~TalksTo(u, m.location)'
    <3> SUFFICES ASSUME NEW u \in Ids, agent'[u].kind = "UCP"
                 PROVE  agent'[u].location # m.location
      BY DEF TalksTo
    <3>1. CASE agent[u].kind = "none"
      BY <1>2, <3>1 DEF NewUCPAt
    <3>2. CASE agent[u].kind # "none"
      BY <2>2, <3>2 DEF TalksTo, IdentitiesKept, SameIdentity, Created
    <3> QED
      BY <3>1, <3>2
  <2> QED
    BY <2>1, <2>4, <2>6, <2>7 DEF Timely
<1>3. CASE ~Invitation(m)
  <2>1. m.src # x /\ m.dst # x
    BY <1>3 DEF Touches
  <2>2. m.src \in Ids /\ m.dst \in Ids
    BY TokenParts
  <2>3. ~Invitation(m)'
    BY <1>3 DEF Invitation
  <2>4. CASE m.type = "ItemRequest"
    <3>1. TalksTo(m.src, m.dst) /\ agent[m.src].state = UCP_REQUEST_ITEM /\ Untouched(m.dst)
      BY <1>3, <2>4, TokenParts
    <3> QED
      BY <1>1, <2>1, <2>2, <2>3, <2>4, <3>1 DEF Timely, TalksTo, Untouched
  <2>5. CASE m.type = "ConstraintRequest"
    <3>1. /\ TalksTo(m.dst, m.src) /\ agent[m.dst].state = UCP_REQUEST_ITEM
          /\ agent[m.src].kind = "UCC" /\ agent[m.src].state = UCC_WAITING_CONSTRAINT
      BY <1>3, <2>5, TokenParts
    <3> QED
      BY <1>1, <2>1, <2>2, <2>3, <2>5, <3>1 DEF Timely, TalksTo
  <2>6. CASE m.type = "ConstraintAcceptance"
    <3>1. /\ TalksTo(m.src, m.dst)
          /\ agent[m.src].state = UCP_FINISHED /\ agent[m.src].success = m.accepted
          /\ agent[m.dst].kind = "UCC" /\ agent[m.dst].state = UCC_WAITING_CONSTRAINT
      BY <1>3, <2>6, TokenParts
    <3> QED
      BY <1>1, <2>1, <2>2, <2>3, <2>6, <3>1 DEF Timely, TalksTo
  <2> QED
    BY <1>3, <2>4, <2>5, <2>6 DEF Token
<1> QED
  BY <1>2, <1>3

(* Agent x moves, the packets of S arrive, and packet q is sent.           *)
LEMMA TokensOn ==
  ASSUME TypeOK, FaithfulPackets, TimelyTokens, OnceInFlight, Life, ChildrenTyped,
         IdentitiesKept, NEW x, StillBut({x}), NEW l, NewUCPAt(l),
         NEW S \in SUBSET msgs, msgs' \subseteq msgs \ S,
         NEW q, outgoing' \subseteq outgoing \cup {q},
         Token(q) =>
           /\ Timely(q)' /\ q \notin msgs'
           /\ Invitation(q) =>
                \A m \in msgs \cup outgoing :
                  Invitation(m) /\ m.location = q.location => m \in S,
         \A m \in msgs \cup outgoing :
           Token(m) /\ m \notin S =>
             (Touches(m, x) => Timely(m)') /\ (Invitation(m) => m.location # l)
  PROVE  TimelyTokens' /\ OnceInFlight'
<1>1. ASSUME NEW m \in msgs' \cup outgoing', Token(m), ~(m = q)
      PROVE  m \in msgs \cup outgoing /\ m \notin S
  BY <1>1 DEF OnceInFlight
<1>2. TimelyTokens'
  <2> SUFFICES ASSUME NEW m \in msgs' \cup outgoing' PROVE Timely(m)'
    BY DEF TimelyTokens
  <2>1. CASE ~Token(m)
    BY <2>1, TokenlessTimely
  <2>2. CASE m = q /\ Token(m)
    BY <2>2
  <2>3. CASE m # q /\ Token(m)
    <3>1. m \in msgs \cup outgoing /\ m \notin S
      BY <1>1, <2>3
    <3>2. m \in Packet /\ Timely(m) /\ Faithful(m) /\ AgentsTypeOK
      BY <3>1 DEF TypeOK, AgentsTypeOK, TimelyTokens, FaithfulPackets
    <3>3. (Touches(m, x) => Timely(m)') /\ (Invitation(m) => m.location # l)
      BY <2>3, <3>1
    <3> QED
      BY <2>3, <3>2, <3>3, TokenKept
  <2> QED
    BY <2>1, <2>2, <2>3
<1>3. \A m \in msgs' \cap outgoing' : ~Token(m)
  BY DEF OnceInFlight
<1>4. ASSUME NEW m \in msgs' \cup outgoing', NEW n \in msgs' \cup outgoing',
             Invitation(m), Invitation(n), m.location = n.location
      PROVE  m = n
  <2>1. Token(m) /\ Token(n)
    BY <1>4 DEF Token
  <2>2. CASE m # q /\ n # q
    BY <1>1, <1>4, <2>1, <2>2 DEF OnceInFlight
  <2>3. CASE m = q /\ n # q
    BY <1>1, <1>4, <2>1, <2>3
  <2>4. CASE m # q /\ n = q
    BY <1>1, <1>4, <2>1, <2>4
  <2> QED
    BY <2>2, <2>3, <2>4
<1>5. OnceInFlight'
  BY <1>3, <1>4 DEF OnceInFlight, Token, Invitation
<1> QED
  BY <1>2, <1>5

LEMMA NewUCPNowhere ==
  ASSUME NoUCPJoins, NEW l
  PROVE  NewUCPAt(l)
  BY DEF NoUCPJoins, NewUCPAt

(* Nobody outside a talk matters to a token.                               *)
LEMMA OutsideTalks ==
  ASSUME TypeOK, FaithfulPackets, TimelyTokens, NEW m \in msgs \cup outgoing, Token(m),
         NEW x, x \in Ids => agent[x].kind \notin {"UCC", "UCP"}
  PROVE  ~Touches(m, x)
<1>1. m \in Packet /\ Timely(m) /\ Faithful(m) /\ AgentsTypeOK
  BY DEF TypeOK, AgentsTypeOK, TimelyTokens, FaithfulPackets
<1> QED
  BY <1>1, TokenParts DEF Touches, TalksTo, Untouched, Invitation

LEMMA TalkCalm ==
  ASSUME TypeOK, FaithfulPackets, TalkInv, Life, ChildrenTyped, IdentitiesKept,
         GarbageIsNowhere, Calm
  PROVE  TalkInv'
<1>0. /\ AgentsTypeOK /\ TimelyTokens /\ OnceInFlight /\ OneUCP /\ Talks
      /\ SteadyBut({}) /\ NobodyJoins({}) /\ NoNewTokens /\ Nobody \notin Ids
  BY IdsArePositive DEF TypeOK, TalkInv, Calm
<1>1. StillBut({Nobody}) /\ NoUCPJoins
  BY <1>0 DEF SteadyBut, Steady, NobodyJoins, StillBut, Still, NoUCPJoins
<1>2. OneUCP' /\ Talks'
  <2>1. \A u \in Ids : agent[u].kind = "UCP" /\ agent[u].location # Nowhere
                       /\ Nobody \in {u, agent[u].location} => FALSE
    BY <1>0 DEF Nobody, Nowhere
  <2>2. \A u \in Ids : u # Nobody
    BY <1>0
  <2> QED
    BY <1>0, <1>1, <2>1, <2>2, TalksOn
<1>3. ASSUME NEW m \in msgs \cup outgoing, Token(m) PROVE Timely(m)'
  <2>1. m \in Packet /\ Timely(m) /\ Faithful(m)
    BY <1>0 DEF AgentsTypeOK, TimelyTokens, FaithfulPackets
  <2>2. ~Touches(m, Nobody)
    BY <1>0, <1>3, OutsideTalks
  <2>3. NewUCPAt(Nowhere)
    BY <1>1, NewUCPNowhere
  <2>4. Invitation(m) => m.location # Nowhere
    BY DEF Invitation
  <2> QED
    BY <1>0, <1>1, <1>3, <2>1, <2>2, <2>3, <2>4, TokenKept
<1>4. TimelyTokens'
  <2> SUFFICES ASSUME NEW m \in msgs' \cup outgoing' PROVE Timely(m)'
    BY DEF TimelyTokens
  <2>1. Token(m) => m \in msgs \cup outgoing
    BY <1>0 DEF NoNewTokens
  <2> QED
    BY <1>3, <2>1, TokenlessTimely
<1>5. OnceInFlight'
  <2>1. \A m \in msgs' \cap outgoing' : ~Token(m)
    BY <1>0 DEF NoNewTokens, OnceInFlight
  <2>2. \A m \in msgs' \cup outgoing' : Invitation(m) => m \in msgs \cup outgoing
    BY <1>0 DEF NoNewTokens, Token
  <2>3. \A m, n \in msgs' \cup outgoing' :
          Invitation(m) /\ Invitation(n) /\ m.location = n.location => m = n
    BY <1>0, <2>2 DEF OnceInFlight
  <2> QED
    BY <2>1, <2>3 DEF OnceInFlight, Token, Invitation
<1> QED
  BY <1>2, <1>4, <1>5 DEF TalkInv

LEMMA BargainStill ==
  ASSUME AgentsTypeOK, FreshIds
  PROVE  /\ \A i \in Ids : BargainUpdate(i) => StillBut({i}) /\ NoUCPJoins
         /\ \A m \in msgs : m.dst \in Ids /\ BargainReceive(m) => StillBut({m.dst})
<1>1. ASSUME NEW i \in Ids, BargainUpdate(i) PROVE StillBut({i}) /\ NoUCPJoins
  <2>1. \A j \in Ids \ {i} : agent'[j] = agent[j]
    BY <1>1, BargainOthers
  <2>2. agent[i].kind # "none"
    BY <1>1 DEF BargainUpdate, MCPQuery, UCCStart, UCPStart, UCPConclude, Is
  <2> QED
    BY <2>1, <2>2 DEF StillBut, Still, NoUCPJoins
<1>2. ASSUME NEW m \in msgs, m.dst \in Ids, BargainReceive(m) PROVE StillBut({m.dst})
  <2>1. \A j \in Ids \ {m.dst} : agent[j].kind # "none" => agent'[j] = agent[j]
    BY <1>2, BargainOthers
  <2> QED
    BY <2>1 DEF StillBut, Still
<1> QED
  BY <1>1, <1>2

(* The start of a search, and of its list of contributors, moves no talk.  *)
LEMMA TalkOutside ==
  ASSUME TypeOK, FaithfulPackets, TalkInv, Life, ChildrenTyped, IdentitiesKept,
         NEW x \in Ids, agent[x].kind \notin {"UCC", "UCP"}, StillBut({x}), NoUCPJoins,
         NEW q, ~Token(q), msgs' \subseteq msgs, outgoing' \subseteq outgoing \cup {q}
  PROVE  TalkInv'
<1>0. AgentsTypeOK /\ TimelyTokens /\ OnceInFlight /\ OneUCP /\ Talks
  BY DEF TypeOK, TalkInv
<1>1. OneUCP' /\ Talks'
  <2>1. \A u \in Ids : agent[u].kind = "UCP" /\ agent[u].location # Nowhere
                       /\ x \in {u, agent[u].location} => FALSE
    BY <1>0 DEF Talks, Talking
  <2>2. \A u \in Ids : ~(u = x /\ TalksTo(u, Nowhere))
    BY DEF TalksTo
  <2> QED
    BY <1>0, <2>1, <2>2, TalksOn
<1>2. NewUCPAt(Nowhere)
  BY NewUCPNowhere
<1>3. \A m \in msgs \cup outgoing :
        Token(m) => ~Touches(m, x) /\ (Invitation(m) => m.location # Nowhere)
  BY <1>0, OutsideTalks DEF Invitation
<1>4. {} \in SUBSET msgs /\ msgs' \subseteq msgs \ {}
  OBVIOUS
<1>5. TimelyTokens' /\ OnceInFlight'
  BY <1>0, <1>2, <1>3, <1>4, TokensOn
<1> QED
  BY <1>1, <1>5 DEF TalkInv

(* The tokens to which the state of a UCC or a UCP matters.                *)
LEMMA TouchingTokens ==
  ASSUME TypeOK, FaithfulPackets, TimelyTokens, NEW m \in msgs \cup outgoing, Token(m),
         NEW x \in Ids, Touches(m, x)
  PROVE  /\ Untouched(x) =>
              \/ m.type = "ItemRequest" /\ m.dst = x
              \/ Invitation(m) /\ m.location = x
         /\ Is(x, "UCC", UCC_WAITING_CONSTRAINT) =>
              \/ m.type = "ConstraintRequest" /\ m.src = x
              \/ m.type = "ConstraintAcceptance" /\ m.dst = x
         /\ Is(x, "UCP", UCP_REQUEST_ITEM) =>
              \/ m.type = "ItemRequest" /\ m.src = x
              \/ m.type = "ConstraintRequest" /\ m.dst = x
         /\ ~Is(x, "UCP", UCP_INIT) /\ ~Is(x, "UCP", UCP_IDLE)
<1>1. m \in Packet /\ Timely(m) /\ Faithful(m) /\ AgentsTypeOK
  BY DEF TypeOK, AgentsTypeOK, TimelyTokens, FaithfulPackets
<1>2. CASE Invitation(m)
  <2>1. m.location = x /\ Untouched(x)
    BY <1>1, <1>2, TokenParts DEF Touches, Invitation
  <2> QED
    BY <1>2, <2>1 DEF Untouched, Is, UCC_INIT, UCC_WAITING_REQUEST, UCC_WAITING_CONSTRAINT
<1>3. CASE ~Invitation(m)
  <2>0. x = m.src \/ x = m.dst
    BY <1>3 DEF Touches
  <2>1. CASE m.type = "ItemRequest"
    BY <1>1, <1>3, <2>0, <2>1, TokenParts
    DEF TalksTo, Untouched, Is, UCC_INIT, UCC_WAITING_REQUEST, UCC_WAITING_CONSTRAINT,
        UCP_INIT, UCP_REQUEST_ITEM, UCP_IDLE
  <2>2. CASE m.type = "ConstraintRequest"
    BY <1>1, <1>3, <2>0, <2>2, TokenParts
    DEF TalksTo, Untouched, Is, UCC_INIT, UCC_WAITING_REQUEST, UCC_WAITING_CONSTRAINT,
        UCP_INIT, UCP_REQUEST_ITEM, UCP_IDLE
  <2>3. CASE m.type = "ConstraintAcceptance"
    BY <1>1, <1>3, <2>0, <2>3, TokenParts
    DEF TalksTo, Untouched, Is, UCC_INIT, UCC_WAITING_REQUEST, UCC_WAITING_CONSTRAINT,
        UCP_INIT, UCP_REQUEST_ITEM, UCP_IDLE, UCP_FINISHED
  <2> QED
    BY <1>3, <2>1, <2>2, <2>3 DEF Token
<1> QED
  BY <1>2, <1>3

LEMMA TalkUCCStart ==
  ASSUME TypeOK, FaithfulPackets, TalkInv, FreshIds, Life, ChildrenTyped, IdentitiesKept,
         NEW x \in Ids, UCCStart(x)
  PROVE  TalkInv'
<1>0. AgentsTypeOK /\ TimelyTokens /\ OnceInFlight /\ OneUCP /\ Talks
  BY DEF TypeOK, TalkInv
<1>1. agent[x].kind = "UCC" /\ agent[x].state = UCC_INIT /\ Untouched(x)
  BY DEF UCCStart, Is, Untouched
<1>2. agent'[x].state = UCC_WAITING_REQUEST /\ agent'[x].success = agent[x].success
  BY <1>0, OwnState DEF UCCStart
<1>3. agent'[x].kind = "UCC" /\ agent'[x].want = agent[x].want /\ Untouched(x)'
  BY <1>1, <1>2 DEF IdentitiesKept, SameIdentity, Created, Untouched
<1>4. StillBut({x}) /\ NoUCPJoins
  BY <1>0, BargainStill DEF BargainUpdate
<1>5. OneUCP' /\ Talks'
  <2>1. ASSUME NEW u \in Ids, agent[u].kind = "UCP", agent[u].location # Nowhere,
               x \in {u, agent[u].location}
        PROVE  Talking(u, agent[u].location)'
    <3>1. agent[u].location = x /\ u # x /\ Still(u)
      BY <1>1, <1>4, <2>1 DEF StillBut
    <3>2. Talking(u, x)
      BY <1>0, <2>1, <3>1 DEF Talks
    <3>3. agent[u].state \in {UCP_INIT, UCP_REQUEST_ITEM}
      BY <1>1, <3>2
      DEF Talking, UCC_INIT, UCC_WAITING_CONSTRAINT, UCC_FINISHED
    <3>4. agent'[u].location = x /\ agent'[u].give = agent[u].give
      BY <2>1, <3>1 DEF IdentitiesKept, SameIdentity, Created
    <3>5. Talking(u, x)'
      BY <1>2, <1>3, <3>1, <3>2, <3>3, <3>4
      DEF Talking, Still, UCP_INIT, UCP_REQUEST_ITEM, UCP_IDLE, UCP_FINISHED,
          UCC_WAITING_REQUEST, UCC_FINISHED
    <3> QED
      BY <3>4, <3>5
  <2>2. \A u \in Ids : ~(u = x /\ TalksTo(u, Nowhere))
    BY <1>1 DEF TalksTo
  <2> QED
    BY <1>0, <1>4, <2>1, <2>2, TalksOn
<1>6. TimelyTokens' /\ OnceInFlight'
  <2>1. NewUCPAt(Nowhere)
    BY <1>4, NewUCPNowhere
  <2>2. ASSUME NEW m \in msgs \cup outgoing, Token(m), Touches(m, x) PROVE Timely(m)'
    <3>0. m \in Packet /\ Timely(m) /\ Faithful(m)
      BY <1>0 DEF AgentsTypeOK, TimelyTokens, FaithfulPackets
    <3>1. CASE m.type = "ItemRequest" /\ m.dst = x
      <4>1. TalksTo(m.src, m.dst) /\ m.src \in Ids /\ agent[m.src].state = UCP_REQUEST_ITEM
        BY <1>0, <2>2, <3>0, <3>1, TokenParts DEF Invitation
      <4>2. Still(m.src)
        BY <1>1, <1>4, <4>1 DEF StillBut, TalksTo
      <4> QED
        BY <1>3, <3>1, <4>1, <4>2 DEF Timely, Still, Invitation
    <3>2. CASE Invitation(m) /\ m.location = x
      <4>1. Behind(m.src, x) /\ m.src \in Ids /\ \A u \in Ids : ~TalksTo(u, x)
        BY <1>0, <2>2, <3>0, <3>2, TokenParts DEF Invitation
      <4>2. Behind(m.src, x)'
        BY <1>0, <1>1, <4>1, BehindKept DEF Refused, UCC_INIT, UCC_FINISHED
      <4>3. \A u \in Ids : ~TalksTo(u, x)'
        BY <1>4, <4>1, OldUCP DEF TalksTo
      <4> QED
        BY <1>3, <3>2, <4>2, <4>3 DEF Timely, Invitation
    <3> QED
      BY <1>0, <1>1, <2>2, <3>1, <3>2, TouchingTokens
  <2>3. msgs' = msgs /\ outgoing' = outgoing
    BY DEF UCCStart, netVars
  <2>4. PICK q : ~Token(q)
    <3>1. ~Token([type |-> "RegisterMCCAck", dst |-> x])
      BY DEF Token, Invitation
    <3> QED
      BY <3>1
  <2>5. \A m \in msgs \cup outgoing : Invitation(m) => m.location # Nowhere
    BY DEF Invitation
  <2> QED
    BY <1>0, <1>4, <2>1, <2>2, <2>3, <2>4, <2>5, TokensOn
<1> QED
  BY <1>5, <1>6 DEF TalkInv

(* Agent x moves, S arrives and q, which invites no one, is sent: the      *)
(* talks go on if the talk of x does.                                      *)
LEMMA TalkMoves ==
  ASSUME TypeOK, FaithfulPackets, TalkInv, Life, ChildrenTyped, IdentitiesKept,
         NEW x \in Ids, StillBut({x}), NoUCPJoins,
         NEW S \in SUBSET msgs, msgs' \subseteq msgs \ S,
         NEW q, outgoing' \subseteq outgoing \cup {q}, ~Invitation(q),
         Token(q) => Timely(q)' /\ q \notin msgs',
         \A m \in msgs \cup outgoing : Token(m) /\ m \notin S /\ Touches(m, x) => Timely(m)',
         \A u, c \in Ids : TalksTo(u, c) /\ x \in {u, c} => Talking(u, c)',
         TalksTo(x, Nowhere) => Stranded(x)'
  PROVE  TalkInv'
<1>0. AgentsTypeOK /\ TimelyTokens /\ OnceInFlight /\ OneUCP /\ Talks
  BY DEF TypeOK, TalkInv
<1>1. OneUCP' /\ Talks'
  <2>1. ASSUME NEW u \in Ids, agent[u].kind = "UCP", agent[u].location # Nowhere,
               x \in {u, agent[u].location}
        PROVE  Talking(u, agent[u].location)'
    <3>1. PICK c \in Ids : c = agent[u].location
      BY <1>0, <2>1, UCPLocation
    <3>2. Talking(u, c)'
      BY <2>1, <3>1 DEF TalksTo
    <3>3. agent'[u].location = c
      BY <2>1, <3>1 DEF IdentitiesKept, SameIdentity, Created
    <3> QED
      BY <3>2, <3>3
  <2> QED
    BY <1>0, <2>1, TalksOn
<1>2. NewUCPAt(Nowhere)
  BY NewUCPNowhere
<1>3. \A m \in msgs \cup outgoing :
        Token(m) /\ m \notin S =>
          (Touches(m, x) => Timely(m)') /\ (Invitation(m) => m.location # Nowhere)
  BY DEF Invitation
<1>4. TimelyTokens' /\ OnceInFlight'
  BY <1>0, <1>2, <1>3, TokensOn
<1> QED
  BY <1>1, <1>4 DEF TalkInv

LEMMA TalkUCPStart ==
  ASSUME TypeOK, FaithfulPackets, TalkInv, FreshIds, Life, ChildrenTyped, IdentitiesKept,
         NEW x \in Ids, UCPStart(x)
  PROVE  TalkInv'
<1>0. AgentsTypeOK /\ TimelyTokens /\ Talks
  BY DEF TypeOK, TalkInv
<1>1. agent[x].kind = "UCP" /\ agent[x].state = UCP_INIT /\ Is(x, "UCP", UCP_INIT)
  BY DEF UCPStart, Is
<1>2. agent'[x].state = UCP_REQUEST_ITEM /\ agent'[x].success = agent[x].success
  BY <1>0, OwnState DEF UCPStart
<1>3. /\ agent'[x].kind = "UCP" /\ agent'[x].location = agent[x].location
      /\ agent'[x].give = agent[x].give
  BY <1>1 DEF IdentitiesKept, SameIdentity, Created
<1>4. StillBut({x}) /\ NoUCPJoins
  BY <1>0, BargainStill DEF BargainUpdate
<1>5. ASSUME NEW u \in Ids, NEW c \in Ids, TalksTo(u, c), x \in {u, c}
      PROVE  Talking(u, c)' /\ u = x /\ Untouched(c)'
  <2>1. Talking(u, c) /\ c # Nowhere
    BY <1>0, <1>5, IdsArePositive DEF Talks, TalksTo
  <2>2. u = x /\ c # x /\ agent[c].kind = "UCC"
    BY <1>1, <1>5, <2>1 DEF Talking
  <2>3. Still(c) /\ agent'[c].kind = "UCC" /\ agent'[c].want = agent[c].want
    BY <1>4, <2>2 DEF StillBut, IdentitiesKept, SameIdentity, Created
  <2>4. Untouched(c)
    BY <1>1, <2>1, <2>2 DEF Talking
  <2> QED
    BY <1>2, <1>3, <2>1, <2>2, <2>3, <2>4
    DEF Talking, Untouched, Still, UCP_INIT, UCP_REQUEST_ITEM, UCP_IDLE, UCP_FINISHED,
        UCC_INIT, UCC_WAITING_REQUEST, UCC_FINISHED
<1>6. TalksTo(x, Nowhere) => Stranded(x)'
  BY <1>0, <1>2 DEF Talks, TalksTo, Stranded
<1>7. \A m \in msgs \cup outgoing : Token(m) => ~Touches(m, x)
  BY <1>0, <1>1, TouchingTokens
<1>8. {} \in SUBSET msgs /\ msgs' \subseteq msgs \ {}
  BY DEF UCPStart
<1>9. CASE agent[x].location = Nowhere
  <2>1. ~Token([type |-> "RegisterMCCAck", dst |-> x])
          /\ ~Invitation([type |-> "RegisterMCCAck", dst |-> x])
    BY DEF Token, Invitation
  <2>2. outgoing' \subseteq outgoing \cup {[type |-> "RegisterMCCAck", dst |-> x]}
    BY <1>9 DEF UCPStart, Send, PacketTo
  <2> QED
    BY <1>4, <1>5, <1>6, <1>7, <1>8, <2>1, <2>2, TalkMoves
<1>10. CASE agent[x].location # Nowhere
  <2>1. PICK c \in Ids : c = agent[x].location
    BY <1>0, <1>10, UCPLocation
  <2> DEFINE q == [type |-> "ItemRequest", src |-> x, dst |-> c]
  <2>2. q.type = "ItemRequest" /\ q.src = x /\ q.dst = c
    OBVIOUS
  <2>3. outgoing' \subseteq outgoing \cup {q}
    BY <1>10, <2>1 DEF UCPStart, Send, PacketTo
  <2> HIDE DEF q
  <2>4. ~Invitation(q) /\ ~Invitation(q)' /\ Token(q) /\ Touches(q, x)
    BY <2>2 DEF Invitation, Token, Touches
  <2>5. Untouched(c)'
    BY <1>1, <1>5, <2>1 DEF TalksTo
  <2>6. Timely(q)' /\ q \notin msgs'
    BY <1>2, <1>7, <1>8, <2>2, <2>4, <2>5 DEF Timely
  <2> QED
    BY <1>4, <1>5, <1>6, <1>7, <1>8, <2>3, <2>4, <2>6, TalkMoves
<1> QED
  BY <1>9, <1>10

(* A UCP that waits concludes before its search has begun: it refuses.     *)
LEMMA TalkUCPConclude ==
  ASSUME TypeOK, FaithfulPackets, TalkInv, FreshIds, Life, ChildrenTyped, IdentitiesKept,
         SearchInv, NEW x \in Ids, agent[x].valid, UCPConclude(x)
  PROVE  TalkInv'
<1>0. AgentsTypeOK /\ TimelyTokens /\ Talks
  BY DEF TypeOK, TalkInv
<1>1. agent[x].kind = "UCP" /\ agent[x].state = UCP_IDLE /\ Is(x, "UCP", UCP_IDLE)
  BY DEF UCPConclude, Is
<1>2. agent[agent[x].child].state # UCP_FINISHED
  BY <1>1 DEF SearchInv, Waits, FreshSearch, MCP_INIT, UCP_FINISHED
<1>3. agent'[x].state = UCP_FINISHED /\ agent'[x].success = FALSE
  BY <1>0, <1>2, OwnState DEF UCPConclude
<1>4. /\ agent'[x].kind = "UCP" /\ agent'[x].location = agent[x].location
      /\ agent'[x].give = agent[x].give
  BY <1>1 DEF IdentitiesKept, SameIdentity, Created
<1>5. StillBut({x}) /\ NoUCPJoins
  BY <1>0, BargainStill DEF BargainUpdate
<1>6. agent[x].location # Nowhere
  BY <1>0, <1>1 DEF Talks, Stranded, UCP_INIT, UCP_REQUEST_ITEM, UCP_IDLE
<1>7. ASSUME NEW u \in Ids, NEW c \in Ids, TalksTo(u, c), x \in {u, c}
      PROVE  /\ Talking(u, c)' /\ u = x
             /\ agent'[c].kind = "UCC" /\ agent'[c].state = UCC_WAITING_CONSTRAINT
  <2>1. Talking(u, c) /\ c # Nowhere
    BY <1>0, <1>7, IdsArePositive DEF Talks, TalksTo
  <2>2. u = x /\ c # x /\ agent[c].kind = "UCC"
    BY <1>1, <1>7, <2>1 DEF Talking
  <2>3. Still(c) /\ agent'[c].kind = "UCC" /\ agent'[c].want = agent[c].want
    BY <1>5, <2>2 DEF StillBut, IdentitiesKept, SameIdentity, Created
  <2>4. agent[c].state = UCC_WAITING_CONSTRAINT
    BY <1>1, <2>1, <2>2 DEF Talking
  <2> QED
    BY <1>3, <1>4, <2>1, <2>2, <2>3, <2>4
    DEF Talking, Untouched, Still, UCP_INIT, UCP_REQUEST_ITEM, UCP_IDLE, UCP_FINISHED,
        UCC_FINISHED, UCC_WAITING_CONSTRAINT
<1>8. ~TalksTo(x, Nowhere)
  BY <1>6 DEF TalksTo
<1>9. \A m \in msgs \cup outgoing : Token(m) => ~Touches(m, x)
  BY <1>0, <1>1, TouchingTokens
<1>10. {} \in SUBSET msgs /\ msgs' \subseteq msgs \ {}
  BY DEF UCPConclude
<1>11. PICK c \in Ids : c = agent[x].location
  BY <1>0, <1>6, UCPLocation
<1> DEFINE q == [type |-> "ConstraintAcceptance", src |-> x, dst |-> c, accepted |-> FALSE]
<1>12. q.type = "ConstraintAcceptance" /\ q.src = x /\ q.dst = c /\ q.accepted = FALSE
  OBVIOUS
<1>13. outgoing' \subseteq outgoing \cup {q}
  BY <1>6, <1>11 DEF UCPConclude, Send, PacketTo
<1> HIDE DEF q
<1>14. ~Invitation(q) /\ ~Invitation(q)' /\ Token(q) /\ Touches(q, x)
  BY <1>12 DEF Invitation, Token, Touches
<1>15. agent'[c].kind = "UCC" /\ agent'[c].state = UCC_WAITING_CONSTRAINT
  BY <1>1, <1>7, <1>11 DEF TalksTo
<1>16. Timely(q)' /\ q \notin msgs'
  BY <1>3, <1>4, <1>9, <1>10, <1>11, <1>12, <1>14, <1>15 DEF Timely, TalksTo
<1> QED
  BY <1>5, <1>7, <1>8, <1>9, <1>10, <1>13, <1>14, <1>16, TalkMoves

LEMMA TalkItemRequest ==
  ASSUME TypeOK, FaithfulPackets, TalkInv, FreshIds, Life, ChildrenTyped, IdentitiesKept,
         NEW m \in msgs, m.dst \in Ids, ReceiveItemRequest(m), NoUCPJoins
  PROVE  TalkInv'
<1>0. AgentsTypeOK /\ TimelyTokens /\ Talks /\ OneUCP
  BY DEF TypeOK, TalkInv
<1>a. m \in Packet /\ Timely(m) /\ Faithful(m) /\ m.type = "ItemRequest" /\ ~Invitation(m)
        /\ Token(m)
  BY <1>0 DEF AgentsTypeOK, TimelyTokens, FaithfulPackets, ReceiveItemRequest, Invitation, Token
<1>b. PICK x \in Ids, v \in Ids : x = m.dst /\ v = m.src
  BY <1>a, PacketParts
<1>1. agent[x].kind = "UCC" /\ agent[x].state = UCC_WAITING_REQUEST /\ Untouched(x)
  BY <1>b DEF ReceiveItemRequest, Is, Untouched
<1>2. TalksTo(v, x) /\ agent[v].state = UCP_REQUEST_ITEM
  BY <1>0, <1>a, <1>b, TokenParts
<1>3. agent' = [agent EXCEPT ![x].state = UCC_WAITING_CONSTRAINT]
  BY <1>b DEF ReceiveItemRequest
<1>4. agent'[x].state = UCC_WAITING_CONSTRAINT /\ agent'[x].success = agent[x].success
  BY <1>0, <1>3, OwnState
<1>5. agent'[x].kind = "UCC" /\ agent'[x].want = agent[x].want
  BY <1>1 DEF IdentitiesKept, SameIdentity, Created
<1>6. StillBut({x})
  BY <1>0, <1>b, BargainStill DEF BargainReceive
<1>7. /\ Still(v) /\ v # x /\ agent'[v].kind = "UCP" /\ agent'[v].location = x
      /\ agent'[v].give = agent[v].give
  BY <1>1, <1>2, <1>6 DEF StillBut, TalksTo, IdentitiesKept, SameIdentity, Created
<1>8. ASSUME NEW u \in Ids, NEW c \in Ids, TalksTo(u, c), x \in {u, c} PROVE Talking(u, c)'
  <2>1. c = x /\ u = v
    BY <1>0, <1>1, <1>2, <1>8 DEF TalksTo, OneUCP
  <2>2. Talking(v, x)
    BY <1>0, <1>2, IdsArePositive DEF Talks, TalksTo
  <2> QED
    BY <1>2, <1>4, <1>5, <1>7, <2>1, <2>2
    DEF Talking, Still, UCP_INIT, UCP_REQUEST_ITEM, UCP_IDLE, UCP_FINISHED,
        UCC_FINISHED, UCC_WAITING_CONSTRAINT
<1>9. ~TalksTo(x, Nowhere)
  BY <1>1 DEF TalksTo
<1>10. {m} \in SUBSET msgs /\ msgs' \subseteq msgs \ {m}
  BY DEF ReceiveItemRequest
<1>11. ASSUME NEW n \in msgs \cup outgoing, Token(n), n \notin {m} PROVE ~Touches(n, x)
  <2>0. n \in Packet /\ Timely(n) /\ Faithful(n)
    BY <1>0 DEF AgentsTypeOK, TimelyTokens, FaithfulPackets
  <2>1. CASE n.type = "ItemRequest" /\ n.dst = x
    <3>1. TalksTo(n.src, x) /\ n.src \in Ids
      BY <1>0, <1>11, <2>0, <2>1, TokenParts DEF Invitation
    <3>2. n.src = v
      BY <1>0, <1>2, <3>1 DEF OneUCP
    <3> QED
      BY <1>a, <1>b, <1>11, <2>0, <2>1, <3>2, SamePacket
  <2>2. CASE Invitation(n) /\ n.location = x
    BY <1>0, <1>2, <1>11, <2>0, <2>2, TokenParts DEF Invitation
  <2> QED
    BY <1>0, <1>1, <1>11, <2>1, <2>2, TouchingTokens
<1>w. PICK w : w = agent[x].want
  OBVIOUS
<1> DEFINE q == [type |-> "ConstraintRequest", src |-> x, dst |-> v, item |-> w]
<1>12. q.type = "ConstraintRequest" /\ q.src = x /\ q.dst = v
  OBVIOUS
<1>13. outgoing' \subseteq outgoing \cup {q}
  BY <1>b, <1>w DEF ReceiveItemRequest, Send
<1> HIDE DEF q
<1>14. ~Invitation(q) /\ ~Invitation(q)' /\ Token(q) /\ Touches(q, x)
  BY <1>12 DEF Invitation, Token, Touches
<1>15. Timely(q)' /\ q \notin msgs'
  BY <1>2, <1>4, <1>7, <1>10, <1>11, <1>12, <1>14 DEF Timely, Still
<1> QED
  BY <1>6, <1>8, <1>9, <1>10, <1>11, <1>13, <1>14, <1>15, TalkMoves

LEMMA TalkAcceptance ==
  ASSUME TypeOK, FaithfulPackets, TalkInv, FreshIds, Life, ChildrenTyped, IdentitiesKept,
         NEW m \in msgs, m.dst \in Ids, ReceiveConstraintAcceptance(m), NoUCPJoins
  PROVE  TalkInv'
<1>0. AgentsTypeOK /\ TimelyTokens /\ Talks /\ OneUCP
  BY DEF TypeOK, TalkInv
<1>a. /\ m \in Packet /\ Timely(m) /\ Faithful(m) /\ m.type = "ConstraintAcceptance"
      /\ ~Invitation(m) /\ Token(m)
  BY <1>0
  DEF AgentsTypeOK, TimelyTokens, FaithfulPackets, ReceiveConstraintAcceptance, Invitation, Token
<1>b. PICK x \in Ids, v \in Ids : x = m.dst /\ v = m.src
  BY <1>a, PacketParts
<1>1. /\ agent[x].kind = "UCC" /\ agent[x].state = UCC_WAITING_CONSTRAINT
      /\ Is(x, "UCC", UCC_WAITING_CONSTRAINT)
  BY <1>b DEF ReceiveConstraintAcceptance, Is
<1>2. TalksTo(v, x) /\ agent[v].state = UCP_FINISHED /\ agent[v].success = m.accepted
  BY <1>0, <1>a, <1>b, TokenParts
<1>3. agent' = [agent EXCEPT ![x] = [@ EXCEPT !.success = m.accepted, !.state = UCC_FINISHED]]
  BY <1>b DEF ReceiveConstraintAcceptance
<1>4. agent'[x].state = UCC_FINISHED /\ agent'[x].success = m.accepted
  BY <1>0, <1>3, OwnState
<1>5. agent'[x].kind = "UCC" /\ agent'[x].want = agent[x].want
  BY <1>1 DEF IdentitiesKept, SameIdentity, Created
<1>6. StillBut({x})
  BY <1>0, <1>b, BargainStill DEF BargainReceive
<1>7. /\ Still(v) /\ v # x /\ agent'[v].kind = "UCP" /\ agent'[v].location = x
      /\ agent'[v].give = agent[v].give
  BY <1>1, <1>2, <1>6 DEF StillBut, TalksTo, IdentitiesKept, SameIdentity, Created
<1>8. ASSUME NEW u \in Ids, NEW c \in Ids, TalksTo(u, c), x \in {u, c} PROVE Talking(u, c)'
  <2>1. c = x /\ u = v
    BY <1>0, <1>1, <1>2, <1>8 DEF TalksTo, OneUCP
  <2>2. Talking(v, x)
    BY <1>0, <1>2, IdsArePositive DEF Talks, TalksTo
  <2> QED
    BY <1>2, <1>4, <1>5, <1>7, <2>1, <2>2
    DEF Talking, Still, UCP_INIT, UCP_REQUEST_ITEM, UCP_IDLE, UCP_FINISHED,
        UCC_FINISHED, UCC_WAITING_CONSTRAINT
<1>9. ~TalksTo(x, Nowhere)
  BY <1>1 DEF TalksTo
<1>10. {m} \in SUBSET msgs /\ msgs' \subseteq msgs \ {m}
  BY DEF ReceiveConstraintAcceptance
<1>11. ASSUME NEW n \in msgs \cup outgoing, Token(n), n \notin {m} PROVE ~Touches(n, x)
  <2>0. n \in Packet /\ Timely(n) /\ Faithful(n)
    BY <1>0 DEF AgentsTypeOK, TimelyTokens, FaithfulPackets
  <2>1. CASE n.type = "ConstraintAcceptance" /\ n.dst = x
    <3>1. TalksTo(n.src, x) /\ n.src \in Ids /\ agent[n.src].success = n.accepted
      BY <1>0, <1>11, <2>0, <2>1, TokenParts DEF Invitation
    <3>2. n.src = v
      BY <1>0, <1>2, <3>1 DEF OneUCP
    <3> QED
      BY <1>a, <1>b, <1>2, <1>11, <2>0, <2>1, <3>1, <3>2, SamePacket
  <2>2. CASE n.type = "ConstraintRequest" /\ n.src = x
    <3>1. TalksTo(n.dst, x) /\ n.dst \in Ids /\ agent[n.dst].state = UCP_REQUEST_ITEM
      BY <1>0, <1>11, <2>0, <2>2, TokenParts DEF Invitation
    <3>2. n.dst = v
      BY <1>0, <1>2, <3>1 DEF OneUCP
    <3> QED
      BY <1>2, <3>1, <3>2 DEF UCP_REQUEST_ITEM, UCP_FINISHED
  <2> QED
    BY <1>0, <1>1, <1>11, <2>1, <2>2, TouchingTokens
<1>12. PICK q : ~Token(q) /\ ~Invitation(q)
  <2>1. ~Token([type |-> "RegisterMCCAck", dst |-> x])
        /\ ~Invitation([type |-> "RegisterMCCAck", dst |-> x])
    BY DEF Token, Invitation
  <2> QED
    BY <2>1
<1>13. outgoing' \subseteq outgoing \cup {q}
  BY DEF ReceiveConstraintAcceptance
<1> QED
  BY <1>6, <1>8, <1>9, <1>10, <1>11, <1>12, <1>13, TalkMoves

LEMMA TalkConstraintRequest ==
  ASSUME TypeOK, FaithfulPackets, TalkInv, SuccessIsFinal, FreshIds, Life, ChildrenTyped,
         IdentitiesKept, NEW m \in msgs, m.dst \in Ids, ReceiveConstraintRequest(m), NoUCPJoins
  PROVE  TalkInv'
<1>0. AgentsTypeOK /\ TimelyTokens /\ Talks /\ OneUCP
  BY DEF TypeOK, TalkInv
<1>a. /\ m \in Packet /\ Timely(m) /\ Faithful(m) /\ m.type = "ConstraintRequest"
      /\ ~Invitation(m) /\ Token(m)
  BY <1>0
  DEF AgentsTypeOK, TimelyTokens, FaithfulPackets, ReceiveConstraintRequest, Invitation, Token
<1>b. PICK x \in Ids, y \in Ids : x = m.dst /\ y = m.src
  BY <1>a, PacketParts
<1>1. /\ TalksTo(x, y) /\ agent[x].state = UCP_REQUEST_ITEM /\ agent[x].kind = "UCP"
      /\ agent[y].kind = "UCC" /\ agent[y].state = UCC_WAITING_CONSTRAINT
      /\ m.item = agent[y].want
  BY <1>0, <1>a, <1>b, TokenParts DEF TalksTo
<1>2. agent[x].success = FALSE /\ Is(x, "UCP", UCP_REQUEST_ITEM) /\ x # y
  <2>1. agent[x].success \in BOOLEAN
    <3>1. agent[x] \in Agent
      BY <1>0, AgentParts
    <3> QED
      BY <3>1 DEF Agent
  <2> QED
    BY <1>1, <2>1 DEF SuccessIsFinal, UCP_REQUEST_ITEM, UCP_FINISHED, Is
<1>3. StillBut({x})
  BY <1>0, <1>b, BargainStill DEF BargainReceive
<1>4. /\ agent'[x].kind = "UCP" /\ agent'[x].location = y /\ agent'[x].give = agent[x].give
      /\ agent'[y].kind = "UCC" /\ agent'[y].want = m.item
      /\ agent'[y].state = UCC_WAITING_CONSTRAINT /\ agent'[y].success = agent[y].success
  BY <1>1, <1>2, <1>3 DEF StillBut, Still, TalksTo, IdentitiesKept, SameIdentity, Created
<1>5. {m} \in SUBSET msgs /\ msgs' \subseteq msgs \ {m}
  BY DEF ReceiveConstraintRequest
<1>6. ASSUME NEW n \in msgs \cup outgoing, Token(n), n \notin {m} PROVE ~Touches(n, x)
  <2>0. n \in Packet /\ Timely(n) /\ Faithful(n)
    BY <1>0 DEF AgentsTypeOK, TimelyTokens, FaithfulPackets
  <2>1. CASE n.type = "ConstraintRequest" /\ n.dst = x
    <3>1. TalksTo(x, n.src) /\ n.item = agent[n.src].want
      BY <1>0, <1>6, <2>0, <2>1, TokenParts DEF Invitation
    <3>2. n.src = y /\ n.item = m.item
      BY <1>1, <3>1 DEF TalksTo
    <3> QED
      BY <1>a, <1>b, <1>6, <2>0, <2>1, <3>2, SamePacket
  <2>2. CASE n.type = "ItemRequest" /\ n.src = x
    <3>1. TalksTo(x, n.dst) /\ Untouched(n.dst)
      BY <1>0, <1>6, <2>0, <2>2, TokenParts DEF Invitation
    <3> QED
      BY <1>1, <3>1
      DEF TalksTo, Untouched, UCC_INIT, UCC_WAITING_REQUEST, UCC_WAITING_CONSTRAINT
  <2> QED
    BY <1>0, <1>2, <1>6, <2>1, <2>2, TouchingTokens
<1>7. ~TalksTo(x, Nowhere)
  BY <1>1, IdsArePositive DEF TalksTo
(* The talk goes on when x waits, refuses, or gives what was asked for.    *)
<1>8. ASSUME agent'[x].state = UCP_IDLE \/ agent'[x].state = UCP_FINISHED,
             agent'[x].success => agent[x].give = m.item
      PROVE  \A u, c \in Ids : TalksTo(u, c) /\ x \in {u, c} => Talking(u, c)'
  <2> SUFFICES ASSUME NEW u \in Ids, NEW c \in Ids, TalksTo(u, c), x \in {u, c}
               PROVE  Talking(u, c)'
    OBVIOUS
  <2>1. Talking(u, c)
    BY <1>0, <1>8, IdsArePositive DEF Talks, TalksTo
  <2>2. u = x /\ c = y
    BY <1>1, <2>1 DEF Talking, TalksTo
  <2>3. Talking(x, y)'
    BY <1>4, <1>8
    DEF Talking, UCP_INIT, UCP_REQUEST_ITEM, UCP_IDLE, UCP_FINISHED,
        UCC_FINISHED, UCC_WAITING_CONSTRAINT
  <2> QED
    BY <2>2, <2>3
(* x tells the verdict it is left with.                                    *)
<1>9. ASSUME NEW b \in BOOLEAN, agent'[x].state = UCP_FINISHED, agent'[x].success = b,
             b => agent[x].give = m.item, Send({Acceptance(m, b)})
      PROVE  TalkInv'
  <2> DEFINE q == [type |-> "ConstraintAcceptance", src |-> x, dst |-> y, accepted |-> b]
  <2>1. q.type = "ConstraintAcceptance" /\ q.src = x /\ q.dst = y /\ q.accepted = b
    OBVIOUS
  <2>2. outgoing' \subseteq outgoing \cup {q}
    BY <1>b, <1>9 DEF Send, Acceptance
  <2> HIDE DEF q
  <2>3. ~Invitation(q) /\ ~Invitation(q)' /\ Token(q) /\ Touches(q, x)
    BY <2>1 DEF Invitation, Token, Touches
  <2>4. q \notin msgs'
    BY <1>5, <1>6, <2>3
  <2>5. Timely(q)'
    BY <1>4, <1>9, <2>1, <2>3 DEF Timely, TalksTo
  <2>6. \A u, c \in Ids : TalksTo(u, c) /\ x \in {u, c} => Talking(u, c)'
    BY <1>8, <1>9
  <2> QED
    BY <1>3, <1>5, <1>6, <1>7, <2>2, <2>3, <2>4, <2>5, <2>6, TalkMoves
<1>10. CASE m.item = agent[x].give /\ ConstraintMet(m)
  <2>1. agent' = [agent EXCEPT ![x] = [@ EXCEPT !.success = TRUE, !.state = UCP_FINISHED]]
    BY <1>b, <1>10 DEF ConstraintMet
  <2>2. agent'[x].state = UCP_FINISHED /\ agent'[x].success = TRUE
    BY <1>0, <2>1, OwnState
  <2> QED
    BY <1>9, <1>10, <2>2 DEF ConstraintMet
<1>11. CASE ConstraintTooDeep(m)
  <2>1. agent' = [agent EXCEPT ![x].state = UCP_FINISHED] /\ Send({Acceptance(m, FALSE)})
    BY <1>b, <1>2, <1>11 DEF ConstraintTooDeep
  <2>2. agent'[x].state = UCP_FINISHED /\ agent'[x].success = FALSE
    BY <1>0, <1>2, <2>1, OwnState
  <2> QED
    BY <1>9, <2>1, <2>2
<1>12. CASE ConstraintSearched(m) /\ agent[x].depth # MaxSearchDepth
  <2>0. agent[x] \in Agent
    BY <1>0, AgentParts
  <2>1. /\ SearchingDeeper(agent[x]).state = UCP_IDLE
        /\ SearchingDeeper(agent[x]).success = FALSE
        /\ SearchingDeeper(agent[x]) \in Agent
    <3>1. SearchingDeeper(agent[x]) \in Agent
      BY <1>12, <2>0, SearchingDeeperType
    <3> QED
      BY <1>2, <2>0, <3>1 DEF SearchingDeeper, Agent
  <2>2. x # nextId
    <3>1. nextId \in Ids => agent[nextId].kind = "none"
      <4>1. nextId \in Ids => nextId \in Nat /\ nextId >= nextId
        BY IdsArePositive
      <4> QED
        BY <4>1 DEF FreshIds
    <3> QED
      BY <1>1, <3>1
  <2>3. agent'[x] = [SearchingDeeper(agent[x]) EXCEPT !.child = nextId]
    BY <1>b, <1>12, <2>2 DEF ConstraintSearched, CreateChild
  <2>4. agent'[x].state = UCP_IDLE /\ agent'[x].success = FALSE
    <3> DEFINE e == SearchingDeeper(agent[x])
    <3>1. e.state = UCP_IDLE /\ e.success = FALSE /\ e \in Agent
      BY <2>1
    <3> HIDE DEF e
    <3>2. [e EXCEPT !.child = nextId].state = e.state
            /\ [e EXCEPT !.child = nextId].success = e.success
      BY <3>1 DEF Agent
    <3> QED
      BY <2>3, <3>1, <3>2 DEF e
  <2>5. \A u, c \in Ids : TalksTo(u, c) /\ x \in {u, c} => Talking(u, c)'
    BY <1>8, <2>4
  <2>6. PICK q : ~Token(q) /\ ~Invitation(q)
    <3>1. ~Token([type |-> "RegisterMCCAck", dst |-> x])
          /\ ~Invitation([type |-> "RegisterMCCAck", dst |-> x])
      BY DEF Token, Invitation
    <3> QED
      BY <3>1
  <2>7. outgoing' \subseteq outgoing \cup {q}
    BY <1>12 DEF ConstraintSearched
  <2> QED
    BY <1>3, <1>5, <1>6, <1>7, <2>5, <2>6, <2>7, TalkMoves
<1> QED
  BY <1>b, <1>10, <1>11, <1>12 DEF ReceiveConstraintRequest

(* The id of the next agent is not in use.                                 *)
LEMMA NextIsFree ==
  ASSUME FreshIds
  PROVE  nextId \in Ids => agent[nextId].kind = "none"
<1>1. nextId \in Ids => nextId \in Nat /\ nextId >= nextId
  BY IdsArePositive
<1> QED
  BY <1>1 DEF FreshIds

(* An idle MCC creates a UCC and invites the petitioner to it.             *)
LEMMA TalkInvited ==
  ASSUME TypeOK, FaithfulPackets, TalkInv, FreshIds, Life, ChildrenTyped, IdentitiesKept,
         NEW m \in msgs, m.dst \in Ids, ReceiveNegotiationRequest(m), NegotiationRequestAccepted(m)
  PROVE  TalkInv'
<1>0. AgentsTypeOK /\ TimelyTokens /\ OnceInFlight /\ OneUCP /\ Talks
  BY DEF TypeOK, TalkInv
<1>a. PICK x \in Ids : x = m.dst
  OBVIOUS
<1>b. PICK v, w, z : v = m.src /\ w = agent[x].want /\ z = nextId
  OBVIOUS
<1>1. agent[x].kind = "MCC" /\ agent[x] \in Agent
  BY <1>0, <1>a, AgentParts DEF ReceiveNegotiationRequest
<1>2. z \in Ids /\ agent[z].kind = "none" /\ z # x /\ z # Nowhere
  BY <1>a, <1>b, <1>1, NextIsFree, IdsArePositive
  DEF NegotiationRequestAccepted, CreateChild, AddAgent
<1>3. /\ agent'[z] = NewUCC(agent[x].node, agent[x].give, w)
      /\ agent'[x] = [[agent[x] EXCEPT !.state = MCC_NEGOCIATING] EXCEPT !.child = z]
      /\ \A j \in Ids \ {x, z} : agent'[j] = agent[j]
  BY <1>a, <1>b, <1>2 DEF NegotiationRequestAccepted, CreateChild
<1>4. agent'[z].kind = "UCC" /\ agent'[z].state = UCC_INIT /\ agent'[z].want = w
  BY <1>3 DEF NewUCC, NewAgent, UCC_INIT
<1>5. agent'[x].kind = "MCC" /\ agent'[x].want = w /\ agent'[x].child = z
  BY <1>b, <1>1, <1>3 DEF Agent
<1>6. StillBut({x})
  BY <1>0, <1>a, BargainStill DEF BargainReceive
<1>7. NoUCPJoins
  BY <1>2, <1>3, <1>4, <1>5 DEF NoUCPJoins
<1>8. OneUCP' /\ Talks'
  <2>1. \A u \in Ids : agent[u].kind = "UCP" /\ agent[u].location # Nowhere
                       /\ x \in {u, agent[u].location} => FALSE
    BY <1>0, <1>1 DEF Talks, Talking
  <2>2. \A u \in Ids : ~(u = x /\ TalksTo(u, Nowhere))
    BY <1>1 DEF TalksTo
  <2> QED
    BY <1>0, <1>6, <1>7, <2>1, <2>2, TalksOn
<1>9. NewUCPAt(Nowhere)
  BY <1>7, NewUCPNowhere
<1>10. ASSUME NEW n \in msgs \cup outgoing, Invitation(n) PROVE n.location # z
  <2>1. n \in Packet /\ Timely(n) /\ Faithful(n) /\ Token(n)
    BY <1>0, <1>10 DEF AgentsTypeOK, TimelyTokens, FaithfulPackets, Token
  <2> QED
    BY <1>2, <1>10, <2>1 DEF Timely, Untouched
<1> DEFINE q == [type |-> "NegotiationRequestResult", src |-> x, dst |-> v,
                 available |-> TRUE, location |-> z]
<1>11. q.type = "NegotiationRequestResult" /\ q.src = x /\ q.available /\ q.location = z
  OBVIOUS
<1>12. outgoing' \subseteq outgoing \cup {q}
  BY <1>a, <1>b DEF NegotiationRequestAccepted, Send, NegotiationResult
<1> HIDE DEF q
<1>13. {m} \in SUBSET msgs /\ msgs' \subseteq msgs \ {m}
  BY DEF ReceiveNegotiationRequest
<1>14. Invitation(q) /\ q \notin msgs'
  BY <1>2, <1>10, <1>11, <1>13 DEF Invitation
<1>15. ASSUME NEW u \in Ids PROVE ~TalksTo(u, z)'
  <2>1. agent'[u].kind = "UCP" => agent[u].kind = "UCP" /\ agent'[u].location = agent[u].location
    BY <1>7, OldUCP
  <2>2. agent[u].kind = "UCP" => agent[u].location # z
    BY <1>0, <1>2 DEF Talks, Talking
  <2> QED
    BY <2>1, <2>2 DEF TalksTo
<1>16. Timely(q)'
  BY <1>4, <1>5, <1>11, <1>15 DEF Timely, Untouched, Behind
<1>17. \A n \in msgs \cup outgoing :
        Token(n) => ~Touches(n, x) /\ (Invitation(n) => n.location # Nowhere)
  BY <1>0, <1>1, OutsideTalks DEF Invitation
<1>18. TimelyTokens' /\ OnceInFlight'
  <2>1. \A n \in msgs \cup outgoing :
          Token(n) /\ n \notin {m} =>
            (Touches(n, x) => Timely(n)') /\ (Invitation(n) => n.location # Nowhere)
    BY <1>17
  <2>2. \A n \in msgs \cup outgoing :
          Invitation(n) /\ n.location = q.location => n \in {m}
    BY <1>10, <1>11
  <2> QED
    BY <1>0, <1>6, <1>9, <1>12, <1>13, <1>14, <1>16, <2>1, <2>2, TokensOn
<1> QED
  BY <1>8, <1>18 DEF TalkInv

(* An invited MCP creates a UCP and sends it to the UCC, or to no one.     *)
LEMMA TalkBegins ==
  ASSUME TypeOK, FaithfulPackets, TalkInv, RoutedInv, FreshIds, Life, ChildrenTyped,
         IdentitiesKept, NEW m \in msgs, m.dst \in Ids, ReceiveNegotiationResult(m), m.available
  PROVE  TalkInv'
<1>0. AgentsTypeOK /\ TimelyTokens /\ OnceInFlight /\ OneUCP /\ Talks
  BY DEF TypeOK, TalkInv
<1>a. /\ m \in Packet /\ Timely(m) /\ Faithful(m) /\ Routed(m)
      /\ m.type = "NegotiationRequestResult"
  BY <1>0
  DEF AgentsTypeOK, TimelyTokens, FaithfulPackets, RoutedInv, RoutedPackets,
      ReceiveNegotiationResult
<1>b. PICK x \in Ids, p \in Ids : x = m.dst /\ p = m.src
  BY <1>a, PacketParts
<1>c. PICK l, w, z : l = m.location /\ w = agent[x].want /\ z = nextId
  OBVIOUS
<1>1. /\ agent[x].kind = "MCP" /\ agent[x] \in Agent
      /\ agent[p].kind = "MCC" /\ agent[p].give = w
  BY <1>0, <1>a, <1>b, <1>c, AgentParts DEF Routed, OffersItem
<1>2. z \in Ids /\ agent[z].kind = "none" /\ z # x
  BY <1>b, <1>c, <1>1, NextIsFree DEF ReceiveNegotiationResult, CreateChild, AddAgent
<1>3. /\ agent'[z] = NewUCP(w, agent[x].give, l, agent[x].depth)
      /\ \A j \in Ids \ {x, z} : agent'[j] = agent[j]
  BY <1>b, <1>c, <1>2 DEF ReceiveNegotiationResult, CreateChild
<1>4. /\ agent'[z].kind = "UCP" /\ agent'[z].state = UCP_INIT /\ agent'[z].success = FALSE
      /\ agent'[z].location = l /\ agent'[z].want = w
  BY <1>3 DEF NewUCP, NewAgent, UCP_INIT
<1>5. StillBut({x})
  BY <1>0, <1>b, BargainStill DEF BargainReceive
<1>6. agent'[x].kind = "MCP"
  BY <1>1 DEF IdentitiesKept, SameIdentity, Created
<1>7. \A u \in Ids \ {z} :
        agent'[u].kind = "UCP" =>
          /\ u # x /\ agent[u].kind = "UCP" /\ agent'[u] = agent[u]
  BY <1>3, <1>6
<1>8. l # Nowhere => Invitation(m) /\ l \in Ids
  BY <1>a, <1>c, PacketParts DEF Invitation
<1>9. l # Nowhere => Untouched(l) /\ Behind(p, l) /\ \A u \in Ids : ~TalksTo(u, l)
  BY <1>a, <1>b, <1>c, <1>8 DEF Timely
<1>10. OneUCP'
  <2> SUFFICES ASSUME NEW u \in Ids, NEW v \in Ids, NEW c \in Ids,
                      TalksTo(u, c)', TalksTo(v, c)', u # v
               PROVE  FALSE
    BY DEF OneUCP
  <2>1. c # Nowhere
    BY IdsArePositive
  <2>2. ASSUME NEW s \in Ids, NEW t \in Ids, TalksTo(s, c)', TalksTo(t, c)', s = z, t # z
        PROVE  FALSE
    BY <1>4, <1>7, <1>9, <2>1, <2>2 DEF TalksTo
  <2>3. CASE u # z /\ v # z
    BY <1>0, <1>7, <2>3 DEF TalksTo, OneUCP
  <2> QED
    BY <2>2, <2>3
<1>11. Talks'
  <2>1. ASSUME NEW u \in Ids, u # z, agent'[u].kind = "UCP"
        PROVE  IF agent'[u].location = Nowhere THEN Stranded(u)'
               ELSE (Talking(u, agent[u].location) /\ Backed(u, agent[u].location))'
    <3>1. agent[u].kind = "UCP" /\ agent'[u] = agent[u] /\ Still(u)
      BY <1>7, <2>1 DEF Still
    <3>2. CASE agent[u].location = Nowhere
      BY <1>0, <3>1, <3>2 DEF Talks, Stranded
    <3>3. CASE agent[u].location # Nowhere
      <4>1. PICK c \in Ids : c = agent[u].location
        BY <1>0, <3>3, UCPLocation
      <4>2. Talking(u, c) /\ Backed(u, c) /\ agent[c].kind = "UCC" /\ c # x
        BY <1>0, <1>1, <3>1, <3>3, <4>1 DEF Talks, Talking
      <4>3. Still(c)
        BY <1>5, <4>2 DEF StillBut
      <4>4. Talking(u, c)' /\ Backed(u, c)'
        BY <1>0, <3>1, <4>2, <4>3, TalkingOn, BackedKept
      <4> QED
        BY <3>1, <3>3, <4>1, <4>4
    <3> QED
      BY <3>2, <3>3
  <2>2. CASE l = Nowhere
    <3>1. Stranded(z)'
      BY <1>4 DEF Stranded
    <3> QED
      BY <1>4, <2>1, <2>2, <3>1 DEF Talks
  <2>3. CASE l # Nowhere
    <3>0. PICK c \in Ids : c = l
      BY <1>8, <2>3
    <3>1. /\ agent[c].kind = "UCC" /\ Untouched(c) /\ Behind(p, c) /\ c # x
          /\ ~Refused(c)
      BY <1>1, <1>9, <2>3, <3>0
      DEF Untouched, Refused, UCC_INIT, UCC_WAITING_REQUEST, UCC_FINISHED
    <3>2. Behind(p, c)' /\ agent'[p].give = w
      BY <1>0, <1>1, <3>1, BehindKept
    <3>3. Backed(z, c)'
      BY <1>4, <3>2 DEF Backed
    <3>4. Still(c) /\ agent'[c].kind = "UCC"
      BY <1>5, <3>1 DEF StillBut, IdentitiesKept, SameIdentity, Created
    <3>5. Talking(z, c)'
      BY <1>4, <3>1, <3>4
      DEF Talking, Untouched, Still, UCP_INIT, UCP_REQUEST_ITEM, UCP_IDLE, UCP_FINISHED,
          UCC_INIT, UCC_WAITING_REQUEST, UCC_FINISHED
    <3>6. agent'[z].location = c /\ c # Nowhere
      BY <1>4, <2>3, <3>0
    <3> QED
      BY <2>1, <3>3, <3>5, <3>6 DEF Talks
  <2> QED
    BY <2>2, <2>3
<1>12. NewUCPAt(l)
  BY <1>4, <1>7 DEF NewUCPAt
<1>13. {m} \in SUBSET msgs /\ msgs' \subseteq msgs \ {m} /\ outgoing' = outgoing
  BY DEF ReceiveNegotiationResult
<1>14. ASSUME NEW n \in msgs \cup outgoing, Token(n), n \notin {m}
       PROVE  ~Touches(n, x) /\ (Invitation(n) => n.location # l)
  <2>1. ~Touches(n, x)
    BY <1>0, <1>1, <1>14, OutsideTalks
  <2>2. CASE l = Nowhere
    BY <2>1, <2>2 DEF Invitation
  <2>3. CASE l # Nowhere
    BY <1>0, <1>8, <1>c, <1>14, <2>1, <2>3 DEF OnceInFlight
  <2> QED
    BY <2>2, <2>3
<1>15. PICK q : ~Token(q)
  <2>1. ~Token([type |-> "RegisterMCCAck", dst |-> x])
    BY DEF Token, Invitation
  <2> QED
    BY <2>1
<1>16. TimelyTokens' /\ OnceInFlight'
  <2>1. \A n \in msgs \cup outgoing :
          Token(n) /\ n \notin {m} =>
            (Touches(n, x) => Timely(n)') /\ (Invitation(n) => n.location # l)
    BY <1>14
  <2>2. /\ {m} \in SUBSET msgs /\ msgs' \subseteq msgs \ {m}
        /\ outgoing' \subseteq outgoing \cup {q}
    BY <1>13
  <2>3. Token(q) =>
          /\ Timely(q)' /\ q \notin msgs'
          /\ Invitation(q) =>
               \A n \in msgs \cup outgoing :
                 Invitation(n) /\ n.location = q.location => n \in {m}
    BY <1>15
  <2> QED
    BY <1>0, <1>5, <1>12, <2>1, <2>2, <2>3, TokensOn
<1> QED
  BY <1>10, <1>11, <1>16 DEF TalkInv

LEMMA NoUCPIsBorn ==
  ASSUME AgentsTypeOK, NEW m \in msgs, m.dst \in Ids,
         \/ ReceiveMCCsForItem(m) \/ ReceiveItemRequest(m)
         \/ ReceiveConstraintRequest(m) \/ ReceiveConstraintAcceptance(m)
  PROVE  NoUCPJoins
<1>1. ASSUME NEW e, agent' = [agent EXCEPT ![m.dst] = e], agent[m.dst].kind # "none"
      PROVE  NoUCPJoins
  BY <1>1 DEF AgentsTypeOK, NoUCPJoins
<1>2. ASSUME ReceiveMCCsForItem(m) \/ ReceiveItemRequest(m) \/ ReceiveConstraintAcceptance(m)
      PROVE  NoUCPJoins
  BY <1>1, <1>2
  DEF ReceiveMCCsForItem, ReceiveItemRequest, ReceiveConstraintAcceptance, Is
<1>3. ASSUME ReceiveConstraintRequest(m) PROVE NoUCPJoins
  <2>1. agent[m.dst].kind # "none"
    BY <1>3 DEF ReceiveConstraintRequest, Is
  <2>2. CASE ConstraintMet(m) \/ ConstraintTooDeep(m)
    BY <1>1, <2>1, <2>2 DEF ConstraintMet, ConstraintTooDeep
  <2>3. CASE ConstraintSearched(m)
    <3>1. \A n, x, y, d : NewMCP(n, x, y, d).kind = "MCP"
      BY DEF NewMCP, NewAgent
    <3>2. \A j \in Ids : agent[j].kind = "none" =>
            agent'[j].kind = "MCP" \/ agent'[j] = agent[j]
      BY <2>1, <2>3, <3>1 DEF ConstraintSearched, CreateChild
    <3> QED
      BY <3>2 DEF NoUCPJoins
  <2> QED
    BY <1>3, <2>2, <2>3 DEF ReceiveConstraintRequest
<1> QED
  BY <1>2, <1>3

(* A search moves no talk when it asks and when it is answered.            *)
LEMMA TalkSearch ==
  ASSUME TypeOK, FaithfulPackets, TalkInv, FreshIds, Life, ChildrenTyped, IdentitiesKept
  PROVE  /\ \A i \in Ids : MCPQuery(i) => TalkInv'
         /\ \A m \in msgs : m.dst \in Ids /\ ReceiveMCCsForItem(m) => TalkInv'
<1>0. AgentsTypeOK
  BY DEF TypeOK
<1>1. ASSUME NEW x \in Ids, MCPQuery(x) PROVE TalkInv'
  <2>1. agent[x].kind \notin {"UCC", "UCP"} /\ msgs' \subseteq msgs
    BY <1>1 DEF MCPQuery, Is
  <2>2. StillBut({x}) /\ NoUCPJoins
    BY <1>0, <1>1, BargainStill DEF BargainUpdate
  <2>3. PICK w : w = agent[x].want
    OBVIOUS
  <2> DEFINE q == [type |-> "QueryMCCsForItem", src |-> x, item |-> w]
  <2>4. ~Token(q)
    BY DEF Token, Invitation
  <2>5. outgoing' \subseteq outgoing \cup {q}
    BY <1>1, <2>3 DEF MCPQuery, Send
  <2> HIDE DEF q
  <2> QED
    BY <2>1, <2>2, <2>4, <2>5, TalkOutside
<1>2. ASSUME NEW m \in msgs, m.dst \in Ids, ReceiveMCCsForItem(m) PROVE TalkInv'
  <2>1. PICK x \in Ids : x = m.dst
    BY <1>2
  <2>2. agent[x].kind \notin {"UCC", "UCP"} /\ msgs' \subseteq msgs
    BY <1>2, <2>1 DEF ReceiveMCCsForItem, Is
  <2>3. StillBut({x}) /\ NoUCPJoins
    BY <1>0, <1>2, <2>1, BargainStill, NoUCPIsBorn DEF BargainReceive
  <2>4. PICK q : ~Token(q)
    <3>1. ~Token([type |-> "RegisterMCCAck", dst |-> x])
      BY DEF Token, Invitation
    <3> QED
      BY <3>1
  <2>5. outgoing' \subseteq outgoing \cup {q}
    BY <1>2 DEF ReceiveMCCsForItem
  <2> QED
    BY <2>2, <2>3, <2>4, <2>5, TalkOutside
<1> QED
  BY <1>1, <1>2

LEMMA TalkStep ==
  ASSUME TypeOK, BargainInv, LifeInv, RoutedInv, SearchInv, TalkInv, [Next]_vars,
         ~CloseCluster, ~KillCluster, GarbageIsNowhere
  PROVE  TalkInv'
<1>0. /\ AgentsTypeOK /\ FreshIds /\ ChildrenTyped /\ PayerAsked
      /\ FaithfulPackets /\ SuccessIsFinal
  BY DEF TypeOK, BargainInv, LifeInv
<1>1. Life /\ IdentitiesKept
  BY <1>0, LifeStep, IdentityStep
<1>2. CASE Calm
  BY <1>0, <1>1, <1>2, TalkCalm
<1>3. ASSUME NEW i \in Ids, UpdateAgent(i), BargainUpdate(i) PROVE TalkInv'
  <2>1. agent[i].valid
    BY <1>3, BargainPlace
  <2>2. CASE MCPQuery(i)
    BY <1>0, <1>1, <2>2, TalkSearch
  <2>3. CASE UCCStart(i)
    BY <1>0, <1>1, <2>3, TalkUCCStart
  <2>4. CASE UCPStart(i)
    BY <1>0, <1>1, <2>4, TalkUCPStart
  <2>5. CASE UCPConclude(i)
    BY <1>0, <1>1, <2>1, <2>5, TalkUCPConclude
  <2> QED
    BY <1>3, <2>2, <2>3, <2>4, <2>5 DEF BargainUpdate
<1>4. ASSUME NEW m \in msgs, m.dst \in Ids, BargainReceive(m) PROVE TalkInv'
  <2>1. CASE ReceiveMCCsForItem(m)
    BY <1>0, <1>1, <1>4, <2>1, TalkSearch
  <2>2. CASE ReceiveNegotiationRequest(m) /\ NegotiationRequestAccepted(m)
    BY <1>0, <1>1, <1>4, <2>2, TalkInvited
  <2>3. CASE ReceiveNegotiationResult(m) /\ m.available
    BY <1>0, <1>1, <1>4, <2>3, TalkBegins
  <2>4. CASE ReceiveItemRequest(m)
    BY <1>0, <1>1, <1>4, <2>4, NoUCPIsBorn, TalkItemRequest
  <2>5. CASE ReceiveConstraintRequest(m)
    BY <1>0, <1>1, <1>4, <2>5, NoUCPIsBorn, TalkConstraintRequest
  <2>6. CASE ReceiveConstraintAcceptance(m)
    BY <1>0, <1>1, <1>4, <2>6, NoUCPIsBorn, TalkAcceptance
  <2> QED
    BY <1>4, <2>1, <2>2, <2>3, <2>4, <2>5, <2>6 DEF BargainReceive
<1> QED
  BY <1>0, <1>2, <1>3, <1>4, TradeStep

LEMMA TalkInit == Init => TalkInv
<1> SUFFICES ASSUME Init PROVE TalkInv
  OBVIOUS
<1>1. msgs = {} /\ outgoing = {}
  BY DEF Init, AgentsInit
<1>2. \A i \in Ids : agent[i].kind = "none"
  BY NoAgentType DEF Init, AgentsInit
<1> QED
  BY <1>1, <1>2 DEF TalkInv, TimelyTokens, OnceInFlight, OneUCP, Talks, TalksTo

LEMMA TalkInvariant ==
  ASSUME ClusterStays, GarbageIsNowhere
  PROVE  Spec => [](TalkInv /\ SuccessIsFinal)
<1>1. TypeOK /\ BargainInv /\ LifeInv /\ RoutedInv /\ SearchInv /\ TalkInv /\ [Next]_vars
        => TalkInv'
  BY Bounds, TalkStep
<1>2. BargainInv => SuccessIsFinal
  BY DEF BargainInv
<1> QED
  BY <1>1, <1>2, TalkInit, TypeCorrect, BargainsAreTrue, LifeInvariant, RoutedInvariant,
     SearchInvariant, PTL DEF Spec

LEMMA TalksAreFair ==
  ASSUME TalkInv, SuccessIsFinal
  PROVE  FairTrade
<1> SUFFICES ASSUME NEW u \in Ids, agent[u].kind = "UCP", agent[u].success
             PROVE  \E p \in Ids : /\ agent[p].kind = "MCC"
                                   /\ agent[p].child = agent[u].location
                                   /\ agent[p].give = agent[u].want
                                   /\ agent[p].want = agent[u].give
  BY DEF FairTrade
<1>1. PICK c : c = agent[u].location
  OBVIOUS
<1>2. Talking(u, c) /\ Backed(u, c)
  BY <1>1 DEF TalkInv, Talks, Stranded
<1>3. ~Refused(c)
  <2>1. \/ agent[c].state = UCC_WAITING_CONSTRAINT
        \/ agent[c].success = agent[u].success
    BY <1>2 DEF Talking, SuccessIsFinal
  <2>2. UCC_WAITING_CONSTRAINT # UCC_FINISHED
    BY DEF UCC_WAITING_CONSTRAINT, UCC_FINISHED
  <2> QED
    BY <2>1, <2>2, Zenon DEF Refused
<1>4. PICK p \in Ids : Behind(p, c) /\ agent[p].give = agent[u].want
  BY <1>2, <1>3 DEF Backed
<1> QED
  BY <1>1, <1>2, <1>4 DEF Behind, Talking

(* What a UCP gains by its success is what the MCC behind its UCC gives,   *)
(* and what it gives is what that MCC wants, however requests, invitations *)
(* and verdicts are delayed and reordered and whoever is stopped meanwhile.*)
(* Not so when an uninitialised AgentLocation leads a UCP to the UCC of    *)
(* another MCC, or a restart of the cluster gives numbers out again.       *)
THEOREM TradesAreFair ==
  ASSUME ClusterStays, GarbageIsNowhere
  PROVE  Spec => []FairTrade
<1>1. TalkInv /\ SuccessIsFinal => FairTrade
  BY TalksAreFair
<1> QED
  BY <1>1, TalkInvariant, PTL

=============================================================================
