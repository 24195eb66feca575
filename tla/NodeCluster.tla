----------------------------- MODULE NodeCluster -----------------------------
(***************************************************************************)
(* One SiSiMEX process (the node cluster) beside the yellow pages.         *)
(*                                                                         *)
(* The process is single threaded.  Application::update runs the modules   *)
(* in a fixed order every frame, and the model follows it in phases:       *)
(*   "update"    ModuleAgentContainer::update, every agent's update()      *)
(*   "exchange"  ModuleNodeCluster::runSystem, its first loop              *)
(*   "prune"     ModuleNodeCluster::runSystem, its second loop             *)
(*   "gui"       ModuleNodeCluster::updateGUI, at most one click           *)
(*   "net"       the network manager hands over the packets that arrived,  *)
(*               then ModuleAgentContainer::postUpdate                     *)
(*   "down"      the process does not run                                  *)
(*   "aborted"   an assertion of ItemList failed (Debug build)             *)
(* The loops visit _agents in the order of creation, which is the order of *)
(* ids; `todo` holds the agents a loop has yet to visit.  An agent with    *)
(* nothing to do in a loop is passed over without a step of its own.       *)
(***************************************************************************)
EXTENDS Petitioners

CONSTANTS
  MaxClicks,  \* bound: [Buttons -> Nat], clicks on each button
  MaxFaults   \* bound: [Failures -> Nat], ends of each process

Buttons  == {"CreateMCCs", "Clear", "SpawnMCP", "Sell", "Pay"}
Failures == {"CloseCluster", "KillCluster", "CloseYellowPages"}

ASSUME ClicksAssumption == MaxClicks \in [Buttons -> Nat]
ASSUME FaultsAssumption == MaxFaults \in [Failures -> Nat]

VARIABLES
  phase,   \* where the frame stands
  todo,    \* the agents the current loop has yet to visit
  payer,   \* mcp_payer, with payment_option: Nobody when no payment is asked
  clicks,  \* clicks so far, by button
  faults   \* process ends so far, by kind

frameVars == << phase, todo >>
userVars  == << payer, clicks, faults >>
vars == << agentVars, nodeVars, ypVars, frameVars, userVars >>

Phases == {"update", "exchange", "prune", "gui", "net", "down", "aborted"}

TypeOK ==
  /\ ItemListsTypeOK
  /\ AgentsTypeOK
  /\ YellowPagesTypeOK
  /\ phase \in Phases
  /\ todo \subseteq Ids
  /\ payer \in Ids \cup {Nobody}
  /\ clicks \in [Buttons -> Nat]
  /\ faults \in [Failures -> Nat]

(* Both processes run; startSystem() has filled the nodes.                 *)
Init ==
  /\ NodesInit
  /\ AgentsInit
  /\ YellowPagesInit
  /\ phase = "update"
  /\ todo = {}
  /\ payer = Nobody
  /\ clicks = [b \in Buttons |-> 0]
  /\ faults = [f \in Failures |-> 0]

-----------------------------------------------------------------------------
(* The loops over _agents.                                                 *)

(* Loop p stands at i, the first agent of todo that has something to do.   *)
Visit(p, i, Acts(_)) ==
  /\ phase = p
  /\ i \in todo
  /\ agent[i].valid /\ Acts(i)
  /\ \A j \in todo : agent[j].valid /\ Acts(j) => i <= j
  /\ todo' = {j \in todo : j > i}

(* No agent of todo has anything left to do in loop p: go on to q.         *)
LoopEnds(p, q, Acts(_)) ==
  /\ phase = p
  /\ \A j \in todo : ~(agent[j].valid /\ Acts(j))
  /\ phase' = q
  /\ todo' = present
  /\ UNCHANGED << agentVars, nodeVars, ypVars, userVars >>

UpdateActs(i) == ContributorActs(i) \/ PetitionerActs(i)

UpdateAgent(i) ==
  /\ Visit("update", i, UpdateActs)
  /\ ContributorUpdate(i) \/ PetitionerUpdate(i)
  /\ UNCHANGED << ypVars, phase, userVars >>

UpdateEnds == LoopEnds("update", "exchange", UpdateActs)

-----------------------------------------------------------------------------
(* runSystem().                                                            *)

Abort ==
  /\ phase' = "aborted"
  /\ UNCHANGED << agentVars, nodeVars, ypVars, userVars >>

(* Seeded bug: the MCC that traded stays in the directory.                 *)
MCCExchangeListed(i) ==
  LET a == agent[i]
  IN  /\ Is(i, "MCC", MCC_FINISHED)
      /\ CanRemove(a.node, a.give)
      /\ Exchange(a.node, a.give, a.want)
      /\ agent' = AfterStop({i})
      /\ UNCHANGED << containerVars, netVars, used, money, ypVars, phase, userVars >>

(* A finished MCC is taken to have traded; its stop() unregisters it.      *)
MCCExchange(i) ==
  LET a == agent[i]
  IN  /\ Is(i, "MCC", MCC_FINISHED)
      /\ \/ /\ ~CanRemove(a.node, a.give)
            /\ Abort
         \/ /\ CanRemove(a.node, a.give)
            /\ Exchange(a.node, a.give, a.want)
            /\ agent' = AfterStop({i})
            /\ Send(UnregisterPackets({i}, "exchange", ypUp))
            /\ UNCHANGED << containerVars, msgs, used, money, ypVars, phase, userVars >>

MCPFinished(i) == Is(i, "MCP", MCP_FINISHED) /\ agent[i].depth = 0

(* addItem() of the wanted item, which differs from the contributed one,   *)
(* comes before the removal.                                               *)
MCPExchange(i) ==
  LET a == agent[i]
  IN  /\ MCPFinished(i)
      /\ a.success
      /\ \/ /\ ~CanRemove(a.node, a.give)
            /\ Abort
         \/ /\ CanRemove(a.node, a.give)
            /\ Exchange(a.node, a.give, a.want)
            /\ agent' = AfterStop({i})
            /\ UNCHANGED << containerVars, netVars, used, money, ypVars, phase, userVars >>

(* A search that found nothing asks the user to pay, in every frame.       *)
AskPayment(i) ==
  /\ MCPFinished(i)
  /\ ~agent[i].success
  /\ payer' = i
  /\ UNCHANGED << agentVars, nodeVars, ypVars, phase, clicks, faults >>

ExchangeActs(i) == Is(i, "MCC", MCC_FINISHED) \/ MCPFinished(i)

ExchangeAgent(i) ==
  /\ Visit("exchange", i, ExchangeActs)
  /\ MCCExchange(i) \/ MCPExchange(i) \/ AskPayment(i)

ExchangeEnds == LoopEnds("exchange", "prune", ExchangeActs)

(* Idle MCCs whose offer makes no sense any more.                          *)
PruneActs(i) ==
  LET a == agent[i]
  IN  /\ Is(i, "MCC", MCC_IDLE)
      /\ items[a.node][a.give] < 2 \/ items[a.node][a.want] > 0

PruneAgent(i) ==
  /\ Visit("prune", i, PruneActs)
  /\ agent' = AfterStop({i})
  /\ Send(UnregisterPackets({i}, "prune", ypUp))
  /\ UNCHANGED << containerVars, msgs, nodeVars, ypVars, phase, userVars >>

PruneEnds == LoopEnds("prune", "gui", PruneActs)

-----------------------------------------------------------------------------
(* updateGUI(): the user clicks once, or not, in a frame.                  *)

Click(button) ==
  /\ phase = "gui"
  /\ clicks[button] < MaxClicks[button]
  /\ clicks' = [clicks EXCEPT ![button] = @ + 1]

GUIDone == phase' = "net" /\ UNCHANGED << todo, faults >>

NoClick ==
  /\ phase = "gui"
  /\ GUIDone
  /\ UNCHANGED << agentVars, nodeVars, ypVars, payer, clicks >>

(* "Create random MCCs": for every node, repeated item and missing item,   *)
(* as many MCCs as the node has copies to spare.                           *)
Offers ==
  UNION { {<< o[1], o[2], o[3], k >> : k \in 1..(items[o[1]][o[2]] - 1)} :
          o \in {p \in Nodes \X Items \X Items : items[p[1]][p[3]] = 0} }

(* The order of the nested loops.                                          *)
Before(o, p) ==
  \/ o[1] < p[1]
  \/ o[1] = p[1] /\ o[2] < p[2]
  \/ o[1] = p[1] /\ o[2] = p[2] /\ o[3] < p[3]
  \/ o[1] = p[1] /\ o[2] = p[2] /\ o[3] = p[3] /\ o[4] < p[4]

OfferId(o) == nextId + Cardinality({p \in Offers : Before(p, o)})

CreateMCCs ==
  LET new == {OfferId(o) : o \in Offers}
  IN  /\ Click("CreateMCCs")
      /\ nextId + Cardinality(Offers) <= MaxAgents + 1
      /\ agent' = [i \in Ids |->
                     IF i \in new
                     THEN LET o == CHOOSE o \in Offers : OfferId(o) = i
                          IN  NewMCC(o[1], o[2], o[3])
                     ELSE agent[i]]
      /\ pending' = pending \cup new
      /\ nextId' = nextId + Cardinality(Offers)
      /\ GUIDone
      /\ UNCHANGED << present, netVars, nodeVars, ypVars, payer >>

(* "Clear all agents": stop() on every agent of _agents.                   *)
ClearAgents ==
  /\ Click("Clear")
  /\ agent' = AfterStop(present)
  /\ Send(UnregisterPackets(present, "gui", ypUp))
  /\ GUIDone
  /\ UNCHANGED << containerVars, msgs, nodeVars, ypVars, payer >>

(* A missing item, offered in exchange a repeated one.                     *)
SpawnMCP(n, want, give) ==
  /\ Click("SpawnMCP")
  /\ items[n][want] = 0
  /\ items[n][give] > 1
  /\ AddAgent
  /\ agent' = [agent EXCEPT ![nextId] = NewMCP(n, want, give, 0)]
  /\ GUIDone
  /\ UNCHANGED << netVars, nodeVars, ypVars, payer >>

(* Seeded bug: the seller is not paid.                                     *)
SellUnpaid(n, x) ==
  /\ Click("Sell")
  /\ items[n][x] > 0
  /\ RemoveItem(n, x)
  /\ GUIDone
  /\ UNCHANGED << agentVars, used, money, ypVars, payer >>

(* Seeded bug: an item that is gone can still be sold.                     *)
SellGone(n, x) ==
  /\ Click("Sell")
  /\ items[n][x] >= 0
  /\ money' = [money EXCEPT ![n] = @ + ITEMPRICE]
  /\ RemoveItem(n, x)
  /\ GUIDone
  /\ UNCHANGED << agentVars, used, ypVars, payer >>

Sell(n, x) ==
  /\ Click("Sell")
  /\ items[n][x] > 0
  /\ money' = [money EXCEPT ![n] = @ + ITEMPRICE]
  /\ RemoveItem(n, x)
  /\ GUIDone
  /\ UNCHANGED << agentVars, used, ypVars, payer >>

(* Seeded bug: the request stays on the screen.                            *)
PayTwice(yes) ==
  LET a == agent[payer]
  IN  /\ Click("Pay")
      /\ payer # Nobody
      /\ IF yes /\ money[a.node] >= ITEMPRICE
         THEN /\ AddItem(a.node, a.want)
              /\ money' = [money EXCEPT ![a.node] = @ - ITEMPRICE]
         ELSE UNCHANGED << items, numberOfItems, money >>
      /\ agent' = AfterStop({payer})
      /\ GUIDone
      /\ UNCHANGED << containerVars, netVars, used, ypVars, payer >>

(* "Yes" or "No" of the payment request, whose MCP is then stopped.        *)
Pay(yes) ==
  LET a == agent[payer]
  IN  /\ Click("Pay")
      /\ payer # Nobody
      /\ IF yes /\ money[a.node] >= ITEMPRICE
         THEN /\ AddItem(a.node, a.want)
              /\ money' = [money EXCEPT ![a.node] = @ - ITEMPRICE]
         ELSE UNCHANGED << items, numberOfItems, money >>
      /\ payer' = Nobody
      /\ agent' = AfterStop({payer})
      /\ GUIDone
      /\ UNCHANGED << containerVars, netVars, used, ypVars >>

(* mcp_payer outlived its MCP: the freed memory still reads as it did (Pay *)
(* above), or the access faults.                                           *)
PayFreed ==
  /\ Click("Pay")
  /\ payer # Nobody
  /\ payer \notin Reachable
  /\ phase' = "aborted"
  /\ UNCHANGED << agentVars, nodeVars, ypVars, todo, payer, faults >>

User ==
  \/ CreateMCCs
  \/ ClearAgents
  \/ \E n \in Nodes, want, give \in Items : SpawnMCP(n, want, give)
  \/ \E n \in Nodes, x \in Items : Sell(n, x)
  \/ \E yes \in BOOLEAN : Pay(yes)
  \/ PayFreed

-----------------------------------------------------------------------------
(* postUpdate(): packets that arrived, in any order; then the sockets are  *)
(* written and the container adds and drops agents.                        *)

(* No such agent, or a packet it does not expect: logged and forgotten.    *)
Discard(m) ==
  /\ \/ m.dst \notin Reachable
     \/ ~ContributorExpects(m) /\ ~PetitionerExpects(m)
  /\ msgs' = msgs \ {m}
  /\ UNCHANGED << agent, containerVars, outgoing, nodeVars >>

Deliver ==
  /\ phase = "net"
  /\ \E m \in {p \in msgs : p.type \notin ToYellowPages} :
       \/ m.dst \in Reachable /\ (ContributorReceive(m) \/ PetitionerReceive(m))
       \/ Discard(m)
  /\ UNCHANGED << ypVars, frameVars, userVars >>

FrameEnds ==
  /\ phase = "net"
  /\ present' = SurvivingAgents
  /\ pending' = {}
  /\ phase' = "update"
  /\ todo' = present'
  /\ msgs' = msgs \cup outgoing
  /\ outgoing' = {}
  /\ UNCHANGED << agent, nextId, nodeVars, ypVars, userVars >>

-----------------------------------------------------------------------------
(* The processes end and start.                                            *)

YellowPages ==
  /\ YellowPagesStep
  /\ UNCHANGED << agent, containerVars, nodeVars, frameVars, userVars >>

Fail(kind) ==
  /\ faults[kind] < MaxFaults[kind]
  /\ faults' = [faults EXCEPT ![kind] = @ + 1]

YellowPagesEnds ==
  /\ Fail("CloseYellowPages")
  /\ \E unsent \in SUBSET {m \in msgs : m.type \in FromYellowPages} :
       YellowPagesStop(unsent)
  /\ UNCHANGED << agent, containerVars, nodeVars, frameVars, payer, clicks >>

YellowPagesStarts ==
  /\ YellowPagesStart
  /\ UNCHANGED << agent, containerVars, nodeVars, frameVars, userVars >>

(* What a process that is gone leaves in flight are requests to the yellow *)
(* pages.                                                                  *)
ClusterGone ==
  /\ phase' = "down"
  /\ agent' = [i \in Ids |-> NoAgent]
  /\ present' = {} /\ pending' = {} /\ todo' = {}
  /\ nextId' = 1
  /\ payer' = Nobody
  /\ outgoing' = {}
  /\ UNCHANGED << nodeVars, ypVars, clicks >>

(* Application::cleanUp after a whole frame: every agent is stopped and    *)
(* the network manager flushes what is outgoing.                           *)
CloseCluster ==
  /\ Fail("CloseCluster")
  /\ phase = "update" /\ todo = present
  /\ msgs' = {m \in msgs \cup outgoing \cup UnregisterPackets(present, "close", ypUp) :
                m.type \in ToYellowPages}
  /\ ClusterGone

(* The process is killed: what it had not written never leaves.            *)
KillCluster ==
  /\ Fail("KillCluster")
  /\ phase # "down"
  /\ msgs' = {m \in msgs : m.type \in ToYellowPages}
  /\ ClusterGone

(* A new process, with new items, ids from 1 again, once the yellow pages  *)
(* have read what the old one sent.                                        *)
StartCluster ==
  /\ phase = "down"
  /\ \A m \in msgs : m.type \notin ToYellowPages
  /\ \E dist \in InitialItems : StartNodes(dist)
  /\ phase' = "update"
  /\ todo' = {}
  /\ payer' = Nobody
  /\ msgs' = {}
  /\ UNCHANGED << agent, containerVars, outgoing, ypVars, clicks, faults >>

-----------------------------------------------------------------------------
Loops ==
  \/ \E i \in Ids : UpdateAgent(i) \/ ExchangeAgent(i) \/ PruneAgent(i)
  \/ UpdateEnds \/ ExchangeEnds \/ PruneEnds

Faults == YellowPagesEnds \/ CloseCluster \/ KillCluster

Next ==
  \/ Loops
  \/ NoClick
  \/ User
  \/ Deliver
  \/ FrameEnds
  \/ YellowPages
  \/ YellowPagesStarts
  \/ StartCluster
  \/ Faults

Spec == Init /\ [][Next]_vars

(* The frame loop never stops, the network manager serves every readable   *)
(* socket in each round, and the yellow pages answer what they read.  The  *)
(* user need not click, and a process that ended need not be started.      *)
Fairness ==
  /\ WF_vars(Loops \/ NoClick \/ FrameEnds)
  /\ SF_vars(Deliver)
  /\ WF_vars(YellowPages)

FairSpec == Spec /\ Fairness

-----------------------------------------------------------------------------
(* Properties.                                                             *)

FrameStarts == phase = "update" /\ todo = present

Negotiating(i) == Is(i, "MCC", MCC_NEGOCIATING)

(* Two MCCs of a node never negotiate the same item at once: the mark of   *)
(* ItemList::usedItems, tested and set in MCC::OnPacketReceived, keeps a   *)
(* single spare copy from being promised to two petitioners.               *)
ExclusiveNegotiation ==
  \A i, j \in Ids :
    /\ Negotiating(i)
    /\ Negotiating(j)
    /\ i # j
    => << agent[i].node, agent[i].give >> # << agent[j].node, agent[j].give >>

(* An item is marked exactly as long as an MCC negotiates it, so a mark    *)
(* neither outlives the negotiation, which would refuse every later        *)
(* petitioner, nor is missing during it.                                   *)
ReservationExact ==
  \A n \in Nodes, x \in Items :
    used[n][x] <=>
      \E i \in Ids : Negotiating(i) /\ agent[i].node = n /\ agent[i].give = x

(* With "Clear all agents", whose stop() leaves the mark behind, a mark    *)
(* outlives nothing but an interrupted negotiation: it belongs to an MCC   *)
(* that negotiates, or was stopped together with its UCC.                  *)
MarksExplained ==
  phase # "down" =>
    \A n \in Nodes, x \in Items :
      used[n][x] =>
        \E i \in Ids :
          /\ agent[i].kind = "MCC" /\ agent[i].node = n /\ agent[i].give = x
          /\ \/ Negotiating(i)
             \/ /\ agent[i].state = MCC_FINISHED
                /\ agent[i].child # Nobody
                /\ ~agent[agent[i].child].valid

(* A UCC that concludes with success was accepted by a UCP which itself    *)
(* concluded with success, bargains with this UCC, and contributes the     *)
(* very item the UCC asked for: the two sides of a bargain never disagree. *)
Agreement ==
  \A c \in Ids :
    agent[c].kind = "UCC" /\ agent[c].success =>
      \E u \in Ids :
        /\ agent[u].kind = "UCP"
        /\ agent[u].success
        /\ agent[u].location = c
        /\ agent[u].give = agent[c].want

(* What a successful UCP receives is what the MCC behind its UCC gives,    *)
(* and the other way round.                                                *)
FairTrade ==
  \A u \in Ids :
    agent[u].kind = "UCP" /\ agent[u].success =>
      \E p \in Ids :
        /\ agent[p].kind = "MCC"
        /\ agent[p].child = agent[u].location
        /\ agent[p].give = agent[u].want
        /\ agent[p].want = agent[u].give

(* The agents that own a side of the bargain of UCP u.                     *)
PetitionerOf(u)  == {p \in Ids : agent[p].kind = "MCP" /\ agent[p].child = u}
ContributorOf(u) ==
  {p \in Ids : agent[p].kind = "MCC" /\ agent[p].child = agent[u].location}

(* A bargain was struck and one of its sides has yet to book it.           *)
Unbooked(u) ==
  /\ agent[u].kind = "UCP"
  /\ agent[u].success
  /\ \/ \E p \in PetitionerOf(u) : agent[p].state = MCP_NEGOCIATING_UCP_RES
     \/ \E p \in ContributorOf(u) : agent[p].state = MCC_NEGOCIATING

Copies(x) == FoldFunction(+, 0, [n \in Nodes |-> items[n][x]])

(* Whenever a frame starts with every bargain booked on both sides, the    *)
(* cluster holds as many copies of each item as at the start: exchanges    *)
(* only move items between nodes.                                          *)
Conservation ==
  FrameStarts /\ (\A u \in Ids : ~Unbooked(u)) =>
    \A x \in Items : Copies(x) = Cardinality(Nodes)

(* runSystem() exchanges items for an MCC only if its UCC concluded with   *)
(* success: MCCs that were cleared, pruned or refused are destroyed before *)
(* the loop sees them, and none is seen twice.                             *)
ExchangeJustified ==
  phase = "exchange" =>
    \A i \in todo :
      agent[i].valid /\ Is(i, "MCC", MCC_FINISHED) =>
        agent[i].child # Nobody /\ agent[agent[i].child].success

(* The same when processes fail and agents are cleared: an MCC that took a *)
(* petitioner, and was refused or interrupted, is never taken to have      *)
(* traded.                                                                 *)
NoRefusedExchange ==
  phase = "exchange" =>
    \A i \in todo :
      agent[i].valid /\ Is(i, "MCC", MCC_FINISHED) =>
        agent[i].child = Nobody \/ agent[agent[i].child].success

(* No agent works for nobody: when a frame starts, every unicast agent and *)
(* every nested MCP is the child of an agent that still waits for it.      *)
Awaits(p, i) ==
  /\ agent[p].valid
  /\ agent[p].child = i
  /\ \/ /\ agent[i].kind = "UCC"
        /\ Negotiating(p)
     \/ /\ agent[i].kind = "UCP"
        /\ Is(p, "MCP", MCP_NEGOCIATING_UCP_RES)
     \/ /\ agent[i].kind = "MCP"
        /\ agent[p].kind = "UCP"

NoOrphans ==
  FrameStarts =>
    \A i \in present :
      \/ agent[i].kind = "MCC"
      \/ agent[i].kind = "MCP" /\ agent[i].depth = 0
      \/ \E p \in present : Awaits(p, i)

(* The payment request on the screen, a raw pointer, always belongs to a   *)
(* living MCP of the user's own whose search failed.                       *)
PayerAlive ==
  payer # Nobody =>
    /\ payer \in present
    /\ agent[payer].valid
    /\ MCPFinished(payer)
    /\ ~agent[payer].success

(* Exchanges, sales and purchases never make or destroy wealth: a node's   *)
(* money and the price of all its items add up to what it started with.    *)
NodeWealth ==
  \A n \in Nodes :
    money[n] + ITEMPRICE * numberOfItems[n] = StartMoney + ITEMPRICE * ItemsPerNode

(* An id listed for an item is an MCC of this process contributing it.     *)
ListedContributes ==
  \A x \in Items : \A k \in DOMAIN mccByItem[x] :
    LET i == mccByItem[x][k]
    IN  agent[i].kind = "MCC" /\ agent[i].give = x

(* An answer that offers a negotiation tells where: at a UCC.              *)
AnswerLocatesUCC ==
  \A m \in msgs \cup outgoing :
    m.type = "NegotiationRequestResult" /\ m.available =>
      m.location \in Ids /\ agent[m.location].kind = "UCC"

(* The assertions of ItemList never fail.                                  *)
NeverAborts == phase # "aborted"

-----------------------------------------------------------------------------
(* Inductive invariants.                                                   *)

(* Every MCC works for a node of the cluster, and its item is marked while *)
(* it negotiates.                                                          *)
MarkedWhileNegotiating ==
  \A i \in Ids :
    agent[i].kind = "MCC" =>
      /\ agent[i].node \in Nodes
      /\ Negotiating(i) => used[agent[i].node][agent[i].give]

(* A process that does not run has no agents.                              *)
DownIsEmpty == phase = "down" => \A i \in Ids : agent[i].kind = "none"

(* Why negotiations exclude each other: each holds the mark of its item,   *)
(* and a mark, which nobody else takes off, is taken only when it is free. *)
ReservationInv == MarkedWhileNegotiating /\ ExclusiveNegotiation /\ DownIsEmpty

(* Ids the counter has not reached belong to no agent.                     *)
FreshIds == \A i \in Ids : i >= nextId => agent[i].kind = "none"

(* Only a UCP that is finished has succeeded.                              *)
SuccessIsFinal ==
  \A u \in Ids : agent[u].kind = "UCP" /\ agent[u].success => agent[u].state = UCP_FINISHED

(* The packets of a bargain are true to the agents at both ends.           *)
Faithful(m) ==
  /\ m.type = "ItemRequest" =>
       agent[m.src].kind = "UCP" /\ agent[m.src].location = m.dst
  /\ m.type = "ConstraintRequest" =>
       /\ agent[m.dst].kind = "UCP" /\ agent[m.dst].location = m.src
       /\ agent[m.src].kind = "UCC" /\ agent[m.src].want = m.item
  /\ m.type = "ConstraintAcceptance" /\ m.accepted =>
       /\ agent[m.src].kind = "UCP" /\ agent[m.src].location = m.dst
       /\ agent[m.src].success
       /\ agent[m.dst].kind = "UCC" /\ agent[m.src].give = agent[m.dst].want

FaithfulPackets == \A m \in msgs \cup outgoing : Faithful(m)

(* Why the two sides of a bargain agree: each packet of it says what was,  *)
(* and stays, true of the agents that exchange it.                         *)
BargainInv == FreshIds /\ SuccessIsFinal /\ FaithfulPackets /\ Agreement

-----------------------------------------------------------------------------
(* Liveness.                                                               *)

(* An MCC that took a petitioner is freed again, with or without a         *)
(* bargain.                                                                *)
NegotiationEnds == \A i \in Ids : Negotiating(i) ~> ~Negotiating(i)

(* A bargain struck by a UCP is booked by both nodes.                      *)
TradeCompletes ==
  \A u \in Ids :
    agent[u].kind = "UCP" /\ agent[u].success ~>
      /\ \A p \in PetitionerOf(u) \cup ContributorOf(u) : ~agent[p].valid
      /\ \A x \in Items : Copies(x) = Cardinality(Nodes)

(* An MCC that is gone does not stay in the directory.                     *)
DirectoryCleaned ==
  \A i \in Ids :
    agent[i].kind = "MCC" /\ ~agent[i].valid ~>
      \A x \in Items : ~Contains(mccByItem[x], i)

(* Petitioner i is about to search a quiet market: the user is done, and   *)
(* every other agent is an idle MCC in a directory that lists just those.  *)
QuietMarket(i) ==
  /\ Is(i, "MCP", MCP_INIT) /\ agent[i].depth = 0 /\ agent[i].valid
  /\ clicks = MaxClicks
  /\ \A j \in Reachable \ {i} :
       /\ Is(j, "MCC", MCC_IDLE)
       /\ Contains(mccByItem[agent[j].give], j)
  /\ \A x \in Items : \A k \in DOMAIN mccByItem[x] : mccByItem[x][k] \in Reachable

Offered(give, want) ==
  \E j \in Reachable :
    agent[j].kind = "MCC" /\ agent[j].give = give /\ agent[j].want = want

(* In a quiet market a petitioner finds the contributor that has what it   *)
(* wants and wants what it has: the bilateral exchanges of Globals.h.      *)
BilateralFound ==
  \A i \in Ids :
    QuietMarket(i) /\ Offered(agent[i].want, agent[i].give) ~> agent[i].success

(* "If MAX_SEARCH_DEPTH == 1, trilateral exchanges will be also found."    *)
TrilateralFound ==
  \A i \in Ids :
    /\ QuietMarket(i)
    /\ \E x \in Items : Offered(agent[i].want, x) /\ Offered(x, agent[i].give)
    ~> agent[i].success

=============================================================================
