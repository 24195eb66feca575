# SiSiMEX, the multi-agent exchange system, in TLA+

SiSiMEX (`SiSiMEX 3/src`) is a barter market. A *node cluster* process runs nodes that
own items and agents that trade them; a *yellow pages* process keeps the directory of
offers. The processes and the agents talk over TCP, one connection per request. The
node cluster is single threaded: every agent, the exchange of items, the GUI and the
network are served once per frame.

The repository also holds the exercises the system grew out of: a mailing application
(`P3`) and ping-pong programs over TCP and UDP (`P1`).

This directory holds a model of these programs, its model-checking runs, and proofs.
`PROJECT.json` maps every definition to the lines it stands for.

## 1. Inventory

| Component | State | Operations | What makes it correct |
|---|---|---|---|
| Node, ItemList | copies and mark of each item, number of items, money | add, remove, mark, pay | no item or money appears or vanishes; a removed item was there |
| Agent, ModuleAgentContainer | `_agents`, `_agentsToAdd`, id counter, destroy flags | create, look up, update in order of creation, stop, drop | no agent outlives the agent it works for; an id leads to the agent it was given to |
| MCC, UCC | state, items, child, result | register, take one petitioner, bargain, conclude, stop | one negotiation per item of a node; the mark lasts as long as the negotiation; trades only what was agreed |
| MCP, UCP | state, items, list of contributors and position, child, depth, result | query, ask one contributor after the other, bargain, search deeper, conclude, stop | finds an offered exchange; both sides conclude alike |
| ModuleYellowPages | list of MCCs per item | register, unregister, query | lists the MCCs that contribute the item, forgets the ones that are gone |
| ModuleNodeCluster | nodes, `mcp_payer`, `payment_option` | `runSystem` (exchange, prune), the buttons, dispatch of packets, start | exchanges follow agreements; a payment window belongs to a living search |
| Application, Module, main | enabled modules, state of a service | init, the four loops of a frame, the main menu, `cleanUp` | sockets have their delegate; agents stop before the network is finalized |
| TCPNetworkManager, TCPSocket, SocketUtil | sockets, flags, buffers | select, accept, read, write, cut into packets, drop, `Finalize` | packets are whole, in order, delivered once; none is forgotten; no handle is leaked but by the peer |
| MemoryStream, ByteSwap, Packets | buffer, head | write and read fields | reading gives what was written |
| Mailing application (P3) | client records, receive buffers, messages | accept, receive, store, start, stop; connect, disconnect | one record per connection; messages stored once and in order |
| TCP and UDP ping-pong (P1) | a socket, rounds done | send, receive, accept, close | pings are answered; rounds match; nobody is held for ever |
| Window, textures, log, Dear ImGui, stb | pixels, text | show | (not modelled) |

**Interaction.** `MCC` and `MCP` are created by buttons. An MCC registers at the yellow
pages; an MCP queries them and sends a `NegotiationRequest` to one listed MCC at a
time. An MCC that accepts marks the item and creates a UCC, whose address it returns;
the MCP creates a UCP, which asks the UCC for its constraint. The UCP accepts if the
constraint is the item its search contributes, otherwise it creates an MCP that
searches for the constraint, one level deeper. Results travel upwards by polling:
each parent reads its child's `state()` in its own `update()`. `runSystem` reads the
finished MCCs and MCPs, exchanges the items and stops the agents.

**What is hard.** Parents poll the numbers of their children's states; both sides of a
bargain are booked in different frames; several MCCs compete for one spare item;
buttons clear, sell and pay in the middle of negotiations; register and unregister
travel on different connections; nothing has a timeout; either process can end, and
ids start at 1 again. Below the agents, bytes arrive in pieces, sockets are marked for
disconnection with packets still unsent, and one input stream, never erased, serves all
packets of a socket. `PROJECT.json` lists these hazards with their lines.

## 2. Modules

Of the agents; each of the first six EXTENDS the one before it:

| Module | Models |
|---|---|
| `ItemLists` | `Node`, `ItemList`, the start of `startSystem` |
| `Agents` | the agent record, constructors, the container, packets, `stop()` of all four kinds |
| `YellowPages` | `ModuleYellowPages` |
| `Contributors` | `MCC`, `UCC`: each `case` of `update` and `OnPacketReceived` is an action |
| `Petitioners` | `MCP`, `UCP`, likewise |
| `NodeCluster` | the frame, `runSystem`, buttons, delivery, ends and starts of the processes; composes all of the above; properties |
| `Barter` | abstract: bargains are struck once and booked by each side, and only sales and purchases move items beside that |
| `ClusterBarter` | the refinement mapping from `NodeCluster` to `Barter` |
| `MCNodeCluster` | small item distributions and bounds for TLC |

Of the network, the process, and the exercises:

| Module | Models |
|---|---|
| `Streams` | `ByteSwap`, words written to and read from memory streams |
| `TcpSocket` | `TCPSocket`: flags, both buffers, `SendPacket`, `ReceivePacket`, `Disconnect`, `CloseSocket` |
| `Loops` | the loops of the network manager and the mail server that copy some members of a list, or erase the others |
| `NetworkManager` | `HandleSocketOperations` from selection to disconnection, `SocketUtil::Select`, `Finalize`, the sockets an agent opens and leaves, the connections of the operating system |
| `PacketStreams` | abstract: a channel hands over what was posted, whole, once, in order |
| `MCNetworkManager` | a cluster and the yellow pages with two connections |
| `PacketFormats` | every packet type as bytes: what its sender writes, what its receiver reads |
| `AgentIds` | the counter of ids that wraps, and `getAgent`; a list of agents is the set of them, in the order in which they were created |
| `Application` | `main`, the modules, the main menu, start of a service, `cleanUp` |
| `MCProcess` | the last three for TLC, one of them moving while the others are at their start |
| `PingPong`, `UdpPingPong`, `TcpPingPong` | the four programs of P1, one action per system call |
| `MCPingPong` | for TLC: a behaviour is one of the UDP programs or one of the TCP programs |
| `MailServer`, `MailingApp` | `ModuleServer` with the simulated database; `ModuleClient`, composed with it |

The proofs about the cluster are in `NodeCluster_proofs`, `Trade_proofs` and
`Ownership_proofs`, each of which rests on the ones before it; those about the network
manager, the mailing application, and the process and its packets are in
`NetworkManager_proofs`, `MailingApp_proofs` and `Process_proofs`, which all rest on
`Loops_proofs`; those about the ping-pong programs are in `PingPong_proofs`.

The levels are checked apart, and each rests on what the one below promises.
`NodeCluster` treats a packet as a message that arrives whole and once: `NetworkManager`
shows that this is what its sockets do (`PacketStreams`), and `PacketFormats` that the
receiver of the bytes reads the fields that were written.

### The frame

`phase` follows `Application::update`: `"update"` (every agent's `update()`),
`"exchange"` and `"prune"` (the two loops of `runSystem`), `"gui"` (at most one click),
`"net"` (packets, then `ModuleAgentContainer::postUpdate`). In a loop, `todo` holds the
agents yet to visit, and `Visit` takes the first of them that has something to do, in
the order of creation; agents with nothing to do take no step. A loop therefore sees
the changes earlier agents of the same loop made, as the code does.

### Choices that a reader should know

* **Locations.** All agents live in one process, so an `AgentLocation` is an agent id.
  The location of an answer by a busy MCC, which the code never writes, is any member of
  `GarbageIds`, which may include `Nowhere`: then `connect` fails and no packet leaves.
* **The network.** Packets are an unordered set: two packets are on different
  connections, or the second answers the first. Nothing is lost while both processes
  run, which is what TCP gives. What a process sends is written when its frame ends, so a
  kill loses what the frame produced. `ClusterGone` and `YellowPagesStop` say which
  packets survive the end of a process.
* **Agents that were destroyed** keep their record, since parents hold `shared_ptr`s to
  their children. They are not `Reachable`, and packets to them are discarded.
* **A node may bargain with itself.** An MCC whose registration is acknowledged late can be
  found by an MCP of its own node, if a sale and a purchase made its item missing there
  meanwhile. `Barter` therefore allows a bargain whose giver is its taker.
* **`mcp_payer`** is a raw pointer. While its MCP's memory is freed, `Pay` (it reads as
  before) and `PayFreed` (the access faults) are both possible.
* **The verdict of a deep search.** `SendPacketFinishNegotiation` serialises the header
  twice. The receiver reads the first byte of the second header where the verdict
  belongs; it is zero for every packet type in use, so the verdict is FALSE.
* **The build** is the Debug one: a failed assertion ends the process (`"aborted"`).
* **Unreachable code.** The `else` of `MCP::update` at line 71 is not modelled: an MCP
  negotiates only at an index below the number of contributors.
* **Bytes.** In `NetworkManager` a packet is a sequence of 16-bit words and the
  connection carries bytes; a `send` may take only the first `SendPieces` of what it is
  given. The sockets of the code are blocking (`SetNonBlockingMode` is never called), so
  an incomplete send stands for bytes that arrive in pieces. `PacketSize` is read at the
  head of the buffer, whatever bytes are there.
* **Connections.** `NetworkManager` and the exercises model what the operating system
  does as far as the code sees it: a backlog that may be full, an end that is open,
  closed, or reset because it closed with bytes unread.
* **A leaked handle.** `Receive` sets the disconnected flag when the peer has gone, and
  `CloseSocket` then does nothing: the handle stays `"open"` with `disconnected` set.
* **The mailing application** has no call of `sendPacket` (the source leaves them as an
  exercise): `Transmit` puts the packets of `Packets.h` on the wire as the client would.
  The receive loop that a part of a packet makes spin is a state, `Frozen`, that the
  server never leaves.
* **A program of P1 that fails** pauses with its sockets open until a key is pressed. A
  client or a server, UDP or TCP, may also be closed by the user at any time
  (`KillClient`, `KillServer`, `KillTcpClient`, `KillTcpServer`). A connection left to the
  end of its process or to `WSACleanup` ends or is reset; an end that the other side
  provokes a reset from may bring it late, so that `recv` returns 0 first; and a `send` on
  a reset connection fails with `WSAECONNRESET` or with another error, which the client
  tells apart.
* **Connecting to the yellow pages** fails in the model when they are down, and only then.
  `Agent.cpp:22-36` also gives up when no socket can be created or the backlog is full.
  What follows is the same branch of the code, and the run `failed_registration` shows
  what it leads to. The hypothesis `YellowPagesStay` below stands for all of these causes.
* **The list of contributions** in the pop-up of a missing item keeps the index that was
  chosen last (`ModuleNodeCluster.cpp:294`). The model's user chooses from the list that is
  shown; an index beyond the end of a list that has become shorter is not modelled.
* **`numberOfMissingItems`, `_money` of agents, `searchDepth` shown in the log** and all
  output are left out: nothing reads them.

Definitions marked *Seeded bug* next to an action are that action with a plausible
mistake. They are not part of `Next`; `PROJECT.json` names, for each property, the one
under which TLC finds the property violated.

## 3. Runs

Bounds of the cluster: the agents one process creates (`MaxAgents`), the clicks on each
button (`MaxClicks`) and the ends of each process (`MaxFaults`). Deadlock is checked in
`market`, `trade_live` and the runs that expect a violation. In the others the system may
really stop: after a failed assertion or fault (`"aborted"`), when a process or program
has ended, or when every bounded event has happened.

| Run | Instance | Shows |
|---|---|---|
| `market` | 3 nodes, 3 items, two searches: in a ring, each a level deeper, or with two nodes that can trade | `FairTrade`, `Conservation`, `NoOrphans`, `Agreement`, `ListedContributes`, `ImplementsBarter` |
| `after_sale` | 2 nodes, 3 items, a search, two sales, a purchase, up to the failing assertion | `TypeOK`, `ExclusiveNegotiation`, `ReservationExact`, `NodeWealth`, `ExchangeJustified`, `PayerAlive` |
| `disrupted` | 2 nodes, 2 items, a search, "Clear all agents", each process ended once in every way, answers that lead to a wrong agent | `ReservationInv`, `BargainInv`, `MarksExplained`, `NoRefusedExchange` |
| `trade_live` | fair, the same markets, one search | `NegotiationEnds`, `TradeCompletes`, `DirectoryCleaned`, `BilateralFound` |
| `sockets` | fair, 2 processes, 2 connections, one of them within a process, both may quit | `TypeOK`, `NoPacketLeftBehind`, `LeakedByPeer`, `SelectedExactly`, `ImplementsPacketStreams`, `RequestsArrive` |
| `ping_pong` | fair, 3 clients and a server, UDP or TCP, losses, two programs closed by the user | `TurnsTaken`, `RoundsComplete`, `PingsAnswered`, `ClientsLetGo` |
| `process` | start to end of a process; ids of two bits, nine agents; ten packet types | `SocketsServed`, `AgentsStopFirst`, `FoundIsMeant`, `StaysFound`, `ReadAsWritten`, `ReadInside` |
| `mail` | fair, 2 clients, 2 connections, 2 packets | `TypeOK`, `RecordsMatchSockets`, `StoredInOrder`, `MailArrives` |

Why the bounds are enough for what each run asks:

* `market` starts from two distributions. The ring is the smallest market where a
  constraint is a third item: each node has one spare, one missing and one single item,
  the shape of every node of `startSystem` that can trade. There every search creates a
  nested one, abandons it and ends without an exchange (see `no_trilateral`), which is
  what `NoOrphans` is about. In the other, two nodes have what the other misses, and two
  searches may both end with an exchange, even of the same items by the same nodes: there
  bargains are struck and booked, which is what `FairTrade`, `Conservation`, `Agreement`
  and `ImplementsBarter` are about. `trade_live` has both for the same reason.
* `after_sale` needs three items so that a node has two missing items and one spare
  copy, hence two MCCs of the same item. One search is enough for the race: the first
  MCC refuses the deal, the search moves to the second MCC, and the refusal may still
  be on its way when that MCC is asked. The sales take a node to no copies. Money goes
  from 300 down to 200 and up to 500; that a node cannot pay what it does not have is a
  boundary that the run does not reach, and only the proof of `TypeCorrect` covers.
* `disrupted` has five ids: two offers, a search, its UCP and UCC, so that a process that
  starts again gives out the ids the directory still lists, and a garbage location (id 5
  or none) may be such an agent.
* `MaxAgents` lets every agent the clicks can create exist in `trade_live`, and in
  `market` where nodes trade; in its ring the second search may get no agents below it.
* `sockets`: a batch of 2 has a border within the four sockets a process can have; a
  stream of 2 bytes takes every packet but the answer of the yellow pages, as 1460 bytes
  take every packet but one with many MCCs; a header of 2 bytes, and `send`s of at
  most 3 bytes or all, cut packets in the header, behind it and in the data. A backlog of
  1 fills, one round of `Finalize` may not suffice.
* `ping_pong`: three clients are one served, one in the backlog of 1 and one refused;
  three rounds with pings of two bytes let pongs pile up. The user closes two programs, so
  that a served client, the next one, or the server as well may be gone.
* `process`: nine agents make the counter of four ids go round twice; three at a time
  leave an old one in place. The ids 1 and 258 differ from their swapped bytes, addresses
  have several lengths, so that what is left of an earlier packet is longer or shorter.
* `mail`: two packets in one connection or in two; a `recv` of 4 bytes takes one packet of
  3 and a part of the next; a client may connect again on the other connection.
* Every action, and every disjunct of `Next`, fires in some passing run.

### Fairness

* **Cluster**: weak fairness of the frame loop (`main` runs it unconditionally and no
  branch of it waits), strong fairness of `Deliver` (each round selects every socket and
  serves all that are readable, so a packet that keeps arriving within the `"net"` phase
  of later frames is read; weak fairness would not do, because `"net"` is left and
  re-entered), and weak fairness of the yellow pages, which are such a loop too.
* **Network manager**: weak fairness of `Round(p)` for each process, which calls
  `HandleSocketOperations` in every frame.
* **P1**: weak fairness of the server's step and of each client's step: a system call
  that can return does. None for `ServerExit`, which needs a key.
* **P3**: weak fairness of the server's update and of each client's update.

Users, starts, faults, losses and refusals get none: nobody must click, fail or restart.

### Disagreements of the code and its documentation

Four runs are expected to fail; each checks one sentence of the repository.

| Run | Property | The sentence, and the behaviour |
|---|---|---|
| `no_trilateral` | `TrilateralFound` | `Globals.h:57`: with depth 1, trilateral exchanges are found. A UCP reads its nested search one frame after creating it, takes it for failed, and sends no verdict. |
| `failed_registration` | `ExchangeJustified` | `MCC.cpp:180`: a finished MCC had an agreement. An MCC that failed to connect is finished too, and its items are exchanged. |
| `garbage_location` | `AnswerLocatesUCC` | `AgentLocation.h:7`: a location finds an agent. A busy MCC says it is available, at a location never written. |
| `sold_out` | `NeverAborts` | `ItemList.cpp:37`: a removed item is in the list. A sale ignores the mark, and the exchange then removes what is gone. |

`ExchangeJustified` holds in the run without faults: the violation needs an unreachable
directory; `NoRefusedExchange` is what is left of it under faults.

Three more, met while modelling and without a run of their own:

* `Packets.h:89` says that a query returns MCCs contributing the item. The directory
  keeps the MCCs of a cluster that was killed: `ListedContributes` fails when
  `KillCluster` may happen.
* `Globals.h:16` says that packets to the yellow pages are to `NULL_AGENT_ID`, which is 0.
  Agents address them to -1 (`MCC.cpp:191`), which is `YellowPagesId`, 65535, here.
* `Agent.h:83` says that an id identifies an agent within the host. After the counter has
  wrapped, an agent that lives that long hides a younger one with the same id
  (`Agent.cpp:10`); `FoundIsMeant` states exactly up to where the sentence holds.

## 4. Proofs

TLAPS proves the following for every value of the constants: any finite sets of nodes
and items, any distributions, any bound on agents, clicks and faults, any garbage; any
processes, connections, packets and sizes; any clients, rounds and sizes of a ping; any
mail; ids of any width. The assumptions are the `ASSUME`s of the modules, which say what kind of value
each constant is; TLC evaluates them in every run.

| Theorem | States | Under |
|---|---|---|
| `TypeCorrect` | `[]TypeOK` of the cluster | |
| `WealthIsKept` | `[]NodeWealth` | |
| `BargainsAreTrue` | `[]BargainInv` | |
| `SidesAgree` | `[]Agreement` | |
| `NegotiationsAreReserved` | `[]ReservationInv` | |
| `NegotiationsExclude` | `[]ExclusiveNegotiation` | |
| `RefusedNeverExchange` | `[]NoRefusedExchange` | |
| `ExchangesAreJustified` | `[]ExchangeJustified` | `YellowPagesStay` |
| `PayerLives` | `[]PayerAlive` | `NoClear` |
| `MarksAreExplained` | `[]MarksExplained` | |
| `MarksAreExact` | `[]ReservationExact` | `NoClear`, `ClusterStays` |
| `DirectoryIsTrue` | `[]ListedContributes` | `ClusterStays` |
| `TradesAreFair` | `[]FairTrade` | `ClusterStays`, `GarbageIsNowhere` |
| `NobodyIsOrphaned` | `[]NoOrphans` | `NoClear`, `ClusterStays`, `GarbageIsNowhere` |
| `ClusterImplementsBarter` | `ImplementsBarter`, a refinement | the same, `YellowPagesStay` |
| `ExchangesConserve` | `[]Conservation` | the same, `NoShopping`, `EvenStart` |
| `Served` | `[]SocketsServed`, of the modules of a process | |
| `StopInOrder` | `AgentsStopFirst`, an action property | |
| `FoundMeantAlways` | `[]FoundIsMeant`, of ids that wrap | |
| `FoundStays` | `StaysFound`, an action property | |
| `PacketsReadAsWritten` | `[]ReadAsWritten`, of every packet type | |
| `ReadsStayInside` | `[]ReadInside` | |
| `TypesStay` | `[]TypeOK` of the network manager | |
| `NothingWaits` | `[]NoPacketLeftBehind` | |
| `StreamsOfPackets` | `ImplementsPacketStreams`, a refinement | |
| `SelectsAll` | `[]SelectedExactly` | |
| `OnlyPeersLeak` | `[]LeakedByPeer`, of the network manager | |
| `MailTypes` | `[]TypeOK` of the mailing application | |
| `RecordsMatch` | `[]RecordsMatchSockets` | |
| `MailInOrder` | `[]StoredInOrder` | |
| `UdpTurns` | `[]TurnsTaken` | |
| `TcpRounds` | `[]RoundsComplete` | |

**The hypotheses.** Nine properties are false of the code when certain events happen, and
their runs do without these events. The theorems name the events and leave all others
unbounded:

* `NoClear`: the button "Clear all agents" is not pressed. It leaves marks behind, and a
  payment window without its agent; `MarksAreExplained` says what is left of the marks.
* `YellowPagesStay`: the yellow pages do not end. An MCC that cannot register is taken to
  have traded (the run `failed_registration`); `RefusedNeverExchange` is what is left.
* `ClusterStays`: the cluster does not end. Its successor gives out the same ids, which
  the yellow pages and the network still hold for agents of the one before. Nothing in the
  code tells the two apart.
* `GarbageIsNowhere`: a location that was never written leads nowhere. `hostIP` of an
  `AgentLocation` is a `std::string` that its constructor makes empty; only port and id
  are uninitialised. The theorems without this hypothesis hold for any garbage.
* `NoShopping`: nothing is sold and no request for payment is answered. Both create or
  destroy copies, as they should.
* `EvenStart`: at the start every item has as many copies as there are nodes. This is what
  `startSystem` does: `initializeComplete` gives every node one of each, and the shuffle
  only moves them between nodes (`ModuleNodeCluster.cpp:394`).

**Types and wealth.** `TypeOK` is inductive. Its substance is that no copy count and no
money leaves `Nat`: each subtraction is behind the guard of the code (`CanRemove`,
`numItemsWithId > 0`, `GetCurrentMoney() >= ITEMPRICE`). `numberOfItems` is unsigned in
the code; the model keeps it in `Int`, so that the proof does not assume it cannot
wrap. `NodeWealth` is inductive given `TypeOK`.

**Agreement** is not inductive: that a UCC succeeded says nothing of the UCP unless the
packet it read was true. `BargainInv` adds that every packet of a bargain is true of the
agents at both ends (`FaithfulPackets`), that ids not given yet belong to no agent
(`FreshIds`), and that only a finished UCP has succeeded (`SuccessIsFinal`), since a UCP
that is not finished overwrites its result. The argument has three parts:

1. `IdentityStep`: no step turns one agent into another. Kind, items and location of an
   agent are fixed when its id is given out; a process that ends takes all of them.
2. Success of a UCP and truth of a packet are then stable (`FaithfulKept`,
   `AgreementKept`).
3. `BargainOf...`: the packets a step sends are true when sent. It is here that garbage
   locations matter: a UCP sent to a wrong agent asks it by its id, and a UCC that
   answers it is the one the UCP has as its location.

**Exclusion** is not inductive either: a second MCC could start if the mark were free
during a negotiation. `ReservationInv` adds `MarkedWhileNegotiating`, and `DownIsEmpty`,
because a new process clears all marks. The hard step is `MCCConclude`, which takes the
mark off: exclusion itself says that no other MCC of the node needs it.

**Exchanges** (`Trade_proofs`). `Life` says what a step of the program may do to any
agent: an agent stays what it is, does not come back to life, keeps a child that is of the
right kind, and changes state only as its own handlers do (`LifeStep` proves it once for
all steps; the later proofs ask it only about the agents they look at). Its invariant
`LifeInv` also ties `payer` to an agent that asked. `ExchangeJustified` speaks of one loop of
a frame, so its inductive form follows the frame around: `JustifiedInv` allows an
unjustified MCC (finished, its UCC without success) from the prune loop on, where MCCs are
stopped, and says that the update loop has destroyed each one it has passed. `MarksExplained`
is inductive given `LifeInv`, exclusion, and what a step does to marks: the mark of an item
goes only when the MCC that holds it concludes, which is the only one there is.

**Fair trade** (same module) has the longest argument, because the two ends of a bargain
meet through the yellow pages, two MCCs and four packets. It goes in three layers:

1. `RoutedInv`: a packet about an item is under way to or from agents that want or offer it
   (`RoutedPackets`), the directory lists offers only (`ListedContributes`), and so does the
   list of contributors of every MCP (`Registers`). Hence an MCP asks only MCCs that offer
   what it wants. Registrations and their removal are unordered in this proof: an entry that
   is added after its removal is stale, and still an offer.
2. `SearchInv`: a UCP waits for its nested search only in the frame it created it, and the
   search has not begun (`FreshSearch`). This is where the code's comparison of the wrong
   enumerations enters: nothing a nested search does can reach the verdict of a UCP.
3. `TalkInv`: what a UCP says to its UCC and the UCC to it, as tokens that exist at most once
   (`OnceInFlight`), at a time their ends expect them (`TimelyTokens`); a UCC has one UCP
   (`OneUCP`); and a UCP that may still succeed asks for the constraint of the MCC behind its
   UCC (`Talks`), which that MCC keeps as its child. An MCC sends at most one invitation to
   a UCC, as it creates a new one for each petitioner it takes.

`FairTrade` follows: a UCP succeeds only with the constraint the UCC told it, which is
what the MCC wants.

**Ownership** (`Ownership_proofs`). An MCP works for the user or for a UCP, a UCC for an MCC,
a UCP for an MCP, and `NoOrphans` says that at the start of a frame the worker has someone
who waits for it. `Turns` says, once for all steps, what one step may do to two agents that
work for each other. `OwnershipInv` then has two parts. `FamilyInv`: a living agent has one
parent, is younger than it, is at the same node and was given its terms. `OwnInv`: the
dead have finished (`DeadDone`), a nested search has got no further than its list
(`Quiet`), and who is owned is either waited for or about to be let go in this very frame.
The last is the difficulty: the parent learns of the end of its child in its own `update()`,
which may be earlier or later in the same loop, so the inductive form follows the frame, as
that of `ExchangeJustified` does.

**The refinement** (same module). A bargain of `Barter` is a `Deal(u, p, q)`: a UCP that
succeeded, the MCC behind its UCC, and its MCP. It is struck in the step in which the UCP
succeeds, given when `runSystem` exchanges for the MCC, and taken when it exchanges for
the MCP. `DealInv` is the conjunction of the invariants above. Every
step is then shown to be one of the abstract ones or a stutter: `UCPStrikes`, `MCCGives`,
`MCPTakes`, `UserShops`, and for all others `StruckSame` and `ItemsStep`. The guards of the
abstract steps come from the other theorems: that both sides book the same two items from
`TradesAreFair`, that an exchange has a bargain from `ExchangesAreJustified`, and that a side books once from
`Owned`: the exchange stops the agent it was made for, and with it what `given` and `taken`
are read from.

**Conservation** (same module) follows from the refinement. The copies of an item are a fold over the
nodes; `SumCounts` shows that it counts the units nodes hold, by induction over the finite
sets of nodes, through their strict inclusion as a well-founded relation, so that no
operator is passed as a parameter. `Balanced` says of every item, at every
moment: the copies nodes hold, and those that half-booked bargains have yet to bring, are as
many as the nodes and the copies that half-booked bargains have yet to take. Striking keeps
it, and so does booking either side (`GiveBalance`, `TakeBalance`). When a frame starts and no
success is unbooked, every bargain is booked on both sides (`AllBooked`), and the balance
is `Conservation`.

**Processes and ids** (`Process_proofs`). `SocketsServed` needs that at most one service has
been chosen (`OneService`); `AgentsStopFirst` that `cleanUp` walks the modules in the reverse
of the order in which they were added (`StoppedBehind`: those behind the one it is at are
stopped). `FoundIsMeant` needs that ids count agents modulo the width (`IdsCounted`, so that
agents with equal ids are a round apart) and that the lists are in the order of creation, those
that wait behind those that are in (`HeldInOrder`). `StaysFound` follows from the same
invariant: a younger agent is behind an older one in every list.

**Streams of packets** (`NetworkManager_proofs`). `NetInv` is inductive, and the first three
theorems follow from it. The difficulty is that a packet is at most times in three pieces: in
the incoming bytes of one socket, on the wire, and in the outgoing bytes of the other, or cut
off for ever when an end was lost. So the proof does not follow where the bytes of a packet
are. `Rests` is the set of byte sequences that would, behind what was received and what is on
the wire, carry the packets still to be handed over. A stream is in order when there is one
(`Stream`), and, as long as its socket can write, when what that socket has yet to send is
one. Every operation then has one lemma: reading moves bytes and keeps the set
(`RestsReceived`), writing takes from the front of a member (`RestsWritten`), a lost end takes
bytes that others could still replace (`RestsLost`), sending appends a frame (`RestsPosted`),
and handing over cuts off the first one (`CarriesHead`). The other parts say that only the
socket being parsed holds a whole packet (`Parsed`, from which `NothingWaits` follows), and
only within its round (`InRound`); that sockets not there yet hold nothing (`Unopened`, `Fresh`);
that nobody writes to a connection they ended (`Ended`); and that no connection waits twice
to be accepted (`Backlogged`). That `Finalize` gives no more rounds than it has, which
`TypeOK` says too, needs none of this (`FlushesBounded`).

`PacketAssumption` says of a packet only that it is not empty and that its size fits the
header, of two bytes or, as in the code, four. That its header gives its size and that
its data are read as they were written is `PacketWritten`, which rests on what
`Loops_proofs` shows of words and bytes. The loops that copy members of a list are `Kept`,
a recursive function of the list.

**Loops over lists** (`Loops_proofs`). No induction theorem of the library can be used, as
each takes an operator. `Climb` does without: a set of numbers that has 0 and, with a
number, the next one, has all of them, because otherwise there would be a least one that
is missing (`LeastNumber`, from the well-foundedness of `<`). The set is then that of the
positions up to which a loop does what is claimed. So it is shown that what every part of a
list keeps, the whole keeps (`Assembled`), that a list is filtered alike in one piece
and in batches (`KeptAssembled`, hence `SelectsAll`: `Select` finds every ready socket,
whatever the batch size), that `Kept` picks the wanted members, in order and each position
once (`KeptPicks`), and that it distributes over appending two lists (`KeptJoin`).

**Words and bytes** (same module). A word has two digits to the base of 256, a number of
four bytes four (`TwoDigits`, `FourDigits`); memory holds the digits, the byte swap turns
them round, and a number is put together from them, so a word that is written is the one
that is read (`WordRead`), and so is a sequence of words (`WordsRead`). `Holds(bytes, i,
part)` says that a part stands at a place of a stream; `HeldParts` follows it through the
loop that puts a stream together.

**Packets** (`Process_proofs`). `FormatsInv` says that what of the packet is still to be read
stands in the stream where it is read next (`Holds`), whatever stands behind it. For each
kind of field there is a pair of lemmas, that it is written as bytes (`WrittenString`,
`WrittenLocation`, `WrittenList`, `WrittenHeader`), and that from a place where these bytes
stand the value is read and the place moves behind them (`WordAt`, `StringAt`, `LocationAt`,
`LocationsAt`, `BoolAt`, `HeaderAt`); a list goes by the number of its entries that have been
read. `DataAt` then takes the packet types one by one. The verdict of a deep search is the
case in which what stands there is a header and what is read is the first byte of it: its
type, `ConstraintAcceptance`, is 9, and the byte of it that comes first is 0.
`FormatsAssumption` says that ids and counts have two bytes and that a byte is one; the
length of a list of contributors is bounded by its count.

The proof found that `CloseAll` described the end of a connection with a `CASE` whose guards
overlapped, and TLA+ leaves open which of them is taken, though TLC takes the first. It is
an `IF` now.

**Leaked handles.** `LeakInv` is `LeakedByPeer` with the fields of sockets and connections
(`Shape`). The proof reduces every step to `FoundByEnd`: a connection that ended stays
ended, and a socket becomes disconnected with its handle open only when its peer has
ended the connection. One lemma per step of a round shows it.

**Turns.** `UdpInv` adds that the server in `sendto` has someone to answer
(`AnswersSomeone`); without it, `SendPong` could answer nobody and a client's datagram
would vanish.

**Rounds.** `RoundsComplete` allows the served client to leave with rounds undone only if
the user has closed the server, which is when the client's `break`s are taken
(`main.cpp:73`, `:88`), and needs to know why the server leaves its own loop. `TcpInv` adds
that it serves someone from `accept` on (`ServesSomeone`), over a connection whose own end
is open until it is done or closed by the user (`ServedConnected`); that who has closed its
end has ended, and so has the client of a server about to end by itself (`EndsInOrder`); that a client not served has
nothing to receive (`NotServedWaits`), so that a client in `recv` is the served one; and
that a client in its loop has rounds left (`RoundsLeft`).

**The records of the mail server** (`MailingApp_proofs`). `RecInv` is inductive. That sockets
and records match needs that no socket waits twice to be accepted (`Queue`), that
connections not made yet have no ends (`Unmade`, `Connected`), and that `readable` names
the listen socket only in front, with a connection waiting (`Frame`): otherwise `accept`
could be called for nobody, or give a second record to a socket. The list of readable
sockets stays one of sockets with records because `deleteInvalidSockets` runs only after
the list is used up, and the server is stopped only between frames.

**Stored messages** (same module). The bytes of a connection are in the buffer of its record and
on the wire; `Undelivered` is both. `Delivered(c, n)` says that the messages stored of
connection c are those among its first n packets, that its undelivered bytes are those of
the packets from n + 1 on (`Follows`), and that all of these are there as long as both ends
are open. `MailInv` says that every connection has such an n. Each step leaves what a
connection carries as it is, cuts it short and ends it, or begins it (`StreamsOn`), but for
two: `Transmit` appends a packet, which is where all bytes have to be there, and
`TakePacket` moves n on. There the packet at the head of the buffer is the n + 1st because
the buffer is a beginning of `Undelivered` (`FollowsFirst`), and what follows the bytes
that are cut off begins with the next one (`FollowsNext`). `Owned` says that a connected
client has its end open, and no other client the same connection.

**Only model-checked** is liveness (`NegotiationEnds`, `TradeCompletes`, `DirectoryCleaned`,
`BilateralFound`, `RequestsArrive`, `PingsAnswered`, `ClientsLetGo`, `MailArrives`), which is
out of the prover's reach.

## 5. Not modelled

* **Dear ImGui and stb**, vendored in two copies: by far most of the lines of the
  repository. They draw and decode images; of them the model keeps that a user clicks at
  most one button in a frame.
* **Windows, textures, the log and its view**: they show state that no agent reads.
* **`SocketAddress`, `UDPSocket`, `StringUtils`**: wrappers of system calls, without state
  a step depends on; SiSiMEX uses no UDP socket.
* **The MySQL gateway** of P3: it formats SQL for a database outside the repository. The
  simulated gateway is modelled.
* **Inboxes and send buffers of P3**: nothing ever reaches them, as `sendPacket` is never
  called.
* **Servers that cannot start or accept**: `socket`, `bind`, `listen` and `accept` may fail,
  and the mail server (`ModuleServer.cpp:192`, `:259`), the programs of P1 and the
  services of SiSiMEX then give up. No property depends on it: a program that ended is in
  the models by other ways.
* **The growth of an output stream**: it keeps what was written, which is what
  `PacketFormats` writes.
* **The fixed initialisation** behind `#ifndef RANDOM_INITIALIZATION`: not compiled.
* **Several hosts**: an agent's location would need an address, which no run tells apart.
* **A verdict TRUE of a deep search**: unreachable, see the choices above.

## 6. Plan

Done: the cluster with its runs and proofs, up to the refinement of `Barter` and what
follows from it; the network manager with its theorems, up to the refinement of
`PacketStreams`; packet formats, read as they were written; ids that wrap; the process; the
mailing application with its theorems; both ping-pong pairs with theirs.

Left: the choices of section 2 and what section 5 lists. Every safety property of a
passing run is proved; liveness is beyond the prover.
