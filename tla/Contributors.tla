----------------------------- MODULE Contributors -----------------------------
(***************************************************************************)
(* The agents that offer an item: the multicast contributor (MCC) that     *)
(* lists the offer and takes one petitioner at a time, and the unicast     *)
(* contributor (UCC) it creates to bargain with that petitioner (MCC.cpp,  *)
(* UCC.cpp).                                                               *)
(***************************************************************************)
EXTENDS YellowPages

CONSTANT
  GarbageIds   \* the values an uninitialised AgentLocation can lead to

ASSUME GarbageAssumption == GarbageIds \subseteq Ids \cup {Nowhere}

-----------------------------------------------------------------------------
(* MCC::update and UCC::update.                                            *)

(* Seeded bug: the MCC is listed for the item it wants.                    *)
MCCRegisterWanted(i) ==
  /\ Is(i, "MCC", MCC_INIT)
  /\ agent' = [agent EXCEPT ![i].state = MCC_REGISTERING]
  /\ Send({[type |-> "RegisterMCC", src |-> i, item |-> agent[i].want]})
  /\ UNCHANGED << containerVars, msgs, nodeVars >>

(* ST_INIT: register; without a connection the MCC is finished at once.    *)
MCCRegister(i) ==
  /\ Is(i, "MCC", MCC_INIT)
  /\ IF ypUp
     THEN /\ agent' = [agent EXCEPT ![i].state = MCC_REGISTERING]
          /\ Send({[type |-> "RegisterMCC", src |-> i, item |-> agent[i].give]})
     ELSE /\ agent' = [agent EXCEPT ![i].state = MCC_FINISHED]
          /\ UNCHANGED outgoing
  /\ UNCHANGED << containerVars, msgs, nodeVars >>

(* ST_NEGOCIATING, once the UCC has a result.                              *)
UCCHasResult(i) ==
  /\ Is(i, "MCC", MCC_NEGOCIATING)
  /\ agent[i].child # Nobody
  /\ agent[agent[i].child].state = UCC_FINISHED

(* Seeded bug: only a successful bargain takes the mark off.               *)
MCCConcludeMarked(i) ==
  LET ucc == agent[i].child
  IN  /\ UCCHasResult(i)
      /\ IF agent[ucc].success
         THEN /\ agent' = [agent EXCEPT ![i].state = MCC_FINISHED]
              /\ SetItemUsed(agent[i].node, agent[i].give, FALSE)
         ELSE /\ agent' = [[agent EXCEPT ![ucc].valid = FALSE] EXCEPT ![i].state = MCC_IDLE]
              /\ UNCHANGED used
      /\ UNCHANGED << containerVars, netVars, items, numberOfItems, money >>

(* Seeded bug: only a refusal takes it off.                                *)
MCCConcludeKept(i) ==
  LET ucc == agent[i].child
  IN  /\ UCCHasResult(i)
      /\ IF agent[ucc].success
         THEN /\ agent' = [agent EXCEPT ![i].state = MCC_FINISHED]
              /\ UNCHANGED used
         ELSE /\ agent' = [[agent EXCEPT ![ucc].valid = FALSE] EXCEPT ![i].state = MCC_IDLE]
              /\ SetItemUsed(agent[i].node, agent[i].give, FALSE)
      /\ UNCHANGED << containerVars, netVars, items, numberOfItems, money >>

MCCConclude(i) ==
  LET ucc == agent[i].child
  IN  /\ UCCHasResult(i)
      /\ IF agent[ucc].success
         THEN agent' = [agent EXCEPT ![i].state = MCC_FINISHED]
         ELSE agent' = [[agent EXCEPT ![ucc].valid = FALSE] EXCEPT ![i].state = MCC_IDLE]
      /\ SetItemUsed(agent[i].node, agent[i].give, FALSE)
      /\ UNCHANGED << containerVars, netVars, items, numberOfItems, money >>

(* ST_FINISHED: the agent asks to be destroyed.                            *)
MCCDestroy(i) ==
  /\ Is(i, "MCC", MCC_FINISHED)
  /\ agent' = [agent EXCEPT ![i].valid = FALSE]
  /\ UNCHANGED << containerVars, netVars, nodeVars >>

UCCStart(i) ==
  /\ Is(i, "UCC", UCC_INIT)
  /\ agent' = [agent EXCEPT ![i].state = UCC_WAITING_REQUEST]
  /\ UNCHANGED << containerVars, netVars, nodeVars >>

(* Seeded bug: an MCC that finished is left to runSystem().                *)
ContributorActsUnfinished(i) ==
  Is(i, "MCC", MCC_INIT) \/ UCCHasResult(i) \/ Is(i, "UCC", UCC_INIT)

ContributorActs(i) ==
  \/ Is(i, "MCC", MCC_INIT) \/ UCCHasResult(i) \/ Is(i, "MCC", MCC_FINISHED)
  \/ Is(i, "UCC", UCC_INIT)

ContributorUpdate(i) ==
  MCCRegister(i) \/ MCCConclude(i) \/ MCCDestroy(i) \/ UCCStart(i)

-----------------------------------------------------------------------------
(* MCC::OnPacketReceived and UCC::OnPacketReceived.  Each is enabled for a *)
(* packet the agent of its destination expects in its state.               *)

ReceiveRegisterAck(m) ==
  /\ m.type = "RegisterMCCAck"
  /\ Is(m.dst, "MCC", MCC_REGISTERING)
  /\ agent' = [agent EXCEPT ![m.dst].state = MCC_IDLE]
  /\ msgs' = msgs \ {m}
  /\ UNCHANGED << containerVars, outgoing, nodeVars >>

NegotiationResult(m, available, loc) ==
  [type |-> "NegotiationRequestResult", src |-> m.dst, dst |-> m.src,
   available |-> available, location |-> loc]

(* Not idle: the answer says the MCC is available, at a location that was  *)
(* never written.                                                          *)
NegotiationRequestBusy(m) ==
  /\ agent[m.dst].state # MCC_IDLE
  /\ \E loc \in GarbageIds : Send({NegotiationResult(m, TRUE, loc)})
  /\ UNCHANGED << agent, containerVars, nodeVars >>

(* Idle, but another MCC of the node negotiates the same item.             *)
NegotiationRequestUsed(m) ==
  /\ agent[m.dst].state = MCC_IDLE
  /\ used[agent[m.dst].node][agent[m.dst].give]
  /\ Send({NegotiationResult(m, FALSE, Nowhere)})
  /\ UNCHANGED << agent, containerVars, nodeVars >>

(* Seeded bugs: the mark is not set, or set but not tested.                *)
NegotiationRequestUnmarked(m) ==
  LET mcc == agent[m.dst]
  IN  /\ mcc.state = MCC_IDLE
      /\ ~used[mcc.node][mcc.give]
      /\ CreateChild(m.dst, [mcc EXCEPT !.state = MCC_NEGOCIATING],
                     NewUCC(mcc.node, mcc.give, mcc.want))
      /\ Send({NegotiationResult(m, TRUE, nextId)})
      /\ UNCHANGED nodeVars

NegotiationRequestUntested(m) ==
  LET mcc == agent[m.dst]
  IN  /\ mcc.state = MCC_IDLE
      /\ SetItemUsed(mcc.node, mcc.give, TRUE)
      /\ CreateChild(m.dst, [mcc EXCEPT !.state = MCC_NEGOCIATING],
                     NewUCC(mcc.node, mcc.give, mcc.want))
      /\ Send({NegotiationResult(m, TRUE, nextId)})
      /\ UNCHANGED << items, numberOfItems, money >>

(* Idle: mark the item, create a UCC and send the petitioner to it.        *)
NegotiationRequestAccepted(m) ==
  LET mcc == agent[m.dst]
  IN  /\ mcc.state = MCC_IDLE
      /\ ~used[mcc.node][mcc.give]
      /\ SetItemUsed(mcc.node, mcc.give, TRUE)
      /\ CreateChild(m.dst, [mcc EXCEPT !.state = MCC_NEGOCIATING],
                     NewUCC(mcc.node, mcc.give, mcc.want))
      /\ Send({NegotiationResult(m, TRUE, nextId)})
      /\ UNCHANGED << items, numberOfItems, money >>

ReceiveNegotiationRequest(m) ==
  /\ m.type = "NegotiationRequest"
  /\ agent[m.dst].kind = "MCC"
  /\ \/ NegotiationRequestBusy(m)
     \/ NegotiationRequestUsed(m)
     \/ NegotiationRequestAccepted(m)
  /\ msgs' = msgs \ {m}

ReceiveItemRequest(m) ==
  /\ m.type = "ItemRequest"
  /\ Is(m.dst, "UCC", UCC_WAITING_REQUEST)
  /\ agent' = [agent EXCEPT ![m.dst].state = UCC_WAITING_CONSTRAINT]
  /\ Send({[type |-> "ConstraintRequest", src |-> m.dst, dst |-> m.src,
            item |-> agent[m.dst].want]})
  /\ msgs' = msgs \ {m}
  /\ UNCHANGED << containerVars, nodeVars >>

(* Seeded bug: the verdict is not read.                                    *)
ReceiveAnyAcceptance(m) ==
  /\ m.type = "ConstraintAcceptance"
  /\ Is(m.dst, "UCC", UCC_WAITING_CONSTRAINT)
  /\ agent' = [agent EXCEPT ![m.dst].state = UCC_FINISHED]
  /\ msgs' = msgs \ {m}
  /\ UNCHANGED << containerVars, outgoing, nodeVars >>

ReceiveConstraintAcceptance(m) ==
  /\ m.type = "ConstraintAcceptance"
  /\ Is(m.dst, "UCC", UCC_WAITING_CONSTRAINT)
  /\ agent' = [agent EXCEPT ![m.dst] =
                  [@ EXCEPT !.success = m.accepted, !.state = UCC_FINISHED]]
  /\ msgs' = msgs \ {m}
  /\ UNCHANGED << containerVars, outgoing, nodeVars >>

ContributorExpects(m) ==
  \/ m.type = "RegisterMCCAck" /\ Is(m.dst, "MCC", MCC_REGISTERING)
  \/ m.type = "NegotiationRequest" /\ agent[m.dst].kind = "MCC"
  \/ m.type = "ItemRequest" /\ Is(m.dst, "UCC", UCC_WAITING_REQUEST)
  \/ m.type = "ConstraintAcceptance" /\ Is(m.dst, "UCC", UCC_WAITING_CONSTRAINT)

ContributorReceive(m) ==
  \/ ReceiveRegisterAck(m)
  \/ ReceiveNegotiationRequest(m)
  \/ ReceiveItemRequest(m)
  \/ ReceiveConstraintAcceptance(m)

=============================================================================
