----------------------------- MODULE Petitioners -----------------------------
(***************************************************************************)
(* The agents that look for an item: the multicast petitioner (MCP) that   *)
(* tries one listed contributor after another, and the unicast petitioner  *)
(* (UCP) it creates to bargain with a UCC, which may start a nested search *)
(* of its own (MCP.cpp, UCP.cpp).                                          *)
(***************************************************************************)
EXTENDS Contributors

-----------------------------------------------------------------------------
(* MCP::update.                                                            *)

(* ST_INIT: the result of the query's connect is ignored.                  *)
MCPQuery(i) ==
  /\ Is(i, "MCP", MCP_INIT)
  /\ agent' = [agent EXCEPT ![i].state = MCP_REQUESTING_MCCs]
  /\ Send(IF ypUp
          THEN {[type |-> "QueryMCCsForItem", src |-> i, item |-> agent[i].want]}
          ELSE {})
  /\ UNCHANGED << containerVars, msgs, nodeVars >>

(* Seeded bug: the last contributor is never asked.                        *)
MCPIterateShort(i) ==
  /\ Is(i, "MCP", MCP_ITERATING_OVER_MCCs)
  /\ IF agent[i].index + 1 >= Len(agent[i].registers)
     THEN /\ agent' = [agent EXCEPT ![i].state = MCP_FINISHED]
          /\ UNCHANGED outgoing
     ELSE /\ agent' = [agent EXCEPT ![i].state = MCP_WAIT_ACCEPTANCE]
          /\ Send({[type |-> "NegotiationRequest", src |-> i,
                    dst |-> agent[i].registers[agent[i].index + 1]]})
  /\ UNCHANGED << containerVars, msgs, nodeVars >>

(* StartNegotioationRequest(): the next contributor, or none is left.      *)
MCPIterate(i) ==
  /\ Is(i, "MCP", MCP_ITERATING_OVER_MCCs)
  /\ IF agent[i].index >= Len(agent[i].registers)
     THEN /\ agent' = [agent EXCEPT ![i].state = MCP_FINISHED]
          /\ UNCHANGED outgoing
     ELSE /\ agent' = [agent EXCEPT ![i].state = MCP_WAIT_ACCEPTANCE]
          /\ Send({[type |-> "NegotiationRequest", src |-> i,
                    dst |-> agent[i].registers[agent[i].index + 1]]})
  /\ UNCHANGED << containerVars, msgs, nodeVars >>

(* _mccRegisterIndex++.                                                    *)
NextContributor(a) == [a EXCEPT !.index = @ + 1, !.state = MCP_ITERATING_OVER_MCCs]

UCPHasResult(i) ==
  /\ Is(i, "MCP", MCP_NEGOCIATING_UCP_RES)
  /\ agent[i].child # Nobody
  /\ agent[agent[i].child].state = UCP_FINISHED

(* ST_NEGOCIATING_UCP_RES: take the UCP's success, or stop the UCP (and    *)
(* the search below it) and try the next contributor.                      *)
MCPConclude(i) ==
  LET ucp == agent[i].child
  IN  /\ UCPHasResult(i)
      /\ IF agent[ucp].success
         THEN agent' = [agent EXCEPT ![i] = [@ EXCEPT !.success = TRUE, !.state = MCP_FINISHED]]
         ELSE agent' = [AfterStop({ucp}) EXCEPT ![i] = NextContributor(@)]
      /\ UNCHANGED << containerVars, netVars, nodeVars >>

-----------------------------------------------------------------------------
(* UCP::update.                                                            *)

(* A packet to an agent leaves only if something listens at its address.   *)
PacketTo(loc, m) == IF loc = Nowhere THEN {} ELSE {m}

UCPStart(i) ==
  LET loc == agent[i].location
  IN  /\ Is(i, "UCP", UCP_INIT)
      /\ agent' = [agent EXCEPT ![i].state = UCP_REQUEST_ITEM]
      /\ Send(PacketTo(loc, [type |-> "ItemRequest", src |-> i, dst |-> loc]))
      /\ UNCHANGED << containerVars, msgs, nodeVars >>

(* Seeded bug: the search's failure is announced as an acceptance.         *)
UCPConcludeAccepts(i) ==
  LET loc == agent[i].location
  IN  /\ Is(i, "UCP", UCP_IDLE)
      /\ agent[i].child # Nobody
      /\ agent' = [agent EXCEPT ![i] = [@ EXCEPT !.success = FALSE, !.state = UCP_FINISHED]]
      /\ Send(PacketTo(loc, [type |-> "ConstraintAcceptance", src |-> i,
                             dst |-> loc, accepted |-> TRUE]))
      /\ UNCHANGED << containerVars, msgs, nodeVars >>

(* ST_IDLE, a nested search exists: its success is read off the MCP's      *)
(* state number, compared with the UCP's own final state.                  *)
UCPConclude(i) ==
  LET loc == agent[i].location
  IN  /\ Is(i, "UCP", UCP_IDLE)
      /\ agent[i].child # Nobody
      /\ agent' = [agent EXCEPT ![i] =
                     [@ EXCEPT !.success = (agent[agent[i].child].state = UCP_FINISHED),
                               !.state = UCP_FINISHED]]
      \* SendPacketFinishNegotiation() writes a second header where the
      \* verdict belongs; its first byte, which is zero, is read as FALSE.
      /\ Send(PacketTo(loc, [type |-> "ConstraintAcceptance", src |-> i,
                             dst |-> loc, accepted |-> FALSE]))
      /\ UNCHANGED << containerVars, msgs, nodeVars >>

PetitionerActs(i) ==
  \/ Is(i, "MCP", MCP_INIT) \/ Is(i, "MCP", MCP_ITERATING_OVER_MCCs)
  \/ UCPHasResult(i)
  \/ Is(i, "UCP", UCP_INIT) \/ (Is(i, "UCP", UCP_IDLE) /\ agent[i].child # Nobody)

PetitionerUpdate(i) ==
  MCPQuery(i) \/ MCPIterate(i) \/ MCPConclude(i) \/ UCPStart(i) \/ UCPConclude(i)

-----------------------------------------------------------------------------
(* MCP::OnPacketReceived and UCP::OnPacketReceived.                        *)

ReceiveMCCsForItem(m) ==
  /\ m.type = "ReturnMCCsForItem"
  /\ Is(m.dst, "MCP", MCP_REQUESTING_MCCs)
  /\ agent' = [agent EXCEPT ![m.dst] =
                  [@ EXCEPT !.registers = m.mccs,
                            !.index = 0,
                            !.state = MCP_ITERATING_OVER_MCCs]]
  /\ msgs' = msgs \ {m}
  /\ UNCHANGED << containerVars, outgoing, nodeVars >>

(* An available contributor gets a UCP; otherwise the next one is tried.   *)
ReceiveNegotiationResult(m) ==
  LET mcp == agent[m.dst]
  IN  /\ m.type = "NegotiationRequestResult"
      /\ Is(m.dst, "MCP", MCP_WAIT_ACCEPTANCE)
      /\ IF m.available
         THEN CreateChild(m.dst, [mcp EXCEPT !.state = MCP_NEGOCIATING_UCP_RES],
                          NewUCP(mcp.want, mcp.give, m.location, mcp.depth))
         ELSE /\ agent' = [agent EXCEPT ![m.dst] = NextContributor(@)]
              /\ UNCHANGED containerVars
      /\ msgs' = msgs \ {m}
      /\ UNCHANGED << outgoing, nodeVars >>

Acceptance(m, accepted) ==
  [type |-> "ConstraintAcceptance", src |-> m.dst, dst |-> m.src,
   accepted |-> accepted]

(* Seeded bugs: the contributor is not told, or the petitioner forgets.    *)
ConstraintMetSilently(m) ==
  /\ agent' = [agent EXCEPT ![m.dst] = [@ EXCEPT !.success = TRUE, !.state = UCP_FINISHED]]
  /\ UNCHANGED << containerVars, outgoing >>

ConstraintMetForgotten(m) ==
  /\ agent' = [agent EXCEPT ![m.dst].state = UCP_FINISHED]
  /\ Send({Acceptance(m, TRUE)})
  /\ UNCHANGED containerVars

(* The constraint is the very item this search contributes: accept it.     *)
ConstraintMet(m) ==
  /\ agent' = [agent EXCEPT ![m.dst] = [@ EXCEPT !.success = TRUE, !.state = UCP_FINISHED]]
  /\ Send({Acceptance(m, TRUE)})
  /\ UNCHANGED containerVars

(* It is not, and the search is as deep as allowed: refuse.                *)
ConstraintTooDeep(m) ==
  /\ agent' = [agent EXCEPT ![m.dst].state = UCP_FINISHED]
  /\ Send({Acceptance(m, agent[m.dst].success)})
  /\ UNCHANGED containerVars

SearchingDeeper(ucp) == [ucp EXCEPT !.state = UCP_IDLE, !.depth = @ + 1]

(* It is not: search for the constraint, one level deeper.                 *)
ConstraintSearched(m) ==
  LET ucp == agent[m.dst]
  IN  /\ CreateChild(m.dst, SearchingDeeper(ucp),
                     NewMCP(ScratchNode, m.item, ucp.give, ucp.depth + 1))
      /\ UNCHANGED outgoing

(* Seeded bug: every constraint is accepted.                               *)
ReceiveAnyConstraint(m) ==
  /\ m.type = "ConstraintRequest"
  /\ Is(m.dst, "UCP", UCP_REQUEST_ITEM) \/ Is(m.dst, "UCP", UCP_IDLE)
  /\ ConstraintMet(m)
  /\ msgs' = msgs \ {m}
  /\ UNCHANGED nodeVars

ReceiveConstraintRequest(m) ==
  /\ m.type = "ConstraintRequest"
  /\ Is(m.dst, "UCP", UCP_REQUEST_ITEM) \/ Is(m.dst, "UCP", UCP_IDLE)
  /\ IF m.item = agent[m.dst].give
     THEN ConstraintMet(m)
     ELSE IF agent[m.dst].depth = MaxSearchDepth
          THEN ConstraintTooDeep(m)
          ELSE ConstraintSearched(m)
  /\ msgs' = msgs \ {m}
  /\ UNCHANGED nodeVars

PetitionerExpects(m) ==
  \/ m.type = "ReturnMCCsForItem" /\ Is(m.dst, "MCP", MCP_REQUESTING_MCCs)
  \/ m.type = "NegotiationRequestResult" /\ Is(m.dst, "MCP", MCP_WAIT_ACCEPTANCE)
  \/ m.type = "ConstraintRequest"
       /\ (Is(m.dst, "UCP", UCP_REQUEST_ITEM) \/ Is(m.dst, "UCP", UCP_IDLE))

PetitionerReceive(m) ==
  \/ ReceiveMCCsForItem(m)
  \/ ReceiveNegotiationResult(m)
  \/ ReceiveConstraintRequest(m)

=============================================================================
