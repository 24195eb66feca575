----------------------------- MODULE YellowPages -----------------------------
(***************************************************************************)
(* The yellow pages, a process of its own: for every item, the list of the *)
(* MCCs that said they contribute it (ModuleYellowPages.cpp).  All         *)
(* locations of this system share one host and port, so a location is the  *)
(* agent's id.                                                             *)
(***************************************************************************)
EXTENDS Agents, SequencesExt

VARIABLES
  mccByItem,  \* [Items -> Seq(Ids)]: _mccByItem
  ypUp        \* whether the process runs and listens

ypVars == << mccByItem, ypUp >>

YellowPagesTypeOK ==
  /\ mccByItem \in [Items -> Seq(Ids)]
  /\ ypUp \in BOOLEAN

YellowPagesInit ==
  /\ mccByItem = [x \in Items |-> << >>]
  /\ ypUp = TRUE

(* RegisterMCC: append the location and acknowledge.                       *)
HandleRegister(m) ==
  /\ m.type = "RegisterMCC"
  /\ mccByItem' = [mccByItem EXCEPT ![m.item] = Append(@, m.src)]
  /\ msgs' = (msgs \ {m}) \cup {[type |-> "RegisterMCCAck", dst |-> m.src]}
  /\ UNCHANGED << outgoing, ypUp >>

(* QueryMCCsForItem: answer with the whole list.                           *)
HandleQuery(m) ==
  /\ m.type = "QueryMCCsForItem"
  /\ msgs' = (msgs \ {m}) \cup
       {[type |-> "ReturnMCCsForItem", dst |-> m.src, mccs |-> mccByItem[m.item]]}
  /\ UNCHANGED << outgoing, mccByItem, ypUp >>

(* UnregisterMCC: erase the first entry with the sender's id, if any.      *)
HandleUnregister(m) ==
  /\ m.type = "UnregisterMCC"
  /\ mccByItem' = [mccByItem EXCEPT ![m.item] = RemoveFirst(@, m.src)]
  /\ msgs' = msgs \ {m}
  /\ UNCHANGED << outgoing, ypUp >>

YellowPagesStep ==
  /\ ypUp
  /\ \E m \in msgs : HandleRegister(m) \/ HandleQuery(m) \/ HandleUnregister(m)

(* The process ends: its directory, which is only in memory, is lost, and  *)
(* with it the requests it has not read, or that reach its sockets later,  *)
(* and any answer it has not flushed.                                      *)
YellowPagesStop(unsent) ==
  /\ ypUp
  /\ ypUp' = FALSE
  /\ mccByItem' = [x \in Items |-> << >>]
  /\ msgs' = {m \in msgs : m.type \notin ToYellowPages} \ unsent
  /\ outgoing' = {m \in outgoing : m.type \notin ToYellowPages}

YellowPagesStart ==
  /\ ~ypUp
  /\ ypUp' = TRUE
  /\ UNCHANGED << mccByItem, netVars >>

=============================================================================
