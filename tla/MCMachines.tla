----------------------------- MODULE MCMachines -----------------------------
(***************************************************************************)
(* The sequencer, the state consumer, and the capture of info pages and    *)
(* websocket frames with the request budget. They share no state; each has *)
(* its own instance.                                                       *)
(* The initial state chooses one, and only its actions follow: every       *)
(* behaviour of every component's specification is a behaviour here, so a  *)
(* property of a component that holds here holds of the component.         *)
(***************************************************************************)
EXTENDS CanonicalSequencer, StateConsumer, InfoCapture, RequestBudget,
        WsCapture

CONSTANTS locP, locQ, locW,   \* locators in the two committed and the provisional source
          hashA, hashB        \* canonical hashes

VARIABLE component  \* the component this behaviour is about

(* Candidates of the sequencer: three heights above first_height up to the *)
(* end of u64, and one below. Both committed sources deliver every height; *)
(* at the second one of them may come with another block or with other     *)
(* bytes of the same block. The provisional source delivers two heights,   *)
(* the first in two versions.                                              *)
Item(source, content) == [locator |-> source, content |-> content]

MCItems == {Item(locP, 1), Item(locP, 2), Item(locQ, 1), Item(locW, 1)}

Candidate(l, h, hash, item) ==
  [lane |-> l, height |-> h, hash |-> hash, evidence |-> {item}]

MCCandidates ==
  {Candidate("committed", h, hashA, i) : h \in BlockHeights, i \in {Item(locP, 1), Item(locQ, 1)}}
    \union {Candidate("committed", 2, hashB, Item(locQ, 1)), Candidate("committed", 2, hashA, Item(locP, 2))}
    \union {Candidate("provisional", h, hashA, Item(locW, 1)) : h \in {1, 3}}
    \union {Candidate("provisional", 1, hashB, Item(locW, 1))}

(* Odd blocks of the state stream have an event besides their marker.      *)
MCBlockEvents == [h \in 1..MaxBlock |-> IF h % 2 = 1 THEN 1 ELSE 0]

(* A protected job that costs more than the priority pool holds, and a     *)
(* cheap one of the general pool.                                          *)
MCJobCost == <<2, 1>>

MCInit ==
    /\ component \in {"sequencer", "state", "info", "budget", "ws"}
    /\ SequencerInit /\ ConsumerInit /\ InfoInit /\ BudgetInit /\ WsInit

MCNext ==
    \/ /\ component = "sequencer" /\ SequencerNext
       /\ UNCHANGED <<component, consumerVars, infoVars, requestVars, wsVars>>
    \/ /\ component = "state" /\ ConsumerNext
       /\ UNCHANGED <<component, sequencerVars, infoVars, requestVars, wsVars>>
    \/ /\ component = "info" /\ InfoNext
       /\ UNCHANGED <<component, sequencerVars, consumerVars, requestVars, wsVars>>
    \/ /\ component = "budget" /\ BudgetNext
       /\ UNCHANGED <<component, sequencerVars, consumerVars, infoVars, wsVars>>
    \/ /\ component = "ws" /\ WsNext
       /\ UNCHANGED <<component, sequencerVars, consumerVars, infoVars, requestVars>>

MCSpec == MCInit /\ [][MCNext]_<<component, sequencerVars, consumerVars, infoVars, requestVars, wsVars>>
=============================================================================
