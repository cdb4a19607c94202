---------------------------- MODULE RequestReply ----------------------------
(***************************************************************************)
(* What the client promises about requests, without connections, clocks or *)
(* agents: a request is answered at most once, after it was asked, never   *)
(* behind a later one, and only with an action it offered; it is left      *)
(* unanswered only if nothing but an open call was offered.                *)
(***************************************************************************)
EXTENDS Integers, SequencesExt

CONSTANTS
  Ids,        \* the request ids, in the order they are asked
  Offers,     \* the sequences of actions a request may offer
  Unasked, Unanswered, Withheld    \* markers, none of them an offer or an action

VARIABLES
  offered,    \* [Ids -> offer or Unasked]
  answer      \* [Ids -> action, Withheld or Unanswered]

replyVars == <<offered, answer>>

OpenCalls == {"chi", "pon", "daiminkan"}

Init ==
  /\ offered = [id \in Ids |-> Unasked]
  /\ answer = [id \in Ids |-> Unanswered]

Ask(id, offer) ==
  /\ offered[id] = Unasked
  /\ \A earlier \in Ids : earlier < id => offered[earlier] # Unasked
  /\ offered' = [offered EXCEPT ![id] = offer]
  /\ UNCHANGED answer

Settle(id, result) ==
  /\ offered[id] # Unasked
  /\ \A later \in Ids : later >= id => answer[later] = Unanswered
  /\ answer' = [answer EXCEPT ![id] = result]
  /\ UNCHANGED offered

Reply(id) == \E i \in DOMAIN offered[id] : Settle(id, offered[id][i])

Withhold(id) ==
  /\ \A i \in DOMAIN offered[id] : offered[id][i].kind \in OpenCalls
  /\ Settle(id, Withheld)

Next ==
  \E id \in Ids :
    \/ \E offer \in Offers : Ask(id, offer)
    \/ offered[id] # Unasked /\ (Reply(id) \/ Withhold(id))

Spec == Init /\ [][Next]_replyVars
=============================================================================
