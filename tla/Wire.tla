-------------------------------- MODULE Wire --------------------------------
(***************************************************************************)
(* What the connections promise to those who use them, in one direction:   *)
(* the messages that are put in come out whole, in their order, each once. *)
(* When a connection is lost the last of them do not come out.             *)
(***************************************************************************)
EXTENDS Naturals, SequencesExt

CONSTANT
  Lines  \* the connections

VARIABLES
  sent,  \* sent[c]: the messages put in so far
  taken  \* taken[c]: the messages taken out so far

wireVars == <<sent, taken>>

Init ==
  /\ sent = [c \in Lines |-> <<>>]
  /\ taken = [c \in Lines |-> <<>>]

(* Someone puts a message in.                                              *)
Send(c) ==
  /\ Len(sent'[c]) = Len(sent[c]) + 1
  /\ IsPrefix(sent[c], sent'[c])
  /\ \A d \in Lines \ {c} : sent'[d] = sent[d]
  /\ UNCHANGED taken

(* The reader has handled the next message.                                *)
Deliver(c) ==
  /\ Len(taken[c]) < Len(sent[c])
  /\ taken' = [taken EXCEPT ![c] = Append(@, sent[c][Len(@) + 1])]
  /\ UNCHANGED sent

Next == \E c \in Lines : Send(c) \/ Deliver(c)

Spec == Init /\ [][Next]_wireVars
=============================================================================
