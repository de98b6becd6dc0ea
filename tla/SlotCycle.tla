----------------------------- MODULE SlotCycle -----------------------------
(***************************************************************************)
(* What the chunk buffer promises its users, without locks, indexes or     *)
(* counters: a slot is in one place, has at most one owner, and moves one  *)
(* step at a time round the cycle                                          *)
(*   FREE -> RECEIVING -> WAIT -> WORKING -> READY -> SENDING -> FREE      *)
(* (back from WORKING to WAIT for a further entry of a sequence).  Buffer  *)
(* is shown to implement it.                                               *)
(***************************************************************************)
EXTENDS ChunkStates

CONSTANT NoThread

VARIABLES
  place,  \* place[i]: where slot i is in the cycle
  owner   \* owner[i]: the thread that holds a pointer to slot i, or NoThread

slotVars == <<place, owner>>

Init ==
  /\ place = [i \in Slots |-> "FREE"]
  /\ owner = [i \in Slots |-> NoThread]

Owns(t, i) == owner[i] = t

(* A thread that holds no slot finds one in its source state.              *)
Take(t, i) ==
  /\ \A j \in Slots : ~Owns(t, j)
  /\ owner[i] = NoThread
  /\ place[i] = Source(t)
  /\ place' = [place EXCEPT ![i] = Busy(t)]
  /\ owner' = [owner EXCEPT ![i] = t]

(* The owner passes the slot on and forgets it.                            *)
Pass(t, i) ==
  /\ Owns(t, i)
  /\ \E s \in Goals(t) : place' = [place EXCEPT ![i] = s]
  /\ owner' = [owner EXCEPT ![i] = NoThread]

(* A manager forgets a slot and leaves it in WORKING, where nobody looks   *)
(* for slots: the slot is lost to the buffer.                              *)
Abandon(t, i) ==
  /\ MayAbandon
  /\ t \in Managers
  /\ Owns(t, i)
  /\ owner' = [owner EXCEPT ![i] = NoThread]
  /\ UNCHANGED place

Next == \E t \in Threads, i \in Slots : Take(t, i) \/ Pass(t, i) \/ Abandon(t, i)

Spec == Init /\ [][Next]_slotVars
=============================================================================
