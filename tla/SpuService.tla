----------------------------- MODULE SpuService -----------------------------
(***************************************************************************)
(* What a manager thread expects of its SPU: it asks for its chunk to be   *)
(* processed with a parameter, the chunk is processed once with that       *)
(* parameter, and only then the manager gives the chunk up.                *)
(***************************************************************************)
EXTENDS Sequences

CONSTANTS
  Managers,  \* the spu_manage threads
  Chunks,    \* the slots of the chunk buffer
  Params,    \* the parameters a chunk may be processed with
  NoChunk    \* what a manager has between two chunks

VARIABLES
  phase,  \* phase[m]: idle, asked or served
  chunk,  \* chunk[m]: the chunk m has, or NoChunk
  param,  \* param[m]: the parameter m asks for
  work    \* work[c]: what chunk c was processed with since it was taken

serviceVars == <<phase, chunk, param, work>>

Init ==
  /\ phase = [m \in Managers |-> "idle"]
  /\ chunk = [m \in Managers |-> NoChunk]
  /\ param \in [Managers -> Params]
  /\ work = [c \in Chunks |-> <<>>]

(* The chunk is nobody else's.                                             *)
Ask(m, c, p) ==
  /\ phase[m] = "idle"
  /\ \A k \in Managers : chunk[k] # c
  /\ phase' = [phase EXCEPT ![m] = "asked"]
  /\ chunk' = [chunk EXCEPT ![m] = c]
  /\ param' = [param EXCEPT ![m] = p]
  /\ work' = [work EXCEPT ![c] = <<>>]

Serve(m) ==
  /\ phase[m] = "asked"
  /\ phase' = [phase EXCEPT ![m] = "served"]
  /\ work' = [work EXCEPT ![chunk[m]] = <<param[m]>>]
  /\ UNCHANGED <<chunk, param>>

Finish(m) ==
  /\ phase[m] = "served"
  /\ phase' = [phase EXCEPT ![m] = "idle"]
  /\ chunk' = [chunk EXCEPT ![m] = NoChunk]
  /\ UNCHANGED <<param, work>>

Next == \E m \in Managers :
  \/ \E c \in Chunks, p \in Params : Ask(m, c, p)
  \/ Serve(m)
  \/ Finish(m)

Spec == Init /\ [][Next]_serviceVars
=============================================================================
