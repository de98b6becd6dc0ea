---------------------------- MODULE ChunkStates ----------------------------
(***************************************************************************)
(* The life of a buffer slot: the chunk states of common.h, and which      *)
(* thread of the server moves a slot from which state to which.  It is the *)
(* vocabulary shared by SlotCycle (what the buffer promises) and Buffer    *)
(* (what Buffer.cpp does).                                                 *)
(***************************************************************************)
EXTENDS Integers, FiniteSets

CONSTANTS
  N,          \* number of slots; buffer.init(1024) in Main.cpp
  IO,         \* the one thread that runs io_service::run
  Managers,   \* the spu_manage threads, one per RUN command
  Senders,    \* the handle_write threads, one per connection
  MultiStep,  \* TRUE iff some sequence has more than one entry
  MayAbandon  \* TRUE iff a chunk may name an unknown sequence or parameter

ASSUME NAssumption == N \in Nat \ {0}

ASSUME ThreadsAssumption ==
  /\ IO \notin Managers \cup Senders
  /\ Managers \cap Senders = {}

ASSUME FlagsAssumption == {MultiStep, MayAbandon} \subseteq BOOLEAN

Slots   == 0 .. N-1
Threads == {IO} \cup Managers \cup Senders

States == {"FREE", "RECEIVING", "WAIT", "WORKING", "READY", "SENDING"}

(* The state a thread looks for with find_chunk or find_wait_chunk.        *)
Source(t) ==
  CASE t = IO         -> "FREE"
    [] t \in Managers -> "WAIT"
    [] t \in Senders  -> "READY"

(* The state a found slot is put in while the thread owns it.              *)
Busy(t) ==
  CASE t = IO         -> "RECEIVING"
    [] t \in Managers -> "WORKING"
    [] t \in Senders  -> "SENDING"

(* The states the thread may pass the slot on to with step_chunk.  A       *)
(* manager requeues a chunk whose sequence has further entries.  Mutant:   *)
(* it requeues chunks of single-entry sequences too.                       *)
GoalsRequeue(t) ==
  CASE t = IO         -> {"WAIT"}
    [] t \in Managers -> {"WAIT", "READY"}
    [] t \in Senders  -> {"FREE"}
Goals(t) ==
  CASE t = IO         -> {"WAIT"}
    [] t \in Managers -> IF MultiStep THEN {"WAIT", "READY"} ELSE {"READY"}
    [] t \in Senders  -> {"FREE"}
=============================================================================
