---------------------------- MODULE MCChunkServer ----------------------------
(* Instances of ChunkServer for TLC: what the clients send.                *)
EXTENDS ChunkServer, TLC

CONSTANTS conn1, conn2, spu1, spu2

load        == [kind |-> "load", prog |-> 0]
run(s)      == [kind |-> "run", spu |-> s, prog |-> 0]
param(p, x) == [kind |-> "param", param |-> p, mask |-> x]
seq(es)     == [kind |-> "seq", seq |-> 0, entries |-> es]
chunk(id)   == [kind |-> "chunk", id |-> id, seq |-> 0]
status      == [kind |-> "status"]

entry(g, p) == [prog |-> g, param |-> p]

(* prog1 of the client program, on two SPUs, with a sequence of one or two *)
(* entries; then an image, the mask command, and another image.            *)
Prog1(es) ==
  <<status, load, run(spu1), run(spu2), param(0, "A"), seq(es),
    chunk(1), chunk(2), param(5, "B"), chunk(3)>>

Prog1Scripts == [{conn1} -> {Prog1(<<entry(0, 0)>>),
                             Prog1(<<entry(0, 0), entry(0, 0)>>)}]

ASSUME Prog1Orderly == Scripts = Prog1Scripts => OrderlyClients

(* Two clients: one sets the server up, again and again, while the other   *)
(* already sends chunks and asks for programs and SPUs that do not exist.  *)
AnyScripts ==
  {conn1 :> <<load, run(spu1), param(0, "A"), seq(<<entry(0, 0)>>),
              param(0, "B"), run(spu1)>>
   @@ conn2 :> <<status, chunk(1), run("spu6"), param(1, "C"), chunk(2)>>}

(* A sequence whose entry does not name parameter 0.                       *)
CacheScripts ==
  {conn1 :> <<load, run(spu1), param(1, "A"), param(0, "B"),
              seq(<<entry(0, 1)>>), chunk(1)>>}
=============================================================================
