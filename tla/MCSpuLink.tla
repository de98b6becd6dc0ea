------------------------------ MODULE MCSpuLink ------------------------------
(* Instances of SpuLink for TLC.                                           *)
EXTENDS SpuLink, TLC

CONSTANTS m1, m2, spu1, spu2, c1, c2

(* Every manager has an SPU of its own, as after `prog1'.                  *)
Apart == m1 :> spu1 @@ m2 :> spu2

(* Both managers were started for the same SPU, as after a second `prog1'. *)
Together == m1 :> spu1 @@ m2 :> spu1
=============================================================================
