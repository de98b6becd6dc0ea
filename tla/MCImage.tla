------------------------------- MODULE MCImage -------------------------------
(* Instances of Image for TLC.  Chunks of 8 x 7 pixels with a border of 2  *)
(* lie 4 columns and 3 rows apart.                                         *)
EXTENDS Image

size(w, h) == [w |-> w, h |-> h]

(* Sizes whose rest after the last full chunk is nothing or at least a     *)
(* border: up to three columns and three rows of chunks.                   *)
OneImage == {<<size(w, h)>> : w \in {2, 4, 6, 8, 10}, h \in {3, 5}} \cup {<<size(8, 8)>>}

(* Two files of a directory, or two commands of the user.                  *)
TwoImages == {<<size(6, 5), size(6, 5)>>}

Images == OneImage \cup {<<size(6, 3), size(4, 5)>>, <<size(8, 3), size(8, 3)>>}

ASSUME ImagesFit == Fitting
=============================================================================
