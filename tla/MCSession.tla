----------------------------- MODULE MCSession -----------------------------
(* Small instances of Session for TLC.  Phrases and packets are model      *)
(* values that only identity tells apart.                                  *)
EXTENDS Session, TLC

Symmetry == Permutations(Phrases) \cup Permutations(Packets)
=============================================================================
