-------------------------- MODULE MCSessionStores --------------------------
(* SessionStores for TLC: handles of one root are interchangeable, and so  *)
(* are the openers.                                                        *)
EXTENDS SessionStores, TLC

Symmetry == Permutations(Handles) \cup Permutations(Openers)
=============================================================================
