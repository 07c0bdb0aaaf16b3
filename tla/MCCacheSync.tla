---------------------------- MODULE MCCacheSync ----------------------------
(* CacheSync for TLC: model values for rooms and contexts are in the cfg    *)
(* files; contexts are interchangeable.                                     *)
EXTENDS CacheSync, TLC

Symmetry == Permutations(Ctx)
=============================================================================
