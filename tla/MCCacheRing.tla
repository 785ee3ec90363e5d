---------------------------- MODULE MCCacheRing ----------------------------
(* Values for model checking CacheRing.                                    *)
EXTENDS CacheRing

MCLens == {1, 2}
MCAll == {"read", "write", "rot", "header"}
MCRot == {"rot", "header"}
\* 0, a length that fits, one within the tolerance and one beyond it
MCRotTo == {0, 2, 3, 9}
=============================================================================
