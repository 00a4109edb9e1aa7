---------------------------- MODULE MCBPlusTree ----------------------------
(***************************************************************************)
(* Small trees for TLC.  Every key has its own reference; among            *)
(* MCEntries one key has a second one.                                     *)
(***************************************************************************)
EXTENDS BPlusTree

MCOneEach == {[key |-> k, ref |-> 100 - k] : k \in Keys}
MCEntries == MCOneEach \cup {[key |-> 2, ref |-> 50]}

(* Bound: at most two insertions follow one that left a split unlinked     *)
(* before the tree is made anew.                                           *)
SoonMadeAnew == sinceCut <= 3
=============================================================================
