-------------------------- MODULE MCRunStoreThreads --------------------------
(***************************************************************************)
(* Two threads, a store of two runs, three ids: a put can replace the      *)
(* older or the newer entry, or evict one, while the other thread fetches  *)
(* or stores any id.                                                       *)
(***************************************************************************)
EXTENDS RunStoreThreads

CONSTANTS th1, th2, i1, i2, i3, first, second

MCThreads == {th1, th2}
MCIds == {i1, i2, i3}
MCOwners == {first, second}
==============================================================================
