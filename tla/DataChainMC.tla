---------------------------- MODULE DataChainMC ----------------------------
(***************************************************************************)
(* Items of two bytes and chunks that are empty, shorter, as long and      *)
(* longer than an item, with an LF at every place of an item.              *)
(***************************************************************************)
EXTENDS DataChain

MCChunks == {<<>>, <<"a">>, <<LF>>, <<CR, LF>>, <<"b", CR, "a">>}
MCSizes == {0, 1, 2, 4, 5}
=============================================================================
