----------------------------- MODULE MCClients -----------------------------
(***************************************************************************)
(* Instances of the parts of the client (module Clients) for TLC.          *)
(***************************************************************************)
EXTENDS Clients

\* Sets of two rows, one of which has the element 0 twice, as the filter allows.
MCBaseSets == {<<0, 1>>, <<0, 0>>}

\* Sets of three out of seven rows.
MCOtherBases == {<<0, 1, 3>>, <<5, 0, 0>>}

MCUnitBases == {<<0>>, <<1>>}

\* Words of four bits: quotients may be up to fifteen.
MCKeyLengths == 1..4
=============================================================================
