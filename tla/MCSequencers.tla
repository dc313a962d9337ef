---------------------------- MODULE MCSequencers ----------------------------
(* Two chip configurations scanned in order.                               *)
EXTENDS Sequencers
TwoConfigs == <<"gain3", "gain4">>
=============================================================================
