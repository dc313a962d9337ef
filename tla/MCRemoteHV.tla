------------------------------ MODULE MCRemoteHV ------------------------------
(* One channel, which the sub-runs want on, off and on again.                  *)
EXTENDS RemoteHV, TLC
CONSTANT c1
OneChan == {c1}
OnOffOn == <<c1 :> 1, c1 :> 0, c1 :> 1>>
=============================================================================
