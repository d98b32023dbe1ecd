------------------------ MODULE MCZenzLiveCorrector ------------------------
(* Model checking instance of ZenzLiveCorrector.                            *)
EXTENDS ZenzLiveCorrector, TLC
=============================================================================
