----------------------- MODULE MCDoubleBufferStaging -----------------------
(***************************************************************************)
(* Two small instances of DoubleBufferStaging.  "Pipeline": one chunk of   *)
(* three layers, so that a slot is filled, consumed and filled again for   *)
(* another layer.                                                          *)
(* "Handoff": several chunks and leases of several borrowers, each with    *)
(* little work, so that one may find what another left.                    *)
(***************************************************************************)
EXTENDS DoubleBufferStaging

PipelineMaxSubmitted == [caller |-> 2, copy |-> 3]
HandoffMaxSubmitted  == [caller |-> 2, copy |-> 2]
=============================================================================
