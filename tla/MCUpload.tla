------------------------------ MODULE MCUpload ------------------------------
(***************************************************************************)
(* Instances of the chunked upload: one storage process, or one for each   *)
(* handler.                                                                *)
(***************************************************************************)
EXTENDS UploadProperties, TLC

CONSTANTS h1, h2, h3, u1, u2, f1

OneInstance == [h \in Handlers |-> "storage"]
OwnInstance == [h \in Handlers |-> h]

SingleProcess == {OneInstance}
TwoProcesses == {OwnInstance}
AnyPlacement == {OneInstance, OwnInstance}

HandlerSymmetry == Permutations(Handlers)
=============================================================================
