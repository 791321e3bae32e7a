------------------------------ MODULE MCRegular ------------------------------
(* The programs of the passing runs of Pipeline are among those that the   *)
(* theorems of PipelineProofs and PipelineDataProofs are about.            *)
EXTENDS MCPipeline

ASSUME ProgramsAreRegular ==
    CondsApart /\ IrqApart /\ BytApart /\ FlagsApart /\ LiApart
=============================================================================
