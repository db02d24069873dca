--------------------------- MODULE MCSurveyedBatch ---------------------------
(* Instances of SurveyedBatch for TLC.                                     *)
EXTENDS SurveyedBatch, MCModifyBatch

LongOnly == {"long"}
==============================================================================
