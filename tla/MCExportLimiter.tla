--------------------------- MODULE MCExportLimiter ---------------------------
(* Instances of ExportLimiter for TLC.                                       *)
EXTENDS ExportLimiter

CONSTANTS c1, c2, c3, c4, c5

FiveCalls == {c1, c2, c3, c4, c5}

=============================================================================
