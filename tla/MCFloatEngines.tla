--------------------------- MODULE MCFloatEngines ---------------------------
(* Instances of FloatEngines: one instruction from every combination of      *)
(* operand classes.                                                          *)
EXTENDS FloatEngines

MCOperands == {Value("zero", FALSE, << >>), Value("zero", TRUE, << >>),
               Value("normal", FALSE, << >>), Value("tiny", TRUE, << >>),
               Value("infinity", FALSE, << >>), Value("infinity", TRUE, << >>),
               Value("quiet", FALSE, << >>), Value("signalling", TRUE, << >>)}
MCModes == {{}, {"VE", "RN0", "VXVC", "FX"}, {"ZE", "XE", "RN1", "OX", "XX", "FX"}}
Outcome(cls, neg, err) == [cls |-> cls, neg |-> neg, err |-> err, order |-> "FE"]
MCOutcomes == {Outcome("normal", FALSE, "exact"), Outcome("normal", TRUE, "away"),
               Outcome("tiny", FALSE, "toward"), Outcome("zero", TRUE, "toward"),
               Outcome("infinity", FALSE, "away")}
MCFpscrImages == {{"FX", "VX", "VXSNAN", "OE", "UX"}, FpscrBits}
=============================================================================
