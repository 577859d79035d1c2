------------------------ MODULE MCCorrectionSession -------------------------
(* Two providers, one with a catalogue beyond the page bound; two jobs, so  *)
(* that the answers of the first meet the second.                          *)
EXTENDS CorrectionSession

CONSTANTS openai, anthropic

MCProviders == {openai, anthropic}
MCPages == [p \in MCProviders |-> IF p = openai THEN 1 ELSE 3]
=============================================================================
