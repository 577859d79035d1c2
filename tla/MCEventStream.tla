--------------------------- MODULE MCEventStream ----------------------------
(* Three streams and two subscriber slots, so that one is refused; queues   *)
(* shorter than the run's events, so that a client that does not read is   *)
(* overrun and its terminal event has to displace another.                 *)
EXTENDS EventStream

CONSTANTS s1, s2, s3

MCStreams == {s1, s2, s3}
MCEndings == {"completed_with_fallbacks", "cancelled"}
=============================================================================
