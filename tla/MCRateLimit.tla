---------------------------- MODULE MCRateLimit ----------------------------
(* RateLimit for TLC: two tiers, the second reached within one lifetime of *)
(* the counter; a block shorter than the counter's TTL, so that a counter  *)
(* can outlive the block it caused, and one as long as it, as in the       *)
(* default configuration (24 hours each).                                  *)
EXTENDS RateLimit

MCTiers == {[threshold |-> 2, block |-> 1], [threshold |-> 3, block |-> 2]}

=============================================================================
