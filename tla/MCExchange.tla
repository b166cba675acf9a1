----------------------------- MODULE MCExchange -----------------------------
(* Instances of Exchange for TLC. *)
EXTENDS Exchange

\* A rejected reference leads to a characterization, a resend with the full
\* history or a fallback, an unavailability to a fallback.  Failures after a
\* possible execution and final ones come with the unusable responses.
Failures == {[exec |-> "notDispatched", cause |-> "unavailable"],
             [exec |-> "rejectedBefore", cause |-> "refInvalid"]}
=============================================================================
