----------------------------- MODULE MCTimeouts -----------------------------
(***************************************************************************)
(* Small instances of Timeouts for TLC.                                    *)
(***************************************************************************)
EXTENDS Timeouts

TwoTimers == <<[h |-> "ip_reass_timer", msecs |-> 2], [h |-> "dns_timer", msecs |-> 2]>>
DnsTimer == {"dns_timer"}
=============================================================================
