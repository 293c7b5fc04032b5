----------------------------- MODULE MCLiveFeed -----------------------------
(* Small instances of LiveFeed for TLC. *)
EXTENDS LiveFeed

OneAddress == [p \in Pages |-> "ip"]
=============================================================================
