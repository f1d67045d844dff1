---------------------------- MODULE MCForwarding ----------------------------
(* Three upstreams.  MCRank: an account and an API-key upstream share the   *)
(* first priority, a second account of the same provider has the next one.  *)
(* FlatRank: all three share one group.                                     *)
EXTENDS Forwarding

MCUpstreams == {"codex1", "chat1", "codex2"}
MCRank == [u \in MCUpstreams |-> IF u = "codex2" THEN 2 ELSE 1]
FlatRank == [u \in MCUpstreams |-> 1]
MCPos == [codex1 |-> 1, chat1 |-> 2, codex2 |-> 3]
MCProvider == [u \in MCUpstreams |-> IF u = "chat1" THEN "chat" ELSE "codex"]
MCModes == {[kind |-> "serial", capacity |-> 1], [kind |-> "race", capacity |-> 2],
            [kind |-> "hedged", capacity |-> 2]}
=============================================================================
