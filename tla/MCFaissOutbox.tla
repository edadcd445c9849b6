--------------------------- MODULE MCFaissOutbox ---------------------------
(***************************************************************************)
(* Instances of FaissOutbox for TLC.                                       *)
(***************************************************************************)
EXTENDS FaissOutbox

\* One key is a UUID, the other, like the keys SemanticCacheSystem makes, is
\* not.
CONSTANTS uuid_key, digest_key, client_1

MCKeys == {uuid_key, digest_key}
MCUuidKeys == {uuid_key}
MCClients == {client_1}
=============================================================================
