--------------------------- MODULE MCRedisBroker ---------------------------
(***************************************************************************)
(* Storage in redis, in two worlds: transactions, streams and faults with  *)
(* the data in the clear (RedisBroker), and servers that seal the data     *)
(* with secrets that differ (EncryptedBackend).  The variables of the      *)
(* other world stand still.                                                *)
(***************************************************************************)
EXTENDS RedisBroker, EncryptedBackend

VARIABLE world

MCKeys == {"version", "k"}

SealedIdle ==
  /\ EncryptedInit
  /\ \A b \in Brokers : secret[b] = CHOOSE x \in Secrets : TRUE
StorageInit ==
  /\ Init /\ EncryptedInit
  /\ \/ world = "redis" /\ SealedIdle
     \/ world = "encrypted"
StorageNext ==
  \/ world = "redis" /\ Next /\ UNCHANGED <<sealedVars, world>>
  \/ world = "encrypted" /\ EncryptedNext /\ UNCHANGED <<vars, world>>
\* the fairness of RedisBroker, in its world; nothing is asked of the other
StorageSpec ==
  /\ StorageInit /\ [][StorageNext]_<<vars, sealedVars, world>>
  /\ world = "redis" => Fairness
============================================================================
