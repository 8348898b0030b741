-------------------------- MODULE EncryptedBackend --------------------------
(***************************************************************************)
(* The encrypted backend (pkg/storage/encrypted.go) that databroker        *)
(* servers put in front of a shared redis: data is sealed with the server's *)
(* secret, types and identifiers of records are not.  Servers may differ in *)
(* their secrets, while the shared secret of an installation is replaced.  *)
(* Commands of redis are taken as single steps here; how they interleave   *)
(* is RedisBroker's subject.  The other end is a syncer                    *)
(* (pkg/grpc/databroker/syncer.go).                                        *)
(***************************************************************************)
EXTENDS Naturals, Sequences, FiniteSets

CONSTANTS
  Brokers,      \* databroker servers over the same redis
  Secrets,      \* secrets they may have
  RecordTypes,  \* types of records, each with a single identifier
  Bare,         \* the types whose removal is put without data (manager.go:278)
  MaxSealed,    \* bound on the calls of Put
  MaxSecrets    \* bound on changes of configuration and restarts

\* a type of records has a name
ASSUME TypesAssumption == "" \notin RecordTypes

VARIABLES
  secret,       \* the secret of each server's backend
  knows,        \* whether each server has the version initVersion stored
  versionData,  \* redis: the sealed server version
  hash,         \* redis: the records hash
  sealed,       \* redis: the changes, in the order of their versions
  asPut,        \* history: the record of each Put, and all records after it
  follower,     \* the syncer, its handler's records and its call
  secretChanges

sealedVars == <<secret, knows, versionData, hash, sealed, asPut, follower, secretChanges>>

NoData == [type |-> "", value |-> 0]
NoCall == "none"

\* the results of a call; none stands for an error
encrypt(x, data) == [secret |-> x, plain |-> data]
decrypt(x, data) == IF data.secret = x THEN {data.plain} ELSE {}
\* the type of a decrypted record is that of its data
decryptRecord(x, r) == {[r EXCEPT !.type = d.type, !.data = d] : d \in decrypt(x, r.data)}

\* what a handler or the hash holds once r is stored
Stored(rs, r) ==
  LET others == {q \in rs : q.type # r.type}
  IN IF r.deleted THEN others ELSE others \union {r}

EncryptedInit ==
  /\ secret \in [Brokers -> Secrets]
  /\ \E b \in Brokers :
       /\ versionData = encrypt(secret[b], [type |-> "version", value |-> 1])
       /\ knows = [c \in Brokers |-> secret[c] = secret[b]]
  /\ hash = {} /\ sealed = <<>> /\ asPut = <<>> /\ secretChanges = 0
  /\ follower = [live |-> FALSE, version |-> 0, records |-> {}, at |-> NoCall, position |-> 0, wire |-> <<>>]

---------------------------------------------------------------------------
(* The backend *)

EncryptedPut(b) ==
  /\ Len(sealed) < MaxSealed
  /\ \E t \in RecordTypes, deleted \in BOOLEAN :
       LET n == Len(sealed) + 1
           data == IF deleted /\ t \in Bare THEN NoData ELSE [type |-> t, value |-> n]
           r == [version |-> n, type |-> t, deleted |-> deleted, data |-> data]
           s == [r EXCEPT !.data = encrypt(secret[b], data)]
           before == IF asPut = <<>> THEN {} ELSE asPut[n - 1].all
       IN /\ hash' = Stored(hash, s)
          /\ sealed' = Append(sealed, s)
          /\ asPut' = Append(asPut, [record |-> r, all |-> Stored(before, r)])
  /\ UNCHANGED <<secret, knows, versionData, follower, secretChanges>>

\* Get, of the server version: a version that cannot be read leaves the old one
EncryptedGet(x, old) == decrypt(x, versionData) # {} \/ old

\* mutant: what cannot be decrypted is left out
EncryptedGetAllSkips(x) == {UNION {decryptRecord(x, r) : r \in hash}}
\* one record that cannot be decrypted, the server version included, is an error
EncryptedGetAll(x) ==
  IF decrypt(x, versionData) = {} \/ \E r \in hash : decryptRecord(x, r) = {} THEN {}
  ELSE {UNION {decryptRecord(x, r) : r \in hash}}

---------------------------------------------------------------------------
(* Servers and syncer *)

\* the secret is changed, with or without a restart; the old backend's calls end
ChangeSecret(b) ==
  /\ secretChanges < MaxSecrets /\ secretChanges' = secretChanges + 1
  /\ \E x \in Secrets, restart \in BOOLEAN :
       /\ restart \/ x # secret[b]
       /\ secret' = [secret EXCEPT ![b] = x]
       /\ knows' = [knows EXCEPT ![b] = EncryptedGet(x, ~restart /\ @)]
  /\ follower' = IF follower.at = b THEN [follower EXCEPT !.at = NoCall, !.wire = <<>>] ELSE follower
  /\ UNCHANGED <<versionData, hash, sealed, asPut>>

\* SyncLatest, which the syncer tries again, maybe elsewhere, after an error
EncryptedSyncLatest(b) ==
  /\ ~follower.live
  /\ \/ EncryptedGetAll(secret[b]) = {} /\ UNCHANGED follower
     \/ \E all \in EncryptedGetAll(secret[b]) :
          follower' = [follower EXCEPT !.live = knows[b], !.version = Len(sealed), !.records = all]
  /\ UNCHANGED <<secret, knows, versionData, hash, sealed, asPut, secretChanges>>

EncryptedSync(b) ==
  /\ follower.live /\ follower.at = NoCall
  /\ follower' = IF knows[b] THEN [follower EXCEPT !.at = b, !.position = follower.version]
                 ELSE [follower EXCEPT !.live = FALSE]
  /\ UNCHANGED <<secret, knows, versionData, hash, sealed, asPut, secretChanges>>

\* a record that cannot be decrypted is sent as none, and the stream goes on;
\* at the last record it waits
EncryptedRecord(b) ==
  /\ follower.at = b /\ follower.wire = <<>>
  /\ \/ follower.position = Len(sealed) /\ UNCHANGED follower
     \/ /\ follower.position < Len(sealed)
        /\ follower' = [follower EXCEPT !.position = @ + 1,
                                        !.wire = <<decryptRecord(secret[b], sealed[follower.position + 1])>>]
  /\ UNCHANGED <<secret, knows, versionData, hash, sealed, asPut, secretChanges>>

\* no record has version 0, which is never the next one
Received ==
  /\ follower.wire # <<>>
  /\ LET rs == Head(follower.wire)
         called == [follower EXCEPT !.wire = <<>>]
     IN \/ /\ \A r \in rs : r.version # follower.version + 1
           /\ follower' = [called EXCEPT !.live = FALSE, !.at = NoCall]
        \/ \E r \in rs :
             /\ r.version = follower.version + 1
             /\ follower' = [called EXCEPT !.version = r.version, !.records = Stored(@, r)]
  /\ UNCHANGED <<secret, knows, versionData, hash, sealed, asPut, secretChanges>>

EncryptedNext ==
  \/ \E b \in Brokers : \/ EncryptedPut(b) \/ ChangeSecret(b) \/ EncryptedSyncLatest(b)
                        \/ EncryptedSync(b) \/ EncryptedRecord(b)
  \/ Received
EncryptedSpec == EncryptedInit /\ [][EncryptedNext]_sealedVars

---------------------------------------------------------------------------
(* Properties *)

\* Whatever secrets the servers have and however they change, a syncer holds
\* the records as they were put, all of them, at one version: what a server
\* cannot decrypt makes the syncer stop there or start over, never go on
\* without it (GetAll, encryptedRecordStream.Record).  Types whose removal is
\* put without data are excepted, see TypePreserved.
FollowerFaithful ==
  LET shown == {r \in follower.records : r.type \notin Bare}
      put == IF follower.version = 0 THEN {} ELSE asPut[follower.version].all
  IN shown = {r \in put : r.type \notin Bare}

\* "record type should be preserved" (encrypted_test.go:73): a record read
\* through the encrypted backend has the type it was put with.
TypePreserved ==
  \A i \in DOMAIN follower.wire : \A r \in follower.wire[i] : r.type = asPut[r.version].record.type
=============================================================================
