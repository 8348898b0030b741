-------------------------- MODULE EncryptedProofs --------------------------
(***************************************************************************)
(* Proof that a syncer behind encrypted backends holds what was put, for   *)
(* every number of servers, secrets, types and calls.                      *)
(***************************************************************************)
EXTENDS EncryptedBackend, TLAPS

TypeNames == RecordTypes \cup {""}
PlainData == [type : TypeNames, value : Nat]
PlainRecord == [version : Nat, type : RecordTypes, deleted : BOOLEAN, data : PlainData]
SealedData == [secret : Secrets, plain : PlainData]
SealedRecord == [version : Nat, type : RecordTypes, deleted : BOOLEAN, data : SealedData]
OpenedRecord == [version : Nat, type : TypeNames, deleted : BOOLEAN, data : PlainData]

\* s is r with its data sealed
SealedAs(r, s) ==
  s.version = r.version /\ s.type = r.type /\ s.deleted = r.deleted /\ s.data.plain = r.data
\* o is what is read back of r
OpenedAs(r, o) ==
  o.version = r.version /\ o.type = r.data.type /\ o.deleted = r.deleted /\ o.data = r.data
\* the data of a record is of its type, unless its removal is put without
Whole(r) == r.data.type = r.type \/ (r.deleted /\ r.type \in Bare /\ r.data.type = "")
AllAt(n) == IF n = 0 THEN {} ELSE asPut[n].all

Followers ==
  [live : BOOLEAN, version : Nat, records : SUBSET OpenedRecord, at : Brokers \cup {NoCall}, position : Nat,
   wire : Seq(SUBSET OpenedRecord)]
EncryptedTypes ==
  /\ secret \in [Brokers -> Secrets] /\ knows \in [Brokers -> BOOLEAN]
  /\ asPut \in Seq([record : PlainRecord, all : SUBSET PlainRecord])
  /\ sealed \in Seq(SealedRecord)
  /\ hash \in SUBSET SealedRecord
  /\ follower \in Followers
\* the changes in redis are the records put, sealed; the history is theirs
ChangesInv ==
  /\ Len(sealed) = Len(asPut)
  /\ \A i \in 1..Len(asPut) :
       /\ asPut[i].record.version = i
       /\ Whole(asPut[i].record)
       /\ SealedAs(asPut[i].record, sealed[i])
       /\ asPut[i].all = Stored(AllAt(i - 1), asPut[i].record)
       /\ \A r \in asPut[i].all : ~r.deleted /\ Whole(r)
\* the hash is the records after the last Put, sealed
HashInv ==
  /\ \A s \in hash : \E r \in AllAt(Len(asPut)) : SealedAs(r, s)
  /\ \A r \in AllAt(Len(asPut)) : \E s \in hash : SealedAs(r, s)
\* what is on its way to the syncer was put
WireInv ==
  /\ follower.version <= Len(asPut) /\ follower.position <= Len(asPut)
  /\ \A i \in 1..Len(follower.wire) : \A o \in follower.wire[i] :
       \E n \in 1..Len(asPut) : OpenedAs(asPut[n].record, o)
IInv == EncryptedTypes /\ ChangesInv /\ HashInv /\ WireInv /\ FollowerFaithful

LEMMA Opens ==
  ASSUME NEW s \in SealedRecord, NEW r \in PlainRecord, SealedAs(r, s), NEW x, NEW o \in decryptRecord(x, s)
  PROVE  o \in OpenedRecord /\ OpenedAs(r, o)
<1>1. PICK d \in decrypt(x, s.data) : o = [s EXCEPT !.type = d.type, !.data = d]
  BY Zenon DEF decryptRecord
<1>2. d = r.data /\ d \in PlainData
  BY <1>1, Zenon DEF decrypt, SealedAs, PlainRecord
<1>3. QED
  BY <1>1, <1>2, Zenon DEF SealedRecord, OpenedRecord, PlainData, OpenedAs, SealedAs

LEMMA SameRecord ==
  ASSUME NEW r \in PlainRecord, NEW o \in OpenedRecord, OpenedAs(r, o), r.data.type = r.type
  PROVE  o = r
BY DEF PlainRecord, OpenedRecord, OpenedAs

\* what was put by some call, and all records after it
LEMMA PutFacts ==
  ASSUME EncryptedTypes, NEW i \in 1..Len(asPut)
  PROVE  asPut[i].record \in PlainRecord /\ asPut[i].all \in SUBSET PlainRecord
<1> DEFINE Entries == [record : PlainRecord, all : SUBSET PlainRecord]
<1>1. asPut \in Seq(Entries)
  BY Zenon DEF EncryptedTypes, Followers
<1>2. ASSUME NEW S, NEW q \in Seq(S), NEW k \in 1..Len(q) PROVE q[k] \in S
  OBVIOUS
<1>3. asPut[i] \in Entries
  BY <1>1, <1>2, Zenon
<1>4. QED
  BY <1>3, Zenon

LEMMA LastFacts ==
  ASSUME EncryptedTypes, ChangesInv
  PROVE  \A r \in AllAt(Len(asPut)) : r \in PlainRecord /\ ~r.deleted /\ Whole(r)
<1>1. Len(asPut) \in Nat
  BY DEF EncryptedTypes, Followers
<1>2. CASE Len(asPut) = 0
  BY <1>2, Zenon DEF AllAt
<1>3. CASE Len(asPut) # 0
  <2>1. Len(asPut) \in 1..Len(asPut)
    BY <1>1, <1>3
  <2>2. AllAt(Len(asPut)) = asPut[Len(asPut)].all
    BY <1>3, Zenon DEF AllAt
  <2>3. asPut[Len(asPut)].all \in SUBSET PlainRecord
    BY <2>1, PutFacts, Zenon
  <2>4. \A r \in asPut[Len(asPut)].all : ~r.deleted /\ Whole(r)
    BY <2>1, Zenon DEF ChangesInv
  <2>5. QED
    BY <2>2, <2>3, <2>4, Zenon
<1>4. QED
  BY <1>2, <1>3, Zenon

LEMMA InitInv == EncryptedInit => IInv
<1> SUFFICES ASSUME EncryptedInit PROVE IInv
  BY Zenon
<1>1. EncryptedTypes
  BY DEF EncryptedInit, EncryptedTypes, Followers
<1>2. ChangesInv /\ HashInv /\ WireInv
  BY DEF EncryptedInit, ChangesInv, HashInv, WireInv, AllAt
<1>3. FollowerFaithful
  BY Zenon DEF EncryptedInit, FollowerFaithful
<1>4. QED
  BY <1>1, <1>2, <1>3, Zenon DEF IInv

\* what GetAll returns, when it does, is all that was put
LEMMA GetAllExact ==
  ASSUME IInv, NEW x, NEW all \in EncryptedGetAll(x)
  PROVE  all = AllAt(Len(asPut)) /\ all \in SUBSET OpenedRecord
<1>a. EncryptedTypes /\ ChangesInv /\ HashInv
  BY Zenon DEF IInv
<1>b. \A r \in AllAt(Len(asPut)) : r \in PlainRecord /\ ~r.deleted /\ Whole(r)
  BY <1>a, LastFacts, Zenon
<1>c. all = UNION {decryptRecord(x, s) : s \in hash} /\ \A s \in hash : decryptRecord(x, s) # {}
  BY Zenon DEF EncryptedGetAll
<1>d. ASSUME NEW s \in hash, NEW r \in AllAt(Len(asPut)), SealedAs(r, s), NEW o \in decryptRecord(x, s)
      PROVE  o = r /\ o \in OpenedRecord
  <2>1. s \in SealedRecord /\ r \in PlainRecord /\ r.data.type = r.type
    BY <1>a, <1>b, Zenon DEF EncryptedTypes, Followers, Whole
  <2>2. QED
    BY <1>d, <2>1, Opens, SameRecord, Zenon
<1>1. ASSUME NEW o \in all PROVE o \in AllAt(Len(asPut)) /\ o \in OpenedRecord
  <2>1. PICK s \in hash : o \in decryptRecord(x, s)
    BY <1>c, Zenon
  <2>2. PICK r \in AllAt(Len(asPut)) : SealedAs(r, s)
    BY <1>a, Zenon DEF HashInv
  <2>3. QED
    BY <1>d, <2>1, <2>2, Zenon
<1>2. ASSUME NEW r \in AllAt(Len(asPut)) PROVE r \in all
  <2>1. PICK s \in hash : SealedAs(r, s)
    BY <1>a, Zenon DEF HashInv
  <2>2. PICK o : o \in decryptRecord(x, s)
    BY <1>c, Zenon
  <2>3. o = r
    BY <1>d, <2>1, <2>2, Zenon
  <2>4. QED
    BY <1>c, <2>2, <2>3, Zenon
<1>3. QED
  BY <1>1, <1>2, Zenon

LEMMA PutStep == ASSUME IInv, NEW b \in Brokers, EncryptedPut(b) PROVE IInv'
<1>a. EncryptedTypes /\ ChangesInv /\ HashInv /\ WireInv /\ FollowerFaithful
  BY Zenon DEF IInv
<1>n. DEFINE n == Len(sealed) + 1
<1>p. PICK t \in RecordTypes, deleted \in BOOLEAN :
        LET data == IF deleted /\ t \in Bare THEN NoData ELSE [type |-> t, value |-> n]
            r == [version |-> n, type |-> t, deleted |-> deleted, data |-> data]
            s == [r EXCEPT !.data = encrypt(secret[b], data)]
            before == IF asPut = <<>> THEN {} ELSE asPut[n - 1].all
        IN /\ hash' = Stored(hash, s)
           /\ sealed' = Append(sealed, s)
           /\ asPut' = Append(asPut, [record |-> r, all |-> Stored(before, r)])
  BY Zenon DEF EncryptedPut
<1> DEFINE data == IF deleted /\ t \in Bare THEN NoData ELSE [type |-> t, value |-> n]
           r == [version |-> n, type |-> t, deleted |-> deleted, data |-> data]
           s == [r EXCEPT !.data = encrypt(secret[b], data)]
           before == IF asPut = <<>> THEN {} ELSE asPut[n - 1].all
<1>e. /\ hash' = Stored(hash, s) /\ sealed' = Append(sealed, s)
      /\ asPut' = Append(asPut, [record |-> r, all |-> Stored(before, r)])
      /\ UNCHANGED <<secret, knows, follower>>
  BY <1>p, Zenon DEF EncryptedPut
<1>l. Len(sealed) \in Nat /\ Len(asPut) = Len(sealed) /\ n \in Nat /\ n - 1 = Len(asPut)
  BY <1>a DEF EncryptedTypes, Followers, ChangesInv
<1>d. data \in PlainData /\ (data.type = t \/ (deleted /\ t \in Bare /\ data.type = ""))
  BY <1>l, Zenon DEF NoData, PlainData, TypeNames
<1>r. /\ r \in PlainRecord /\ r.version = n /\ r.type = t /\ r.deleted = deleted /\ r.data = data
  BY <1>l, <1>d, Zenon DEF PlainRecord
<1>s. /\ s \in SealedRecord /\ s.version = n /\ s.type = t /\ s.deleted = deleted /\ s.data.plain = data
  BY <1>a, <1>l, <1>d, Zenon DEF SealedRecord, SealedData, encrypt, EncryptedTypes, Followers
<1>w. Whole(r) /\ SealedAs(r, s)
  BY <1>d, <1>r, <1>s, Zenon DEF Whole, SealedAs
<1>b. before = AllAt(Len(asPut)) /\ before \in SUBSET PlainRecord /\ \A q \in before : ~q.deleted /\ Whole(q)
  <2>1. before = AllAt(Len(asPut))
    BY <1>a, <1>l DEF AllAt, EncryptedTypes, Followers
  <2>2. QED
    BY <1>a, <2>1, LastFacts, Zenon
<1> HIDE DEF n, data, r, s, before
<1>t. /\ Stored(before, r) \in SUBSET PlainRecord /\ Stored(hash, s) \in SUBSET SealedRecord
      /\ \A q \in Stored(before, r) : ~q.deleted /\ Whole(q)
  BY <1>a, <1>b, <1>r, <1>s, <1>w, Zenon DEF Stored, EncryptedTypes, Followers
<1>1. EncryptedTypes'
  BY <1>a, <1>e, <1>t, <1>r, <1>s DEF EncryptedTypes, Followers
<1>k. /\ Len(asPut') = n /\ Len(sealed') = n
      /\ \A i \in 1..Len(asPut) : asPut'[i] = asPut[i] /\ sealed'[i] = sealed[i]
      /\ asPut'[n].record = r /\ asPut'[n].all = Stored(before, r) /\ sealed'[n] = s
  <2>1. asPut \in Seq([record : PlainRecord, all : SUBSET PlainRecord]) /\ sealed \in Seq(SealedRecord)
    BY <1>a, Zenon DEF EncryptedTypes, Followers
  <2>2. /\ Len(sealed') = n /\ sealed'[n] = s
        /\ \A i \in 1..Len(asPut) : sealed'[i] = sealed[i]
    BY <1>e, <1>l, <2>1, SMTT(30)
  <2>3. /\ Len(asPut') = n /\ asPut'[n].record = r /\ asPut'[n].all = Stored(before, r)
        /\ \A i \in 1..Len(asPut) : asPut'[i] = asPut[i]
    BY <1>e, <1>l, <2>1, SMTT(30)
  <2> QED
    BY <2>2, <2>3, Zenon
<1>h. /\ \A i \in 0..Len(asPut) : AllAt(i)' = AllAt(i)
      /\ AllAt(Len(asPut))' = Stored(before, r)
  BY <1>l, <1>k DEF AllAt
<1>2. ChangesInv'
  <2>1. ASSUME NEW i \in 1..n
        PROVE  /\ asPut'[i].record.version = i /\ Whole(asPut'[i].record)
               /\ SealedAs(asPut'[i].record, sealed'[i])
               /\ asPut'[i].all = Stored(AllAt(i - 1)', asPut'[i].record)
               /\ \A q \in asPut'[i].all : ~q.deleted /\ Whole(q)
    <3>1. CASE i = n
      BY <1>k, <1>h, <1>b, <1>l, <1>r, <1>w, <1>t, <3>1
    <3>2. CASE i \in 1..Len(asPut)
      <4>1. AllAt(i - 1)' = AllAt(i - 1)
        BY <1>h, <1>l, <3>2
      <4>2. QED
        BY <1>a, <1>k, <3>2, <4>1, Zenon DEF ChangesInv
    <3>3. QED
      BY <1>l, <3>1, <3>2
  <2>2. QED
    BY <1>k, <2>1, Zenon DEF ChangesInv, AllAt, Whole, SealedAs, Stored
<1>3. HashInv'
  <2>1. ASSUME NEW q \in Stored(hash, s) PROVE \E p \in Stored(before, r) : SealedAs(p, q)
    BY <1>a, <1>b, <1>r, <1>s, <1>w DEF Stored, HashInv, SealedAs
  <2>2. ASSUME NEW p \in Stored(before, r) PROVE \E q \in Stored(hash, s) : SealedAs(p, q)
    BY <1>a, <1>b, <1>r, <1>s, <1>w DEF Stored, HashInv, SealedAs
  <2>3. QED
    BY <1>e, <1>h, <2>1, <2>2 DEF HashInv, SealedAs
<1>4. WireInv'
  <2>1. ASSUME NEW i \in 1..Len(follower.wire), NEW o \in follower.wire[i]
        PROVE  \E m \in 1..n : OpenedAs(asPut'[m].record, o)
    <3>1. PICK m \in 1..Len(asPut) : OpenedAs(asPut[m].record, o)
      BY <1>a, Zenon DEF WireInv
    <3>2. QED
      BY <1>k, <1>l, <3>1
  <2>2. follower.version <= n /\ follower.position <= n
    BY <1>a, <1>l DEF WireInv, EncryptedTypes, Followers
  <2>3. QED
    BY <1>e, <1>k, <2>1, <2>2 DEF WireInv, OpenedAs
<1>5. FollowerFaithful'
  <2>1. follower.version \in Nat /\ follower.version <= Len(asPut)
    BY <1>a, Zenon DEF WireInv, EncryptedTypes, Followers
  <2>2. follower.version # 0 => asPut'[follower.version].all = asPut[follower.version].all
    BY <1>k, <1>l, <2>1
  <2>3. QED
    BY <1>a, <1>e, <2>2, Zenon DEF FollowerFaithful
<1>6. QED
  BY <1>1, <1>2, <1>3, <1>4, <1>5, Zenon DEF IInv

LEMMA StorageKept ==
  ASSUME ChangesInv, HashInv, UNCHANGED <<hash, sealed, asPut>>
  PROVE  ChangesInv' /\ HashInv'
<1>1. hash' = hash /\ sealed' = sealed /\ asPut' = asPut
  BY Zenon
<1>2. ChangesInv'
  <2>1. \A i : AllAt(i)' = AllAt(i)
    BY <1>1, Zenon DEF AllAt
  <2>2. ASSUME NEW i \in 1..Len(asPut)
        PROVE  /\ asPut'[i].record.version = i /\ Whole(asPut'[i].record) /\ SealedAs(asPut'[i].record, sealed'[i])
               /\ asPut'[i].all = Stored(AllAt(i - 1)', asPut'[i].record)
               /\ \A r \in asPut'[i].all : ~r.deleted /\ Whole(r)
    BY <1>1, <2>1, Zenon DEF ChangesInv
  <2>3. QED
    BY <1>1, <2>2, Zenon DEF ChangesInv, AllAt, SealedAs, Whole, Stored
<1>3. HashInv'
  BY <1>1 DEF HashInv, AllAt, SealedAs
<1>4. QED
  BY <1>2, <1>3, Zenon

\* a call of the syncer that ends leaves it without one
LEMMA CallEnds ==
  ASSUME NEW f \in Followers, NEW live \in BOOLEAN
  PROVE  [f EXCEPT !.live = live, !.at = NoCall, !.wire = <<>>] \in Followers
<1>1. <<>> \in Seq(SUBSET OpenedRecord)
  OBVIOUS
<1>2. QED
  BY <1>1, Zenon DEF Followers

LEMMA ChangeSecretStep == ASSUME IInv, NEW b \in Brokers, ChangeSecret(b) PROVE IInv'
<1>a. EncryptedTypes /\ ChangesInv /\ HashInv /\ WireInv /\ FollowerFaithful
  BY Zenon DEF IInv
<1>b. UNCHANGED <<hash, sealed, asPut>>
  BY Zenon DEF ChangeSecret
<1>c. PICK x \in Secrets, restart \in BOOLEAN :
        /\ secret' = [secret EXCEPT ![b] = x]
        /\ knows' = [knows EXCEPT ![b] = EncryptedGet(x, ~restart /\ @)]
  BY Zenon DEF ChangeSecret
<1>d. \/ follower' = follower
      \/ follower' = [follower EXCEPT !.at = NoCall, !.wire = <<>>]
  BY Zenon DEF ChangeSecret
<1>e. knows' \in [Brokers -> BOOLEAN]
  BY <1>a, <1>c, Zenon DEF EncryptedTypes, Followers, EncryptedGet
<1>f. /\ follower' \in Followers /\ follower'.version = follower.version /\ follower'.records = follower.records
      /\ follower'.position = follower.position /\ follower'.wire \in {follower.wire, <<>>}
  <2>1. CASE follower' = follower
    BY <1>a, <2>1, Zenon DEF EncryptedTypes
  <2>2. CASE follower' = [follower EXCEPT !.at = NoCall, !.wire = <<>>]
    <3>1. follower' = [follower EXCEPT !.live = follower.live, !.at = NoCall, !.wire = <<>>] /\ follower.live \in BOOLEAN
      BY <1>a, <2>2, Zenon DEF EncryptedTypes, Followers
    <3>2. follower' \in Followers
      BY <1>a, <3>1, CallEnds, Zenon DEF EncryptedTypes
    <3>3. QED
      BY <1>a, <2>2, <3>2, Zenon DEF EncryptedTypes, Followers
  <2>3. QED
    BY <1>d, <2>1, <2>2, Zenon
<1>1. EncryptedTypes'
  BY <1>a, <1>b, <1>c, <1>e, <1>f, Zenon DEF EncryptedTypes
<1>2. WireInv'
  BY <1>a, <1>b, <1>f DEF WireInv, OpenedAs
<1>3. FollowerFaithful'
  BY <1>a, <1>b, <1>f, SMTT(30) DEF FollowerFaithful
<1>4. QED
  BY <1>a, <1>b, <1>1, <1>2, <1>3, StorageKept, Zenon DEF IInv

LEMMA SyncLatestStep == ASSUME IInv, NEW b \in Brokers, EncryptedSyncLatest(b) PROVE IInv'
<1>a. EncryptedTypes /\ ChangesInv /\ HashInv /\ WireInv /\ FollowerFaithful
  BY Zenon DEF IInv
<1>b. UNCHANGED <<hash, sealed, asPut, secret, knows>>
  BY Zenon DEF EncryptedSyncLatest
<1>1. CASE UNCHANGED follower
  BY <1>a, <1>b, <1>1, StorageKept, ZenonT(60) DEF IInv, EncryptedTypes, Followers, WireInv, OpenedAs, FollowerFaithful
<1>2. ASSUME NEW all \in EncryptedGetAll(secret[b]),
             follower' = [follower EXCEPT !.live = knows[b], !.version = Len(sealed), !.records = all]
      PROVE  IInv'
  <2>1. all = AllAt(Len(asPut)) /\ all \in SUBSET OpenedRecord
    BY GetAllExact, Zenon
  <2>2. Len(sealed) = Len(asPut) /\ Len(asPut) \in Nat
    BY <1>a DEF ChangesInv, EncryptedTypes, Followers
  <2>3. EncryptedTypes'
    BY <1>a, <1>b, <1>2, <2>1, <2>2, Zenon DEF EncryptedTypes, Followers
  <2>4. /\ follower'.version = Len(asPut) /\ follower'.records = all
        /\ follower'.position = follower.position /\ follower'.wire = follower.wire
    BY <1>a, <1>2, <2>2, Zenon DEF EncryptedTypes, Followers
  <2>5. WireInv'
    BY <1>a, <1>b, <2>2, <2>4 DEF WireInv, OpenedAs
  <2>6. FollowerFaithful'
    BY <1>b, <2>1, <2>4, Zenon DEF FollowerFaithful, AllAt
  <2>7. QED
    BY <1>a, <1>b, <2>3, <2>5, <2>6, StorageKept, Zenon DEF IInv
<1>3. QED
  BY <1>1, <1>2, Zenon DEF EncryptedSyncLatest

LEMMA SyncStep == ASSUME IInv, NEW b \in Brokers, EncryptedSync(b) PROVE IInv'
<1>a. EncryptedTypes /\ ChangesInv /\ HashInv /\ WireInv /\ FollowerFaithful
  BY Zenon DEF IInv
<1>b. UNCHANGED <<hash, sealed, asPut, secret, knows>>
  BY Zenon DEF EncryptedSync
<1>c. \/ follower' = [follower EXCEPT !.at = b, !.position = follower.version]
      \/ follower' = [follower EXCEPT !.live = FALSE]
  BY Zenon DEF EncryptedSync
<1>1. EncryptedTypes'
  BY <1>a, <1>b, <1>c, Zenon DEF EncryptedTypes, Followers
<1>2. /\ follower'.version = follower.version /\ follower'.records = follower.records
      /\ follower'.wire = follower.wire /\ follower'.position \in {follower.position, follower.version}
  BY <1>a, <1>c, Zenon DEF EncryptedTypes, Followers
<1>3. WireInv' /\ FollowerFaithful'
  BY <1>a, <1>b, <1>2 DEF WireInv, OpenedAs, FollowerFaithful
<1>4. QED
  BY <1>a, <1>b, <1>1, <1>3, StorageKept, Zenon DEF IInv

LEMMA RecordStep == ASSUME IInv, NEW b \in Brokers, EncryptedRecord(b) PROVE IInv'
<1>a. EncryptedTypes /\ ChangesInv /\ HashInv /\ WireInv /\ FollowerFaithful
  BY Zenon DEF IInv
<1>b. UNCHANGED <<hash, sealed, asPut, secret, knows>>
  BY Zenon DEF EncryptedRecord
<1>1. CASE UNCHANGED follower
  BY <1>a, <1>b, <1>1, StorageKept, Zenon DEF IInv, EncryptedTypes, Followers, WireInv, OpenedAs, FollowerFaithful
<1>2. CASE /\ follower.position < Len(sealed)
           /\ follower' = [follower EXCEPT !.position = @ + 1,
                                           !.wire = <<decryptRecord(secret[b], sealed[follower.position + 1])>>]
  <2> DEFINE n == follower.position + 1
             rs == decryptRecord(secret[b], sealed[n])
  <2>1. n \in 1..Len(asPut) /\ n \in Nat /\ Len(sealed) = Len(asPut)
    BY <1>a, <1>2 DEF ChangesInv, EncryptedTypes, Followers
  <2>2. sealed[n] \in SealedRecord /\ asPut[n].record \in PlainRecord /\ SealedAs(asPut[n].record, sealed[n])
    BY <1>a, <2>1, PutFacts DEF ChangesInv, EncryptedTypes, Followers
  <2>3. \A o \in rs : o \in OpenedRecord /\ OpenedAs(asPut[n].record, o)
    BY <2>2, Opens, Zenon
  <2>4. /\ follower'.position = n /\ follower'.wire = <<rs>>
        /\ follower'.version = follower.version /\ follower'.records = follower.records
        /\ follower'.live = follower.live /\ follower'.at = follower.at
        /\ follower' = [follower EXCEPT !.position = n, !.wire = <<rs>>]
    BY <1>a, <1>2, Zenon DEF EncryptedTypes, Followers
  <2> HIDE DEF n, rs
  <2>5. <<rs>> \in Seq(SUBSET OpenedRecord) /\ Len(<<rs>>) = 1 /\ <<rs>>[1] = rs
    BY <2>3
  <2>6. EncryptedTypes'
    BY <1>a, <1>b, <2>1, <2>4, <2>5, Zenon DEF EncryptedTypes, Followers
  <2>7. WireInv'
    <3>1. follower.version <= Len(asPut) /\ n <= Len(asPut)
      BY <1>a, <2>1 DEF WireInv
    <3>2. \A i \in 1..Len(<<rs>>) : \A o \in <<rs>>[i] : \E m \in 1..Len(asPut) : OpenedAs(asPut[m].record, o)
      BY <2>1, <2>3, <2>5
    <3>3. QED
      BY <1>b, <2>4, <3>1, <3>2 DEF WireInv, OpenedAs
  <2>8. FollowerFaithful'
    BY <1>a, <1>b, <2>4, Zenon DEF FollowerFaithful
  <2>9. QED
    BY <1>a, <1>b, <2>6, <2>7, <2>8, StorageKept, Zenon DEF IInv
<1>3. QED
  BY <1>1, <1>2, Zenon DEF EncryptedRecord

\* the records shown stay those put when the next record is stored, read back
LEMMA StoredNext ==
  ASSUME NEW shown, NEW put, NEW r \in PlainRecord, NEW o \in OpenedRecord, OpenedAs(r, o), Whole(r),
         \A q \in put : q.type \in RecordTypes,
         {q \in shown : q.type \notin Bare} = {q \in put : q.type \notin Bare}
  PROVE  {q \in Stored(shown, o) : q.type \notin Bare} = {q \in Stored(put, r) : q.type \notin Bare}
<1>1. CASE r.data.type = r.type
  <2>1. o = r
    BY <1>1, SameRecord, Zenon
  <2>2. QED
    BY <2>1, Zenon DEF Stored
<1>2. CASE r.deleted /\ r.type \in Bare /\ r.data.type = ""
  <2>1. o.type = "" /\ o.deleted
    BY <1>2, Zenon DEF OpenedAs
  <2>2. \A q \in shown : q.type \notin Bare => q.type # ""
    BY TypesAssumption, Zenon
  <2>3. QED
    BY <1>2, <2>1, <2>2, Zenon DEF Stored
<1>3. QED
  BY <1>1, <1>2, Zenon DEF Whole

LEMMA ReceivedStep == ASSUME IInv, Received PROVE IInv'
<1>a. EncryptedTypes /\ ChangesInv /\ HashInv /\ WireInv /\ FollowerFaithful
  BY Zenon DEF IInv
<1>b. UNCHANGED <<hash, sealed, asPut, secret, knows>> /\ follower.wire # <<>>
  BY Zenon DEF Received
<1> DEFINE called == [follower EXCEPT !.wire = <<>>]
<1>1. CASE follower' = [called EXCEPT !.live = FALSE, !.at = NoCall]
  <2>0. follower' = [follower EXCEPT !.live = FALSE, !.at = NoCall, !.wire = <<>>]
    BY <1>a, <1>1, Zenon DEF EncryptedTypes, Followers
  <2>1. EncryptedTypes'
    BY <1>a, <1>b, <2>0, CallEnds, Zenon DEF EncryptedTypes
  <2>2. /\ follower'.version = follower.version /\ follower'.records = follower.records
        /\ follower'.wire = <<>> /\ follower'.position = follower.position
    BY <1>a, <1>1, Zenon DEF EncryptedTypes, Followers
  <2>3. WireInv' /\ FollowerFaithful'
    BY <1>a, <1>b, <2>2 DEF WireInv, OpenedAs, FollowerFaithful
  <2>4. QED
    BY <1>a, <1>b, <2>1, <2>3, StorageKept, Zenon DEF IInv
<1>2. ASSUME NEW o \in Head(follower.wire), o.version = follower.version + 1,
             follower' = [called EXCEPT !.version = o.version, !.records = Stored(@, o)]
      PROVE  IInv'
  <2>1. follower.wire \in Seq(SUBSET OpenedRecord) /\ follower.version \in Nat /\ follower.records \in SUBSET OpenedRecord
    BY <1>a, Zenon DEF EncryptedTypes, Followers
  <2>2. 1 \in 1..Len(follower.wire) /\ o \in follower.wire[1] /\ o \in OpenedRecord
    BY <1>b, <1>2, <2>1
  <2>3. PICK n \in 1..Len(asPut) : OpenedAs(asPut[n].record, o)
    BY <1>a, <2>2, Zenon DEF WireInv
  <2>4. n = follower.version + 1 /\ n \in Nat /\ asPut[n].record \in PlainRecord /\ Whole(asPut[n].record)
    BY <1>a, <1>2, <2>3, PutFacts DEF ChangesInv, OpenedAs
  <2>5. /\ follower'.version = n /\ follower'.records = Stored(follower.records, o)
        /\ follower'.wire = <<>> /\ follower'.position = follower.position
    BY <1>a, <1>2, <2>4, Zenon DEF EncryptedTypes, Followers
  <2>6. Stored(follower.records, o) \in SUBSET OpenedRecord
    BY <2>1, <2>2, Zenon DEF Stored
  <2>7. EncryptedTypes'
    <3>1. <<>> \in Seq(SUBSET OpenedRecord)
      OBVIOUS
    <3>2. follower' = [follower EXCEPT !.version = n, !.records = Stored(follower.records, o), !.wire = <<>>]
      BY <1>a, <1>2, <2>4, Zenon DEF EncryptedTypes, Followers
    <3>3. follower' \in Followers
      BY <1>a, <2>4, <2>6, <3>1, <3>2, Zenon DEF EncryptedTypes, Followers
    <3>4. QED
      BY <1>a, <1>b, <3>3, Zenon DEF EncryptedTypes
  <2>8. WireInv'
    BY <1>a, <1>b, <2>3, <2>5 DEF WireInv, OpenedAs
  <2>9. AllAt(n) = Stored(AllAt(n - 1), asPut[n].record) /\ n - 1 = follower.version
    <3>1. asPut[n].all = Stored(AllAt(n - 1), asPut[n].record)
      BY <1>a, Zenon DEF ChangesInv
    <3>2. AllAt(n) = asPut[n].all
      BY <2>4 DEF AllAt
    <3>3. QED
      BY <2>1, <2>4, <3>1, <3>2
  <2>10. \A q \in AllAt(n - 1) : q.type \in RecordTypes
    <3>1. CASE n - 1 = 0
      BY <3>1, Zenon DEF AllAt
    <3>2. CASE n - 1 # 0
      <4>1. n - 1 \in 1..Len(asPut)
        BY <2>4, <3>2, <2>3
      <4>2. AllAt(n - 1) \in SUBSET PlainRecord
        BY <1>a, <3>2, <4>1, PutFacts, Zenon DEF AllAt
      <4>3. QED
        BY <4>2, Zenon DEF PlainRecord
    <3>3. QED
      BY <3>1, <3>2, Zenon
  <2>11. {q \in follower.records : q.type \notin Bare} = {q \in AllAt(n - 1) : q.type \notin Bare}
    BY <1>a, <2>9, Zenon DEF FollowerFaithful, AllAt
  <2>12. {q \in Stored(follower.records, o) : q.type \notin Bare} = {q \in AllAt(n) : q.type \notin Bare}
    BY <2>2, <2>3, <2>4, <2>9, <2>10, <2>11, StoredNext, SMTT(60)
  <2>13. FollowerFaithful'
    <3>1. AllAt(n) = asPut[n].all /\ n # 0
      BY <2>3 DEF AllAt
    <3>2. QED
      BY <1>b, <2>5, <2>12, <3>1, Zenon DEF FollowerFaithful
  <2>14. QED
    BY <1>a, <1>b, <2>7, <2>8, <2>13, StorageKept, Zenon DEF IInv
<1>3. QED
  BY <1>1, <1>2, Zenon DEF Received

LEMMA NextInv == IInv /\ [EncryptedNext]_sealedVars => IInv'
<1> SUFFICES ASSUME IInv, [EncryptedNext]_sealedVars PROVE IInv'
  BY Zenon
<1>1. CASE UNCHANGED sealedVars
  <2>a. EncryptedTypes /\ ChangesInv /\ HashInv /\ WireInv /\ FollowerFaithful
    BY Zenon DEF IInv
  <2>b. UNCHANGED <<secret, knows, hash, sealed, asPut, follower>>
    BY <1>1, Zenon DEF sealedVars
  <2>1. EncryptedTypes' /\ WireInv' /\ FollowerFaithful'
    BY <2>a, <2>b, ZenonT(60) DEF EncryptedTypes, Followers, WireInv, OpenedAs, FollowerFaithful
  <2>2. QED
    BY <2>a, <2>b, <2>1, StorageKept, Zenon DEF IInv
<1>2. CASE EncryptedNext
  BY <1>2, PutStep, ChangeSecretStep, SyncLatestStep, SyncStep, RecordStep, ReceivedStep, Zenon DEF EncryptedNext
<1>3. QED
  BY <1>1, <1>2, Zenon

\* A syncer holds the records as they were put, whatever secrets the servers
\* have and however they change (encrypted.go, GetAll and Record).
THEOREM Faithful == EncryptedSpec => []FollowerFaithful
<1>1. IInv => FollowerFaithful
  BY Zenon DEF IInv
<1>2. QED
  BY InitInv, NextInv, <1>1, PTL DEF EncryptedSpec
============================================================================
