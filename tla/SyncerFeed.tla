---------------------------- MODULE SyncerFeed ----------------------------
(***************************************************************************)
(* How the identity manager hears of the broker's records: a Syncer whose  *)
(* handler (internal/identity/manager/sync.go) passes ClearRecords and     *)
(* UpdateRecords on to the manager's loop over two channels of capacity 1. *)
(*                                                                         *)
(* DataBroker models the syncer itself; here it is reduced to its effect:  *)
(* a snapshot of the records, then every later change in order, and at any *)
(* time a start over.                                                      *)
(***************************************************************************)
EXTENDS Integers, Sequences, FiniteSets

CONSTANTS
  Ids,         \* the ids of the records
  MaxResyncs   \* bound on the times the syncer starts over

VARIABLES
  store,    \* the broker's records, Gone where there is none
  feed,     \* the changes after the syncer's version, not yet handed over
  syncer,   \* where the syncer is: init, clear, load or stream
  snapshot, \* what SyncLatest returned
  clearCh,  \* whether the clear channel holds a message
  updateCh, \* the messages in the update channel
  resyncs   \* start-overs so far

feedVars == <<store, feed, syncer, snapshot, clearCh, updateCh, resyncs>>

Gone == [gone |-> TRUE]

\* a change of record k: its new data and whether it is deleted
Change(k, d, del) == [id |-> k, data |-> d, deleted |-> del]

FeedInit ==
  /\ store = [k \in Ids |-> Gone]
  /\ feed = <<>>
  /\ syncer = "init"
  /\ snapshot = {}
  /\ clearCh = FALSE
  /\ updateCh = <<>>
  /\ resyncs = 0

\* the effects of a Put: the broker stores the record and sends the change
PutRecord(k, d) ==
  /\ store' = [store EXCEPT ![k] = d]
  /\ feed' = Append(feed, Change(k, d, FALSE))

\* and of a Put with DeletedAt: the record carries data d, or none
DeleteRecord(k, d) ==
  /\ store' = [store EXCEPT ![k] = Gone]
  /\ feed' = Append(feed, Change(k, d, TRUE))

\* init: SyncLatest returns the records
SyncLatest ==
  /\ syncer = "init"
  /\ snapshot' = {Change(k, store[k], FALSE) : k \in {i \in Ids : store[i] # Gone}}
  /\ feed' = <<>>
  /\ syncer' = "clear"
  /\ UNCHANGED <<store, clearCh, updateCh, resyncs>>

\* init: ClearRecords, which blocks while the clear channel is full
SendClear ==
  /\ syncer = "clear"
  /\ ~ clearCh
  /\ clearCh' = TRUE
  /\ syncer' = "load"
  /\ UNCHANGED <<store, feed, snapshot, updateCh, resyncs>>

\* init: UpdateRecords with the snapshot, which blocks while a message waits
SendSnapshot ==
  /\ syncer = "load"
  /\ updateCh = <<>>
  /\ updateCh' = <<snapshot>>
  /\ snapshot' = {}
  /\ syncer' = "stream"
  /\ UNCHANGED <<store, feed, clearCh, resyncs>>

\* mutant: a second message is queued
SendChangeQueued ==
  /\ syncer = "stream"
  /\ feed # <<>>
  /\ Len(updateCh) < 2
  /\ updateCh' = Append(updateCh, {Head(feed)})
  /\ feed' = Tail(feed)
  /\ UNCHANGED <<store, syncer, snapshot, clearCh, resyncs>>

\* sync: UpdateRecords with the next change
SendChange ==
  /\ syncer = "stream"
  /\ feed # <<>>
  /\ updateCh = <<>>
  /\ updateCh' = <<{Head(feed)}>>
  /\ feed' = Tail(feed)
  /\ UNCHANGED <<store, syncer, snapshot, clearCh, resyncs>>

\* sync: a missing record or another server version
StartOver ==
  /\ resyncs < MaxResyncs
  /\ syncer = "stream"
  /\ syncer' = "init"
  /\ resyncs' = resyncs + 1
  /\ UNCHANGED <<store, feed, snapshot, clearCh, updateCh>>

SyncerStep == SyncLatest \/ SendClear \/ SendSnapshot \/ SendChange

\* the loop takes a message from a channel
TakeClear ==
  /\ clearCh
  /\ clearCh' = FALSE
  /\ UNCHANGED <<store, feed, syncer, snapshot, updateCh, resyncs>>

TakeUpdate ==
  /\ updateCh # <<>>
  /\ updateCh' = <<>>
  /\ UNCHANGED <<store, feed, syncer, snapshot, clearCh, resyncs>>
===========================================================================
