--------------------------- MODULE DirectorySync ---------------------------
(***************************************************************************)
(* The directory of the identity manager (internal/identity/manager): the  *)
(* users and groups the directory provider knows are fetched at intervals  *)
(* and the differences to what the broker holds are put there.  RefreshUser*)
(* (databroker/directory.go) puts a single user besides.                   *)
(*                                                                         *)
(* Users and groups are told apart by Groups.  The timer of the loop is    *)
(* left to chance: a refresh may be due whenever the loop wakes.           *)
(***************************************************************************)
EXTENDS SyncerFeed

CONSTANTS
  Groups,     \* the ids that are groups, the others are users
  Values,     \* the contents of a directory entry
  MayReturn,  \* whether an entry removed from the directory may return
  MaxFailures,\* bound on failing calls
  MaxChanges, \* bound on changes of the provider's directory
  MaxCalls,   \* bound on RefreshUser calls
  MaxFeed     \* changes on their way to the manager when a refresh starts

ASSUME GroupsAssumption == Groups \subseteq Ids
ASSUME MayReturnAssumption == MayReturn \in BOOLEAN
ASSUME BoundsAssumption ==
  MaxFailures \in Nat /\ MaxChanges \in Nat /\ MaxCalls \in Nat /\ MaxFeed \in Nat

VARIABLES
  directory, \* the provider's users and groups, Gone where there is none
  removed,   \* the entries that were removed from it
  entries,   \* mgr.directoryUsers and mgr.directoryGroups
  pc,        \* where refreshLoop is
  fetched,   \* what UserGroups returned
  todo,      \* the writes of mergeGroups or mergeUsers not yet made
  cancelled, \* whether one of them failed, which cancels the others
  call,      \* what a RefreshUser call is about to put
  failures, dirChanges, calls

managerVars == <<entries, pc, fetched, todo, cancelled>>
counters == <<failures, dirChanges, calls>>
vars == <<feedVars, directory, removed, managerVars, call, counters>>

Users == Ids \ Groups
Nowhere == [k \in Ids |-> Gone]
NoCall == Change("none", Gone, FALSE)

Init ==
  /\ FeedInit
  /\ directory = Nowhere
  /\ removed = {}
  /\ entries = Nowhere
  /\ pc = "clear"
  /\ fetched = Nowhere
  /\ todo = {}
  /\ cancelled = FALSE
  /\ call = NoCall
  /\ failures = 0 /\ dirChanges = 0 /\ calls = 0

---------------------------------------------------------------------------
(* The provider, and the RefreshUser call *)

DirectoryChange(k, v) ==
  /\ dirChanges < MaxChanges
  /\ dirChanges' = dirChanges + 1
  /\ directory[k] # v
  /\ k \in removed => MayReturn
  /\ directory' = [directory EXCEPT ![k] = v]
  /\ removed' = IF v = Gone THEN removed \union {k} ELSE removed
  /\ UNCHANGED <<feedVars, managerVars, call, failures, calls>>

\* RefreshUser asks the provider about one user ...
RefreshUserFetch(k) ==
  /\ calls < MaxCalls
  /\ calls' = calls + 1
  /\ call = NoCall
  /\ directory[k] # Gone
  /\ call' = Change(k, directory[k], FALSE)
  /\ UNCHANGED <<feedVars, directory, removed, managerVars, failures, dirChanges>>

\* ... and puts the answer
RefreshUserPut ==
  /\ call # NoCall
  /\ PutRecord(call.id, call.data)
  /\ call' = NoCall
  /\ UNCHANGED <<syncer, snapshot, clearCh, updateCh, resyncs, directory, removed, managerVars, counters>>

---------------------------------------------------------------------------
(* refreshLoop *)

\* mutant: a record of a known entry is not stored
OnUpdateRecordsNew(msg) ==
  LET seen(k) == {c \in msg : c.id = k /\ c.data # Gone /\ entries[k] = Gone} IN
  entries' = [k \in Ids |-> IF seen(k) = {} THEN entries[k] ELSE (CHOOSE c \in seen(k) : TRUE).data]

\* onUpdateDirectoryUser and onUpdateDirectoryGroup store what a record carries.
\* Neither looks at DeletedAt: a deleted user's record carries the user, and a
\* deleted group's carries nothing and is skipped.
OnUpdateRecords(msg) ==
  LET seen(k) == {c \in msg : c.id = k /\ c.data # Gone} IN
  entries' = [k \in Ids |-> IF seen(k) = {} THEN entries[k] ELSE (CHOOSE c \in seen(k) : TRUE).data]

InitialClear ==
  /\ pc = "clear"
  /\ TakeClear
  /\ entries' = Nowhere
  /\ pc' = "update"
  /\ UNCHANGED <<directory, removed, fetched, todo, cancelled, call, counters>>

InitialUpdate ==
  /\ pc = "update"
  /\ TakeUpdate
  /\ OnUpdateRecords(Head(updateCh))
  /\ pc' = "select"
  /\ UNCHANGED <<directory, removed, fetched, todo, cancelled, call, counters>>

\* a refresh of the directory may be due in any iteration
IterationRefreshes == pc' \in (IF Len(feed) <= MaxFeed THEN {"select", "refresh"} ELSE {"select"})

SelectClear ==
  /\ pc = "select"
  /\ TakeClear
  /\ entries' = Nowhere
  /\ IterationRefreshes
  /\ UNCHANGED <<directory, removed, fetched, todo, cancelled, call, counters>>

SelectUpdate ==
  /\ pc = "select"
  /\ TakeUpdate
  /\ OnUpdateRecords(Head(updateCh))
  /\ IterationRefreshes
  /\ UNCHANGED <<directory, removed, fetched, todo, cancelled, call, counters>>

SelectTimer ==
  /\ pc = "select"
  /\ Len(feed) <= MaxFeed
  /\ pc' = "refresh"
  /\ UNCHANGED <<feedVars, directory, removed, entries, fetched, todo, cancelled, call, counters>>

\* mutant: an entry the directory no longer has is left alone
WritesKeep(T, f) == {Change(k, f[k], FALSE) : k \in {i \in T : f[i] \notin {Gone, entries[i]}}}

\* the writes of mergeGroups and mergeUsers over directory f: new and changed
\* entries are put, those no longer there are deleted
Writes(T, f) ==
  {Change(k, f[k], FALSE) : k \in {i \in T : f[i] \notin {Gone, entries[i]}}}
  \union
  {Change(k, IF k \in Groups THEN Gone ELSE entries[k], TRUE) :
     k \in {i \in T : f[i] = Gone /\ entries[i] # Gone}}

\* refreshDirectoryUserGroups: the provider answers, and the groups are merged
\* before the users ...
RefreshDirectory ==
  /\ pc = "refresh"
  /\ fetched' = directory
  /\ todo' = Writes(Groups, directory)
  /\ cancelled' = FALSE
  /\ pc' = "groups"
  /\ UNCHANGED <<feedVars, directory, removed, entries, call, counters>>

\* ... or it fails, until the next interval
RefreshDirectoryFails ==
  /\ pc = "refresh"
  /\ failures < MaxFailures
  /\ failures' = failures + 1
  /\ pc' = "select"
  /\ UNCHANGED <<feedVars, directory, removed, entries, fetched, todo, cancelled, call, dirChanges, calls>>

\* one of the concurrent Put calls succeeds
MergePut(w) ==
  /\ pc \in {"groups", "users"}
  /\ w \in todo
  /\ todo' = todo \ {w}
  /\ IF w.deleted THEN DeleteRecord(w.id, w.data) ELSE PutRecord(w.id, w.data)
  /\ UNCHANGED <<syncer, snapshot, clearCh, updateCh, resyncs, directory, removed,
                 entries, pc, fetched, cancelled, call, counters>>

\* or fails, and cancels those that have not succeeded
MergeFails(w) ==
  /\ pc \in {"groups", "users"}
  /\ w \in todo
  /\ cancelled \/ failures < MaxFailures
  /\ failures' = IF cancelled THEN failures ELSE failures + 1
  /\ todo' = todo \ {w}
  /\ cancelled' = TRUE
  /\ UNCHANGED <<feedVars, directory, removed, entries, pc, fetched, call, dirChanges, calls>>

\* eg.Wait: the groups are merged, the users follow; then the loop waits
GroupsMerged ==
  /\ pc = "groups"
  /\ todo = {}
  /\ pc' = "users"
  /\ todo' = Writes(Users, fetched)
  /\ cancelled' = FALSE
  /\ UNCHANGED <<feedVars, directory, removed, entries, fetched, call, counters>>

UsersMerged ==
  /\ pc = "users"
  /\ todo = {}
  /\ pc' = "select"
  /\ UNCHANGED <<feedVars, directory, removed, entries, fetched, todo, cancelled, call, counters>>

---------------------------------------------------------------------------
SelectMessage == SelectClear \/ SelectUpdate

ManagerStep ==
  \/ InitialClear \/ InitialUpdate \/ SelectMessage \/ SelectTimer
  \/ RefreshDirectory \/ RefreshDirectoryFails
  \/ \E w \in todo : MergePut(w) \/ MergeFails(w)
  \/ GroupsMerged \/ UsersMerged

FeedStep == SyncerStep /\ UNCHANGED <<directory, removed, managerVars, call, counters>>
FeedRestart == StartOver /\ UNCHANGED <<directory, removed, managerVars, call, counters>>

Next ==
  \/ \E k \in Ids, v \in Values \union {Gone} : DirectoryChange(k, v)
  \/ \E k \in Users : RefreshUserFetch(k)
  \/ RefreshUserPut
  \/ FeedStep \/ FeedRestart
  \/ ManagerStep

Spec == Init /\ [][Next]_vars

\* The loop, the syncer and calls keep going, select does not ignore a waiting
\* message for ever, and the provider's interval passes again and again.
Fairness ==
  /\ WF_vars(ManagerStep) /\ WF_vars(FeedStep) /\ WF_vars(RefreshUserPut)
  /\ SF_vars(SelectMessage) /\ SF_vars(SelectTimer)
  /\ WF_vars(RefreshDirectory)

FairSpec == Spec /\ Fairness

---------------------------------------------------------------------------
(* Properties *)

\* "Refresh directory interval is the time that pomerium will sync your IDP
\* diretory" (docs/reference/readme.md:766): once the provider's directory no
\* longer changes, the broker ends up with its users and groups, over failing
\* calls and beside RefreshUser, as long as the syncer does not start over and
\* the manager forget which entries it has to remove.
DirectorySynced == [](resyncs = 0) => <>[](store = directory)

\* Every user and group of the directory ends up in the broker as it is there,
\* also when the syncer starts over and the manager loses entries (manager.go,
\* mergeGroups, mergeUsers and refreshLoop).
PresentSynced ==
  <>[](\A k \in Ids : directory[k] # Gone => store[k] = directory[k])
===========================================================================
