--------------------------- MODULE RecordReplica ---------------------------
(***************************************************************************)
(* What the databroker promises to a service that keeps a copy of its      *)
(* records, without backends, streams, signals or connections.             *)
(*                                                                         *)
(* An epoch is the life of one backend and its history the contents after  *)
(* each Put.  A copy is live while it shows the contents of one epoch at   *)
(* one version; it moves forward a single Put at a time, or stops being    *)
(* live, is emptied and is loaded again from a snapshot that is no older.  *)
(***************************************************************************)
EXTENDS Integers, Sequences

CONSTANTS Copies,     \* the services that keep a copy
          Keys,       \* the keys of records
          Selects     \* Selects[c]: the keys copy c keeps

VARIABLES epoch,      \* the current epoch
          history,    \* history[e][v]: the contents of e after v Puts
          copy        \* what each service shows

Contents == [Keys -> Nat]
Selected(c, t) == [k \in Keys |-> IF k \in Selects[c] THEN t[k] ELSE 0]
NothingShown == [k \in Keys |-> 0]

ReplicaInit ==
  /\ epoch = 1
  /\ Len(history[1]) = 1
  /\ \A e \in DOMAIN history : e # 1 => history[e] = <<>>
  /\ copy = [c \in Copies |-> [live |-> FALSE, epoch |-> 0, version |-> 0,
                               records |-> NothingShown]]

\* the history of epoch e is one Put longer, whatever that Put stored
Extended(e) ==
  LET n == Len(history[e]) + 1 IN
  /\ Len(history'[e]) = n
  /\ history'[e][n] \in Contents
  /\ history' = [history EXCEPT ![e] = Append(@, history'[e][n])]

\* a Put reaches the backend of epoch e, which may be replaced already
Commit(e) ==
  /\ e \in 1..epoch
  /\ Extended(e)
  /\ UNCHANGED <<epoch, copy>>

NewEpoch ==
  /\ epoch' = epoch + 1
  /\ history[epoch + 1] = <<>>
  /\ Extended(epoch + 1)
  /\ UNCHANGED copy

\* what copy c shows from now on
Shows(c, live, e, v, records) ==
  copy' = [copy EXCEPT ![c] = [live |-> live, epoch |-> e, version |-> v, records |-> records]]

\* one more Put is applied to a live copy
Advance(c) ==
  LET e == copy[c].epoch
      v == copy[c].version + 1 IN
  /\ copy[c].live
  /\ v <= Len(history[e])
  /\ Shows(c, TRUE, e, v, Selected(c, history[e][v]))
  /\ UNCHANGED <<epoch, history>>

Suspend(c) ==
  /\ Shows(c, FALSE, copy[c].epoch, copy[c].version, copy[c].records)
  /\ UNCHANGED <<epoch, history>>

Blank(c) ==
  /\ ~ copy[c].live
  /\ Shows(c, FALSE, copy[c].epoch, copy[c].version, NothingShown)
  /\ UNCHANGED <<epoch, history>>

\* a snapshot of epoch e at version v, no older than what was shown before; the
\* snapshot of a replaced backend may have been erased, and is soon reloaded
Load(c, e, v) ==
  /\ ~ copy[c].live
  /\ e \in copy[c].epoch..epoch
  /\ v \in 1..Len(history[e])
  /\ e = copy[c].epoch => v >= copy[c].version
  /\ copy'[c].records \in Contents
  /\ e = epoch => copy'[c].records = Selected(c, history[e][v])
  /\ Shows(c, TRUE, e, v, copy'[c].records)
  /\ UNCHANGED <<epoch, history>>

ReplicaNext ==
  \/ \E e \in DOMAIN history : Commit(e)
  \/ NewEpoch
  \/ \E c \in Copies : Advance(c) \/ Suspend(c) \/ Blank(c)
  \/ \E c \in Copies : \E e \in DOMAIN history : \E v \in 1..Len(history[e]) : Load(c, e, v)

ReplicaSpec == ReplicaInit /\ [][ReplicaNext]_<<epoch, history, copy>>
===========================================================================
