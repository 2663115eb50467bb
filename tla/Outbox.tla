------------------------------- MODULE Outbox -------------------------------
(***************************************************************************)
(* What the sidecar's forwarder promises, without deque, batches or tasks: *)
(* a set of pending records that leave it oldest first, in bounded groups, *)
(* and a capacity that is the only other reason to lose one.               *)
(***************************************************************************)
EXTENDS Integers, FiniteSets

CONSTANTS
  MaxQueue,     \* the capacity below which nothing is shed
  MaxBatch,     \* the largest group that leaves at once
  MaxRecords    \* bound of the model on the number of records

VARIABLES
  accepted,     \* how many records were taken in; they are numbered 1, 2, ...
  pending,      \* records not yet settled
  shipped,      \* records the hosted tier accepted
  lost          \* records given up

vars == <<accepted, pending, shipped, lost>>

Init == accepted = 0 /\ pending = {} /\ shipped = {} /\ lost = {}

(* A group of the oldest pending records.                                  *)
IsOldest(S) ==
  /\ S \subseteq pending /\ S # {}
  /\ Cardinality(S) <= MaxBatch
  /\ \A m \in S, n \in pending \ S : m < n

Full(S) == Cardinality(S) >= MaxQueue

(* A new record costs at most one other, and only at capacity.             *)
Accept ==
  /\ accepted < MaxRecords
  /\ accepted' = accepted + 1
  /\ \/ /\ pending' = pending \cup {accepted + 1}
        /\ UNCHANGED lost
     \/ \E victim \in pending :
          /\ pending' = (pending \ {victim}) \cup {accepted + 1}
          /\ Full(pending')
          /\ lost' = lost \cup {victim}
  /\ UNCHANGED shipped

Ship ==
  \E S \in SUBSET pending :
    /\ IsOldest(S)
    /\ pending' = pending \ S
    /\ shipped' = shipped \cup S
    /\ UNCHANGED <<accepted, lost>>

(* A group is refused, its sender is cancelled, or sending it raises.      *)
GiveUp ==
  \E S \in SUBSET pending :
    /\ IsOldest(S)
    /\ pending' = pending \ S
    /\ lost' = lost \cup S
    /\ UNCHANGED <<accepted, shipped>>

(* A failed group that returns may push others out, never below capacity.  *)
Shed ==
  \E S \in SUBSET pending :
    /\ S # {}
    /\ Full(pending \ S)
    /\ pending' = pending \ S
    /\ lost' = lost \cup S
    /\ UNCHANGED <<accepted, shipped>>

Next == Accept \/ Ship \/ GiveUp \/ Shed

Spec == Init /\ [][Next]_vars
=============================================================================
