------------------------------- MODULE MCHash -------------------------------
(***************************************************************************)
(* Two instances of one hash file in one state space.  In a "crowded" file *)
(* the keys collide on their first bits, so buckets overflow, merge and    *)
(* fail to split; in a "spread" one, several buckets hold entries while    *)
(* one of them is split.  The properties are ExtendibleHash's, for the     *)
(* instance at hand.                                                       *)
(***************************************************************************)
EXTENDS Naturals

CONSTANTS
  CrowdedKeys, CrowdedRids, CrowdedPages,   \* keys, addresses, bound on the pages
  SpreadKeys, SpreadRids, SpreadPages,
  Unpackable, Capacity, DirCapacity, MaxDepth, MaxEntries

VARIABLES pages, depth, free, total, directory, pending, failed, stopped, crowded

vars == <<pages, depth, free, total, directory, pending, failed, stopped, crowded>>

Crowded == INSTANCE ExtendibleHash WITH
             Keys <- CrowdedKeys, Rids <- CrowdedRids, MaxPages <- CrowdedPages
Spread  == INSTANCE ExtendibleHash WITH
             Keys <- SpreadKeys, Rids <- SpreadRids, MaxPages <- SpreadPages,
             Unpackable <- Unpackable \cap SpreadRids

Init ==
  /\ crowded \in BOOLEAN
  /\ Crowded!Init

Next ==
  /\ UNCHANGED crowded
  /\ \/ crowded /\ Crowded!Next
     \/ ~crowded /\ Spread!Next

(* What the thread that serves an insert does next. *)
InsertStep ==
  /\ UNCHANGED crowded
  /\ \/ crowded /\ Crowded!InsertStep
     \/ ~crowded /\ Spread!InsertStep

Spec == Init /\ [][Next]_vars /\ WF_vars(InsertStep)

-----------------------------------------------------------------------------
(* total_entries counts the entries that search can reach. *)
TotalIsExact == IF crowded THEN Crowded!TotalIsExact ELSE Spread!TotalIsExact

(* The pages are well formed, and suffixes share a bucket exactly when they
   agree on its local depth.                                               *)
DirectoryConsistent ==
  IF crowded THEN Crowded!DirectoryConsistent ELSE Spread!DirectoryConsistent

(* Every page has at most one owner, so none is given out twice. *)
PageOwnedOnce == IF crowded THEN Crowded!PageOwnedOnce ELSE Spread!PageOwnedOnce

(* Between two calls, whoever opens the file finds what was in memory. *)
Reopenable == IF crowded THEN Crowded!Reopenable ELSE Spread!Reopenable

(* Splits, merges, overflow and reopening never change what search answers. *)
SearchIsExact ==
  Crowded!Port!Init /\ [][IF crowded THEN Crowded!AnswersFollow ELSE Spread!AnswersFollow]_vars

(* A stop inside a call loses entries of the bucket being split, at most: but
   while the directory gets a page more the file may no longer open, and once
   the chain of that bucket is drained a search of it may come to the header. *)
StopIsConfined ==
  [][IF crowded THEN Crowded!StopConfined ELSE Spread!StopConfined]_vars

(* An insert comes to its end, however its key repeats. *)
InsertEnds == Crowded!InsertEnds
=============================================================================
