---------------------------- MODULE OrderedIndex ----------------------------
(***************************************************************************)
(* What BPlusTree promises its callers: a set of records, each found by    *)
(* its key, in which each call changes what it was called for and nothing  *)
(* else.  One promise is weaker than a reader may expect: an insert that   *)
(* finds its leaf full splits the leaf, drops the record and answers true  *)
(* all the same.                                                           *)
(***************************************************************************)
CONSTANTS Record, Key

VARIABLE records

Init == records = {}

Insert(r) == records' = records \cup {r}

(* insert answers true and has not inserted anything. *)
InsertDropped(r) == records' = records

Remove(key) == records' = {r \in records : r.key # key}

(* A step of a scan. *)
Look == records' = records

Next ==
  \/ \E r \in Record : Insert(r) \/ InsertDropped(r)
  \/ \E key \in Key : Remove(key)
  \/ Look

Spec == Init /\ [][Next]_records
=============================================================================
