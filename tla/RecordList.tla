----------------------------- MODULE RecordList -----------------------------
(***************************************************************************)
(* What a slotted page promises its users: a list of records, edited one   *)
(* record at a time.  Where the bytes lie, how the slots are numbered and  *)
(* when the page is packed do not show.                                    *)
(***************************************************************************)
EXTENDS Integers, Sequences, SequencesExt

CONSTANT Record       \* the records, as sequences of bytes

VARIABLE records

Init == records = <<>>

InsertRecord ==
  \E r \in Record, i \in 1..(Len(records) + 1) : records' = InsertAt(records, i, r)

DeleteRecord == \E i \in 1..Len(records) : records' = RemoveAt(records, i)

(* A record may be overwritten by one of its own length only. *)
UpdateRecord ==
  \E i \in 1..Len(records), r \in Record :
    Len(r) = Len(records[i]) /\ records' = [records EXCEPT ![i] = r]

Spec == Init /\ [][InsertRecord \/ DeleteRecord \/ UpdateRecord]_records
=============================================================================
