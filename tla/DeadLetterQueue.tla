--------------------------- MODULE DeadLetterQueue ---------------------------
(***************************************************************************)
(* The table dead_letter_queue: DeadLetterServiceImpl over                 *)
(* DeadLetterRepositoryImpl.  Rows are numbered by their SERIAL id and     *)
(* never deleted.  GetDeadLetterEntries changes nothing and is left out.   *)
(***************************************************************************)
EXTENDS Integers, Sequences

CONSTANT Events  \* events that may fail

VARIABLE entries  \* rows by id: the event and whether it is marked as processed

-----------------------------------------------------------------------------

Entry == [event : Events, processed : BOOLEAN]

InitDeadLetters == entries = <<>>

(* SendToDeadLetterQueue: one INSERT; processing_result stays NULL.        *)
SendToDeadLetterQueue(e) ==
  entries' = Append(entries, [event |-> e, processed |-> FALSE])

(* ReprocessEntry only marks the row.  An unknown id is no error.          *)
ReprocessEntry(id) ==
  entries' = [i \in DOMAIN entries |->
                IF i = id THEN [entries[i] EXCEPT !.processed = TRUE] ELSE entries[i]]

DeadLettersTypeOK == entries \in Seq(Entry)

=============================================================================
