--------------------------- MODULE PublishContract ---------------------------
(***************************************************************************)
(* What the outbox assumes of a publish call that waits for its broker:    *)
(* each call hands over at most one message, an answer nil says that it    *)
(* was taken, and any other answer leaves the matter open for good.        *)
(***************************************************************************)
CONSTANT Calls

VARIABLES
  taken,   \* calls whose message is in the log of the broker
  answer   \* [Calls -> none, called, nil, error]

Start(c) ==
  /\ answer[c] = "none"
  /\ answer' = [answer EXCEPT ![c] = "called"]
  /\ UNCHANGED taken

Take(c) ==
  /\ answer[c] # "none"
  /\ taken' = taken \cup {c}
  /\ UNCHANGED answer

AnswerNil(c) ==
  /\ answer[c] = "called" /\ c \in taken
  /\ answer' = [answer EXCEPT ![c] = "nil"]
  /\ UNCHANGED taken

AnswerError(c) ==
  /\ answer[c] = "called"
  /\ answer' = [answer EXCEPT ![c] = "error"]
  /\ UNCHANGED taken

Init == taken = {} /\ answer = [c \in Calls |-> "none"]

Next == \E c \in Calls : Start(c) \/ Take(c) \/ AnswerNil(c) \/ AnswerError(c)

Spec == Init /\ [][Next]_<<taken, answer>>

=============================================================================
