------------------------- MODULE AnnouncementBoard -------------------------
(***************************************************************************)
(* What the announcement server promises to the tests: a board per spec on *)
(* which containers post atomically while the spec runs.  Whoever has got  *)
(* an answer is on a board, a read returns the whole current board, and    *)
(* nothing is posted on a board once Stop has returned.                    *)
(***************************************************************************)
EXTENDS Naturals, Sequences

CONSTANTS Containers, MaxSpecs

VARIABLES board,     \* per board, what has been posted on it
          current,   \* the latest board; 0 before the first Start
          open,      \* between Start and the return of Stop
          acked,     \* the containers whose request was answered
          answer     \* what the last read found

vars == <<board, current, open, acked, answer>>

Init ==
  /\ board = [s \in 1 .. MaxSpecs |-> << >>]
  /\ current = 0
  /\ open = FALSE
  /\ acked = {}
  /\ answer = << >>

OpenBoard ==
  /\ ~open
  /\ current < MaxSpecs
  /\ current' = current + 1
  /\ open' = TRUE
  /\ UNCHANGED <<board, acked, answer>>

Post(c) ==
  /\ open
  /\ board' = [board EXCEPT ![current] = Append(@, c)]
  /\ UNCHANGED <<current, open, acked, answer>>

Ack(c) ==
  /\ open
  /\ \E i \in DOMAIN board[current] : board[current][i] = c
  /\ acked' = acked \cup {c}
  /\ UNCHANGED <<board, current, open, answer>>

Read ==
  /\ open
  /\ answer' = board[current]
  /\ UNCHANGED <<board, current, open, acked>>

CloseBoard ==
  /\ open
  /\ open' = FALSE
  /\ UNCHANGED <<board, current, acked, answer>>

Next ==
  \/ OpenBoard \/ Read \/ CloseBoard
  \/ \E c \in Containers : Post(c) \/ Ack(c)

Spec == Init /\ [][Next]_vars
=============================================================================
