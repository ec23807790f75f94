------------------------------ MODULE CommittedLog ------------------------------
(***************************************************************************)
(* What the capture service promises to everything downstream of it: a     *)
(* log of canonical blocks that only ever grows at its end, one height at  *)
(* a time and without a hole, in which the content bound to a height never *)
(* changes once the height is committed.                                   *)
(***************************************************************************)
EXTENDS Integers

CONSTANTS
  FirstHeight,   \* the configured first canonical height
  LastHeight,    \* bound: the last height considered
  Contents,      \* what a committed height can be bound to
  NoContent      \* a height that is not committed yet

VARIABLES
  committed,     \* last committed height, FirstHeight - 1 when there is none
  content        \* what each height is bound to

logVars == <<committed, content>>

LogHeights == FirstHeight..LastHeight

LogInit ==
  /\ committed = FirstHeight - 1
  /\ content = [h \in LogHeights |-> NoContent]

(* The next height, and no other, is bound to a block.                     *)
Append(c) ==
  /\ committed + 1 \in LogHeights
  /\ committed' = committed + 1
  /\ content' = [content EXCEPT ![committed + 1] = c]

LogNext == \E c \in Contents : Append(c)

LogSpec == LogInit /\ [][LogNext]_logVars
=============================================================================
