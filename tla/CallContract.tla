---------------------------- MODULE CallContract ----------------------------
(***************************************************************************)
(* What a client of the runner is promised about its calls: each one is    *)
(* settled at most once and for good, an answered call got the reply to    *)
(* its own line, and closing the client fails what is open and opens       *)
(* nothing any more.                                                       *)
(***************************************************************************)
CONSTANT Calls

VARIABLES
  status,  \* per call: new, open, answered or failed
  closed   \* the client is dead or disposed

Init == /\ status = [c \in Calls |-> "new"]
        /\ closed = FALSE

Become(c, from, to) ==
  /\ status[c] = from
  /\ status' = [status EXCEPT ![c] = to]
  /\ UNCHANGED closed

Open(c) == ~closed /\ Become(c, "new", "open")

Refuse(c) == Become(c, "new", "failed")

Answer(c) == Become(c, "open", "answered")

Fail(c) == Become(c, "open", "failed")

Close ==
  /\ ~closed
  /\ closed' = TRUE
  /\ status' = [c \in Calls |-> IF status[c] = "open" THEN "failed" ELSE status[c]]

Next == Close \/ \E c \in Calls : Open(c) \/ Refuse(c) \/ Answer(c) \/ Fail(c)

Spec == Init /\ [][Next]_<<status, closed>>
=============================================================================
