---------------------------- MODULE CoreService ----------------------------
(***************************************************************************)
(* What a caller of core_request may take it for, whoever else calls it:   *)
(* one core that serves a request in one step, whole and in any order.  A  *)
(* request may instead cost the core, and then its own answer says so, or  *)
(* be turned down before it gets there.  Nothing happens to the core       *)
(* between two answers.                                                    *)
(*                                                                         *)
(* This is the specification CoreHost implements with a mutex, a process   *)
(* that may exit at any moment and two pipes (see HostService), and the    *)
(* one that AppSession is written against.                                 *)
(***************************************************************************)
EXTENDS CoreApi

CONSTANT Callers

VARIABLES
  asked,  \* the request each caller awaits the answer to, as it is on the wire
  core,   \* the core, as the answers so far have left it
  given   \* the answer each caller has got to its last request

Unasked == [method |-> "none", id |-> NoId, arg |-> AsLoaded]
NoAnswer == Refusal("OK")

(* The codes of an answer that cost the core. *)
Costly == {"CORE_INIT_FAILED", "UPSTREAM_INCOMPATIBLE"}

(* A caller learns the code of a failure, one of the closed set. *)
Told(reply) ==
  IF reply.code = "OK" THEN reply
  ELSE Refusal(IF reply.code = "RAISED" THEN "CALC_FAILED" ELSE reply.code)

Init ==
  /\ asked = [c \in Callers |-> Unasked]
  /\ core = FreshCore
  /\ given = [c \in Callers |-> NoAnswer]

Ask(c) ==
  /\ asked[c] = Unasked /\ asked'[c] # Unasked
  /\ asked' = [asked EXCEPT ![c] = asked'[c]]
  /\ given' = [given EXCEPT ![c] = NoAnswer]
  /\ UNCHANGED core

Forget(c) ==
  /\ asked[c] = Unasked
  /\ given' = [given EXCEPT ![c] = NoAnswer]
  /\ UNCHANGED <<asked, core>>

Answer(c, reply) ==
  /\ asked[c] # Unasked
  /\ asked' = [asked EXCEPT ![c] = Unasked]
  /\ given' = [given EXCEPT ![c] = reply]

ServeOne(c) ==
  /\ asked[c].method \in CoreMethods
  /\ \E o \in Outcomes(core, asked[c].method, asked[c].id, asked[c].arg) :
       /\ o.reply.code \notin Costly
       /\ core' = o.core
       /\ Answer(c, Told(o.reply))

(* The next request finds a core without a build. *)
Lose(c) ==
  /\ \E code \in Costly : Answer(c, Refusal(code))
  /\ core' = FreshCore

TurnDown(c) ==
  /\ asked[c].method \notin CoreMethods \/ asked[c].arg = HugeXml
  /\ \E code \in {"UPSTREAM_INCOMPATIBLE", "BUILD_PARSE_FAILED"} : Answer(c, Refusal(code))
  /\ UNCHANGED core

Next == \E c \in Callers : Ask(c) \/ Forget(c) \/ ServeOne(c) \/ Lose(c) \/ TurnDown(c)

Spec == Init /\ [][Next]_<<asked, core, given>>
=============================================================================
