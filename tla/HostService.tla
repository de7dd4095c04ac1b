---------------------------- MODULE HostService ----------------------------
(***************************************************************************)
(* CoreHost seen by its callers: the history that shows it to be the       *)
(* CoreService.  The core of the service is not the one in the process: a  *)
(* runner that has exited is still the core its callers know, until one of *)
(* them is told, and a line the runner has handled counts when its reply   *)
(* is read.                                                                *)
(***************************************************************************)
EXTENDS CoreHost

VARIABLES
  heard,  \* history: the core as the answers read so far have left it
  left,   \* history: the core as the last line the runner handled left it
  given   \* history: the answer each caller has got to its last request

serviceVars == <<heard, left, given>>

ServiceInit ==
  /\ Init
  /\ heard = FreshCore /\ left = FreshCore
  /\ given = [c \in Callers |-> Refusal("OK")]

(* The promise of the invocation that held the mutex settles. *)
Settles ==
  given' = [given EXCEPT ![lock] =
              IF last'.code = "OK" THEN last'.reply ELSE Refusal(last'.code)]

Asks(c) ==
  /\ Invoke(c)
  /\ given' = [given EXCEPT ![c] = Refusal("OK")]
  /\ UNCHANGED <<heard, left>>

Moves ==
  /\ (\E c \in Callers : Acquire(c)) \/ Spawn \/ Send \/ Started \/ Crash
  /\ UNCHANGED serviceVars

RunnerHandles ==
  /\ Handle
  /\ left' = core'
  /\ UNCHANGED <<heard, given>>

Refuses ==
  /\ SpawnFails \/ RefuseMethod \/ RefuseOversize
  /\ Settles
  /\ UNCHANGED <<heard, left>>

Hears ==
  /\ Receive
  /\ Settles
  /\ heard' = left
  /\ UNCHANGED left

Loses ==
  /\ SendFails \/ ReceiveFails \/ ReceiveGarbage \/ ReceiveFatal
  /\ Settles
  /\ heard' = FreshCore
  /\ UNCHANGED left

ServiceNext ==
  (\E c \in Callers : Asks(c)) \/ Moves \/ RunnerHandles \/ Refuses \/ Hears \/ Loses

ServiceSafety == ServiceInit /\ [][ServiceNext]_<<vars, serviceVars>>

ServiceSpec == ServiceSafety /\ Fairness
-----------------------------------------------------------------------------
(* Of a handle only the id travels. *)
Wire(req) == [method |-> req.method, id |-> req.handle.id, arg |-> req.arg]

Service == INSTANCE CoreService WITH asked <- [c \in Callers |-> Wire(call[c])], core <- heard

(* core_request is atomic to its callers: whatever the runner does in the  *)
(* meantime, exits and teardowns included, each answer is one the core     *)
(* gives to that request as a whole, on top of exactly the requests        *)
(* answered before, or the one that tells of the core's loss.              *)
ServesAtomically == Service!Spec
=============================================================================
