---------------------------- MODULE RunnerClient ----------------------------
(***************************************************************************)
(* The Node driver of the runner: class RunnerClient of                    *)
(* packages/core-client/src/runner-client.ts, one runner process and the   *)
(* two pipes between them.                                                 *)
(*                                                                         *)
(* Calls are pipelined.  A reply is matched by the id it carries; a reply  *)
(* without one (the line never parsed) settles the oldest call in flight.  *)
(* Every handler of the event loop is one action: a caller's start, call,  *)
(* sendRaw and dispose, and the callbacks for a line, a write error, a     *)
(* timer, the 'error' and the 'exit' event.                                *)
(***************************************************************************)
EXTENDS Naturals, Sequences, SequencesExt, FiniteSets

CONSTANTS
  Kinds,     \* the kinds of line the callers send
  MaxCalls,  \* bound: calls of a behaviour, handshakes included
  MaxStarts  \* bound: processes spawned in a behaviour

(* "call" is a frame of call(); "huge" one beyond the runner's line cap.   *)
(* The others come from sendRaw: "raw" is not JSON, "hugeRaw" is beyond    *)
(* the cap, "blank" has only white space, "scalar" is a JSON number and    *)
(* "foreign" a request that carries some id other than its own.            *)
AllKinds == {"call", "huge", "raw", "hugeRaw", "blank", "scalar", "foreign"}

(* Lines whose reply, if any, does not tell which call it is for. *)
Misleading == {"blank", "foreign"}

ASSUME ClientAssumption ==
  Kinds \subseteq AllKinds /\ MaxCalls \in Nat /\ MaxStarts \in Nat

Ids == 1..MaxCalls
NoId == 0

VARIABLES
  child,    \* the process this.child refers to (0: undefined)
  starts,   \* processes spawned so far
  disposed, \* this.disposed
  dead,     \* this.deadError is set
  nextId,   \* this.nextId
  pending,  \* keys of this.pending
  order,    \* this.pendingOrder
  fate,     \* what became of each call's promise
  by,       \* history: the call whose line produced the reply that settled it
  alive,    \* processes that have not exited
  doomed,   \* processes dispose has signalled
  stdin,    \* lines not yet read by the runner
  stdout,   \* frames not yet delivered to onLine
  gone      \* the child's 'exit' or 'error' event has been delivered

client == <<child, disposed, dead, nextId, pending, order, fate, by>>
process == <<starts, alive, doomed, gone>>
pipes == <<stdin, stdout>>
vars == <<client, process, pipes>>

Fates == {"new", "open", "ok", "rpcError", "writeError", "timeout", "dead", "disposed",
          "refused"}

Init ==
  /\ child = 0 /\ starts = 0 /\ disposed = FALSE /\ dead = FALSE
  /\ nextId = 1 /\ pending = {} /\ order = <<>>
  /\ fate = [i \in Ids |-> "new"] /\ by = [i \in Ids |-> NoId]
  /\ alive = {} /\ doomed = {} /\ gone = FALSE
  /\ stdin = <<>> /\ stdout = <<>>
-----------------------------------------------------------------------------
(* Mutant of Without: the id stays in pendingOrder. *)
WithoutNothing(queue, id) == queue

(* Mutant of Without: the entry is deleted, not spliced out. *)
WithoutSplice(queue, id) ==
  [k \in 1..Len(queue) |-> IF queue[k] = id THEN NoId ELSE queue[k]]

(* pendingOrder without the id: indexOf, then splice. *)
Without(queue, id) == RemoveFirst(queue, id)

RemovePending(id) ==
  /\ pending' = pending \ {id}
  /\ order' = Without(order, id)

(* Mutant of FailAllPending: the calls are dropped, their promises are not *)
(* rejected.                                                               *)
ForgetAllPending(id, why, others) ==
  /\ fate' = [i \in Ids |-> IF i = id THEN why ELSE fate[i]]
  /\ pending' = {} /\ order' = <<>>

(* failAllPending, after the call id (if any) was rejected on its own. *)
FailAllPending(id, why, others) ==
  /\ fate' = [i \in Ids |-> IF i = id THEN why
                            ELSE IF i \in pending THEN others ELSE fate[i]]
  /\ pending' = {} /\ order' = <<>>

MarkDead ==
  IF dead THEN UNCHANGED <<dead, fate, pending, order>>
  ELSE dead' = TRUE /\ FailAllPending(NoId, "dead", "dead")

(* writeFrame: throw the dead error, or refuse, or register and write.     *)
(* An oversized raw line is thrown back before any of that.                *)
Issue(kind, target) ==
  /\ nextId <= MaxCalls
  /\ nextId' = nextId + 1
  /\ IF kind = "hugeRaw" \/ dead \/ disposed \/ target = 0
     THEN /\ fate' = [fate EXCEPT ![nextId] = "refused"]
          /\ UNCHANGED <<pending, order, stdin>>
     ELSE /\ fate' = [fate EXCEPT ![nextId] = "open"]
          /\ pending' = pending \cup {nextId}
          /\ order' = Append(order, nextId)
          /\ stdin' = Append(stdin, [id |-> nextId, kind |-> kind])
-----------------------------------------------------------------------------
(* start(): spawn, register the callbacks, send the core.version call.     *)
(* The process may never come up: then only 'error' is delivered.          *)
Start ==
  /\ child = 0
  /\ starts < MaxStarts
  /\ starts' = starts + 1
  /\ child' = starts'
  /\ gone' = FALSE
  /\ \/ alive' = alive \cup {starts'}
     \/ UNCHANGED alive
  /\ Issue("call", starts')
  /\ UNCHANGED <<disposed, dead, by, doomed, stdout>>

(* call() and sendRaw(). *)
Call(kind) ==
  /\ Issue(kind, child)
  /\ UNCHANGED <<child, disposed, dead, by, process, stdout>>

(* dispose(): idempotent; closes the line reader, fails what is pending    *)
(* and signals the child, SIGKILL following if SIGTERM is ignored.  What   *)
(* the pipes still hold concerns nobody any more.                          *)
Dispose ==
  /\ ~disposed
  /\ disposed' = TRUE
  /\ child' = 0
  /\ FailAllPending(NoId, "disposed", "disposed")
  /\ doomed' = doomed \cup ({child} \cap alive)
  /\ stdin' = <<>> /\ stdout' = <<>>
  /\ UNCHANGED <<dead, nextId, by, starts, alive, gone>>
-----------------------------------------------------------------------------
(* Mutant of Target: a reply without an id settles the newest call. *)
TargetNewest(frame) ==
  IF frame.id # NoId \/ order = <<>> THEN frame.id ELSE order[Len(order)]

(* The call a frame settles: its own, or the oldest if it carries no id.   *)
Target(frame) == IF frame.id # NoId \/ order = <<>> THEN frame.id ELSE Head(order)

(* onLine on a JSON frame: ignored unless it finds a pending call. *)
OnFrame ==
  /\ child # 0
  /\ stdout # <<>> /\ ~Head(stdout).garbage
  /\ stdout' = Tail(stdout)
  /\ LET frame == Head(stdout)
     IN  IF Target(frame) \notin pending
         THEN UNCHANGED <<pending, order, fate, by>>
         ELSE LET id == Target(frame)
              IN  /\ RemovePending(id)
                  /\ fate' = [fate EXCEPT ![id] = IF frame.error THEN "rpcError" ELSE "ok"]
                  /\ by' = [by EXCEPT ![id] = frame.to]
  /\ UNCHANGED <<child, disposed, dead, nextId, process, stdin>>

(* onLine on a line that is not JSON. *)
OnGarbage ==
  /\ child # 0
  /\ stdout # <<>> /\ Head(stdout).garbage
  /\ stdout' = Tail(stdout)
  /\ MarkDead
  /\ UNCHANGED <<child, disposed, nextId, by, process, stdin>>

(* The timer of a call: it is rejected, and every other one with it. *)
Timeout(id) ==
  /\ id \in pending
  /\ dead' = TRUE
  /\ FailAllPending(id, "timeout", "dead")
  /\ UNCHANGED <<child, disposed, nextId, by, process, pipes>>

(* The callback of a write the runner did not live to read. *)
WriteFails ==
  /\ stdin # <<>>
  /\ starts \notin alive
  /\ stdin' = Tail(stdin)
  /\ LET id == Head(stdin).id
     IN  IF id \in pending
         THEN RemovePending(id) /\ fate' = [fate EXCEPT ![id] = "writeError"]
         ELSE UNCHANGED <<pending, order, fate>>
  /\ UNCHANGED <<child, disposed, dead, nextId, by, process, stdout>>

(* The 'exit' event, which a disposed client ignores, and the 'error'      *)
(* event, which it does not.  Frames already written may still follow.     *)
ChildGone ==
  /\ starts # 0 /\ starts \notin alive /\ ~gone
  /\ gone' = TRUE
  /\ \/ disposed /\ UNCHANGED <<dead, pending, order, fate>>
     \/ MarkDead
  /\ UNCHANGED <<child, disposed, nextId, by, starts, alive, doomed, pipes>>
-----------------------------------------------------------------------------
(* runner.lua run: one reply per line, in order; blank lines are skipped   *)
(* and a scalar raises outside the pcall.  The core may print to stdout    *)
(* past the redirection.                                                   *)
RunnerReads ==
  /\ starts \in alive
  /\ stdin # <<>>
  /\ stdin' = Tail(stdin)
  /\ LET line == Head(stdin)
         reply(id, error) == [id |-> id, error |-> error, to |-> line.id, garbage |-> FALSE]
     IN  CASE line.kind = "call" ->
                /\ \E error \in BOOLEAN : stdout' = Append(stdout, reply(line.id, error))
                /\ UNCHANGED alive
           [] line.kind \in {"huge", "raw"} ->
                stdout' = Append(stdout, reply(NoId, TRUE)) /\ UNCHANGED alive
           [] line.kind = "foreign" ->
                /\ \E id \in Ids \cup {NoId}, error \in BOOLEAN :
                     stdout' = Append(stdout, reply(id, error))
                /\ UNCHANGED alive
           [] line.kind = "blank" -> UNCHANGED <<stdout, alive>>
           [] OTHER -> alive' = alive \ {starts} /\ UNCHANGED stdout
  /\ UNCHANGED <<client, starts, doomed, gone>>

RunnerPrints ==
  /\ starts \in alive
  /\ stdout = <<>>
  /\ stdout' = <<[id |-> NoId, error |-> FALSE, to |-> NoId, garbage |-> TRUE]>>
  /\ UNCHANGED <<client, process, stdin>>

(* A process exits of itself, or because it was signalled. *)
Exits(p) ==
  /\ p \in alive
  /\ alive' = alive \ {p}
  /\ UNCHANGED <<client, starts, doomed, gone, pipes>>

Next == \/ Start \/ Dispose \/ OnFrame \/ OnGarbage \/ WriteFails \/ ChildGone
        \/ RunnerReads \/ RunnerPrints
        \/ \E kind \in Kinds : Call(kind)
        \/ \E id \in Ids : Timeout(id)
        \/ \E p \in 1..MaxStarts : Exits(p)

Safety == Init /\ [][Next]_vars

(* Timers fire and a signalled process exits; that is all the code relies  *)
(* on.                                                                     *)
Spec == /\ Safety
        /\ \A id \in Ids : WF_vars(Timeout(id))
        /\ \A p \in 1..MaxStarts : WF_vars(p \in doomed /\ Exits(p))
-----------------------------------------------------------------------------
Lines  == [id : Ids, kind : AllKinds]
Frames == [id : Ids \cup {NoId}, error : BOOLEAN, to : Ids \cup {NoId}, garbage : BOOLEAN]

TypeOK ==
  /\ child \in 0..MaxStarts /\ starts \in 0..MaxStarts
  /\ disposed \in BOOLEAN /\ dead \in BOOLEAN /\ gone \in BOOLEAN
  /\ nextId \in 1..(MaxCalls + 1)
  /\ pending \subseteq Ids /\ order \in Seq(Ids)
  /\ fate \in [Ids -> Fates] /\ by \in [Ids -> Ids \cup {NoId}]
  /\ alive \subseteq 1..MaxStarts /\ doomed \subseteq 1..MaxStarts
  /\ stdin \in Seq(Lines) /\ stdout \in Seq(Frames)

(* pendingOrder lists the keys of the pending map, oldest first, and those *)
(* are exactly the calls whose promise is still open.                      *)
QueueIsThePendingMap ==
  /\ pending = {i \in Ids : fate[i] = "open"}
  /\ pending = {order[k] : k \in 1..Len(order)}
  /\ \A k, l \in 1..Len(order) : k < l => order[k] < order[l]

(* How a call stands, seen from the contract: one that was settled by the  *)
(* reply to another call's line is in no state the contract knows.         *)
Status(id) ==
  IF fate[id] \in {"new", "open"} THEN fate[id]
  ELSE IF fate[id] \notin {"ok", "rpcError"} THEN "failed"
  ELSE IF by[id] = id THEN "answered" ELSE "crossed"

(* The client keeps the contract of CallContract: a call is settled once,  *)
(* with its own reply or an error, and nothing is open on a client that is *)
(* dead or disposed (runner-client.ts:176-191, 355-395, 420-479).  Not so  *)
(* with blank and foreign lines.  The runner skips a blank one, the client *)
(* waits for a reply and takes the next one without an id for it; the      *)
(* reply to a foreign one settles the call whose id it carries.            *)
Contract == INSTANCE CallContract
              WITH Calls <- Ids, status <- [i \in Ids |-> Status(i)],
                   closed <- dead \/ disposed
KeepsContract == Contract!Spec

(* Every call is settled, whatever the runner does ("never a hang").       *)
EveryCallSettles == \A id \in Ids : fate[id] = "open" ~> fate[id] # "open"
-----------------------------------------------------------------------------
(* After a time-out the process is gone or signalled: runner-client.ts:    *)
(* 357-358, "A timeout tears the runner down (a wedged runner cannot       *)
(* recover)".  markDead fails the calls and leaves the process alone.      *)
TimeoutTearsDown ==
  (\E id \in Ids : fate[id] = "timeout") => child \notin alive \ doomed
=============================================================================
