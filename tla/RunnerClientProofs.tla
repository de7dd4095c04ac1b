------------------------- MODULE RunnerClientProofs -------------------------
(***************************************************************************)
(* Theorems about RunnerClient, for any number of calls and of starts.     *)
(*                                                                         *)
(* The client keeps its contract because of an order it never checks: the  *)
(* runner answers in the order it reads, so the frames on their way and    *)
(* the lines still unread, in that order, name the pending calls in the    *)
(* order of pendingOrder.  IInv says so: ClientInv is about the fields of  *)
(* the client, PipeInv about what is in the two pipes.                     *)
(***************************************************************************)
EXTENDS RunnerClient, SequenceTheorems, TLAPS

(* A queue of ids, oldest first. *)
Ascending(q) == \A k, l \in 1..Len(q) : k < l => q[k] < q[l]

(* Ids not given out yet are untouched. *)
FreshInv == \A i \in Ids : i >= nextId => fate[i] = "new"

(* Nothing is pending on a closed client. *)
ClosedInv == dead \/ disposed => pending = {}

(* Without a process there is nothing to wait for, unless it was disposed of. *)
IdleInv ==
  /\ child = 0 => disposed \/ starts = 0
  /\ starts = 0 => pending = {} /\ stdin = <<>> /\ stdout = <<>> /\ child = 0
  /\ disposed => stdin = <<>>

ClientInv == TypeOK /\ QueueIsThePendingMap /\ FreshInv /\ ClosedInv /\ IdleInv

-----------------------------------------------------------------------------
(* The queue after indexOf and splice. *)
LEMMA WithoutIt ==
  ASSUME NEW S \in SUBSET Nat, NEW q \in Seq(S), Ascending(q), NEW k \in 1..Len(q)
  PROVE  /\ Without(q, q[k]) \in Seq(S)
         /\ Len(Without(q, q[k])) = Len(q) - 1
         /\ \A j \in 1..(Len(q) - 1) : Without(q, q[k])[j] = IF j < k THEN q[j] ELSE q[j + 1]
  <1>. DEFINE e == q[k]
              I == {i \in 1..Len(q) : q[i] = e}
              left == SubSeq(q, 1, k - 1)
              right == SubSeq(q, k + 1, Len(q))
  <1>1. Len(q) \in Nat /\ \A i \in 1..Len(q) : q[i] \in Nat
    BY ElementOfSeq, LenProperties
  <1>2. I = {k}
    BY <1>1 DEF Ascending
  <1>3. SelectInSeq(q, LAMBDA v : v = e) = k
    <2>1. Min(I) = k
      BY <1>1, <1>2 DEF Min
    <2>. QED BY <1>2, <2>1 DEF SelectInSeq
  <1>4. Without(q, e) = left \o right
    <2>1. \E i \in 1..Len(q) : q[i] = e
      OBVIOUS
    <2>2. RemoveFirst(q, e) = RemoveAt(q, SelectInSeq(q, LAMBDA v : v = e))
      BY <2>1, Zenon DEF RemoveFirst
    <2>. QED BY <1>3, <2>2, Zenon DEF Without, RemoveAt
  <1>5. /\ left \in Seq(S) /\ Len(left) = k - 1
        /\ \A j \in 1..(k - 1) : left[j] = q[j]
    BY <1>1, SubSeqProperties
  <1>6. /\ right \in Seq(S) /\ Len(right) = Len(q) - k
        /\ \A j \in 1..(Len(q) - k) : right[j] = q[k + j]
    BY <1>1, SubSeqProperties
  <1>. HIDE DEF left, right
  <1>7. /\ left \o right \in Seq(S)
        /\ Len(left \o right) = Len(q) - 1
        /\ \A j \in 1..(Len(q) - 1) : (left \o right)[j] = IF j <= k - 1 THEN left[j] ELSE right[j - (k - 1)]
    <2>1. Len(left) + Len(right) = Len(q) - 1
      BY <1>1, <1>5, <1>6
    <2>2. /\ left \o right \in Seq(S)
          /\ Len(left \o right) = Len(left) + Len(right)
          /\ \A j \in 1..(Len(left) + Len(right)) :
               (left \o right)[j] = IF j <= Len(left) THEN left[j] ELSE right[j - Len(left)]
      BY <1>5, <1>6, ConcatProperties, Zenon
    <2>. QED BY <1>5, <2>1, <2>2
  <1>8. \A j \in 1..(Len(q) - 1) : (left \o right)[j] = IF j < k THEN q[j] ELSE q[j + 1]
    BY <1>1, <1>5, <1>6, <1>7
  <1>. QED BY <1>4, <1>7, <1>8

(* The parts of the state that a call's settlement touches. *)
Promises == /\ pending \subseteq Ids /\ order \in Seq(Ids) /\ fate \in [Ids -> Fates]
            /\ QueueIsThePendingMap

LEMMA IdsAreNaturals == Ids \in SUBSET Nat /\ MaxCalls \in Nat
  BY ClientAssumption DEF Ids

(* Settling one pending call keeps the queue and the map together. *)
LEMMA RemoveKeepsPromises ==
  ASSUME Promises, NEW id \in pending, NEW f \in Fates \ {"open"},
         RemovePending(id), fate' = [fate EXCEPT ![id] = f]
  PROVE  Promises'
  <1>1. /\ order \in Seq(Ids) /\ Len(order) \in Nat /\ Ascending(order)
        /\ \A j \in 1..Len(order) : order[j] \in Ids /\ order[j] \in Nat
    BY IdsAreNaturals, LenProperties, ElementOfSeq DEF Promises, QueueIsThePendingMap, Ascending
  <1>2. PICK k \in 1..Len(order) : order[k] = id
    BY DEF Promises, QueueIsThePendingMap
  <1>3. /\ order' \in Seq(Ids) /\ Len(order') = Len(order) - 1
        /\ \A j \in 1..(Len(order) - 1) : order'[j] = IF j < k THEN order[j] ELSE order[j + 1]
    BY <1>1, <1>2, IdsAreNaturals, WithoutIt DEF RemovePending
  <1>4. Ascending(order')
    <2>1. ASSUME NEW j \in 1..Len(order'), NEW l \in 1..Len(order'), j < l
          PROVE  order'[j] < order'[l]
      <3>1. /\ j \in 1..(Len(order) - 1) /\ l \in 1..(Len(order) - 1)
            /\ j \in 1..Len(order) /\ j + 1 \in 1..Len(order)
            /\ l \in 1..Len(order) /\ l + 1 \in 1..Len(order)
        BY <1>1, <1>3
      <3>2. order[j] < order[l] /\ order[j] < order[l + 1] /\ order[j + 1] < order[l + 1]
        BY <1>1, <2>1, <3>1 DEF Ascending
      <3>. QED BY <1>1, <1>3, <2>1, <3>1, <3>2, SMTT(30)
    <2>. QED BY <2>1 DEF Ascending
  <1>5. pending' = {order'[j] : j \in 1..Len(order')}
    <2>1. ASSUME NEW i \in pending' PROVE \E j \in 1..Len(order') : order'[j] = i
      <3>1. PICK l \in 1..Len(order) : order[l] = i
        BY <2>1 DEF Promises, QueueIsThePendingMap, RemovePending
      <3>2. l # k
        BY <1>2, <2>1, <3>1 DEF RemovePending
      <3>3. CASE l < k
        BY <1>1, <1>3, <3>1, <3>3
      <3>4. CASE l > k
        <4>1. l - 1 \in 1..(Len(order) - 1) /\ ~(l - 1 < k) /\ (l - 1) + 1 = l
          BY <1>1, <3>4
        <4>2. order'[l - 1] = order[(l - 1) + 1]
          BY <1>3, <4>1
        <4>. QED BY <1>3, <3>1, <4>1, <4>2
      <3>. QED BY <3>2, <3>3, <3>4
    <2>2. ASSUME NEW j \in 1..Len(order') PROVE order'[j] \in pending'
      <3>1. PICK l \in 1..Len(order) : l # k /\ order'[j] = order[l]
        <4>0. j \in 1..(Len(order) - 1) /\ j \in 1..Len(order)
          BY <1>1, <1>3
        <4>1. CASE j < k
          <5>1. order'[j] = order[j] /\ j # k
            BY <1>3, <4>0, <4>1
          <5>. QED BY <4>0, <5>1
        <4>2. CASE ~(j < k)
          <5>1. j + 1 \in 1..Len(order) /\ j + 1 # k /\ order'[j] = order[j + 1]
            BY <1>1, <1>3, <4>2
          <5>. QED BY <5>1
        <4>. QED BY <4>1, <4>2
      <3>2. order[l] # id
        BY <1>1, <1>2, <3>1 DEF Ascending
      <3>. QED BY <3>1, <3>2 DEF Promises, QueueIsThePendingMap, RemovePending
    <2>. QED BY <2>1, <2>2
  <1>6. /\ fate' \in [Ids -> Fates] /\ pending' \subseteq Ids
        /\ pending' = {i \in Ids : fate'[i] = "open"}
    BY DEF Promises, QueueIsThePendingMap, RemovePending
  <1>. QED BY <1>3, <1>4, <1>5, <1>6 DEF Promises, QueueIsThePendingMap, Ascending

(* Failing every pending call empties both, and touches no other call. *)
LEMMA FailAllKeepsPromises ==
  ASSUME Promises, NEW id, id \in pending \/ id = NoId,
         NEW why \in Fates \ {"open"}, NEW others \in Fates \ {"open"},
         FailAllPending(id, why, others)
  PROVE  /\ Promises' /\ pending' = {}
         /\ \A i \in Ids \ pending : fate'[i] = fate[i]
         /\ \A i \in pending : fate'[i] = IF i = id THEN why ELSE others
  <1>1. NoId \notin Ids
    BY IdsAreNaturals DEF NoId, Ids
  <1>2. /\ pending' = {} /\ order' = <<>>
        /\ fate' = [i \in Ids |-> IF i = id THEN why ELSE IF i \in pending THEN others ELSE fate[i]]
    BY DEF FailAllPending
  <1>3. fate' \in [Ids -> Fates] /\ \A i \in Ids : fate'[i] # "open"
    BY <1>2 DEF Promises, QueueIsThePendingMap
  <1>4. order' \in Seq(Ids) /\ {order'[j] : j \in 1..Len(order')} = {}
    BY <1>2
  <1>5. Promises'
    BY <1>2, <1>3, <1>4 DEF Promises, QueueIsThePendingMap
  <1>. QED BY <1>1, <1>2, <1>5 DEF Promises

(* A new call is refused, or joins the end of the queue. *)
LEMMA IssueKeepsPromises ==
  ASSUME Promises, FreshInv, nextId \in 1..(MaxCalls + 1), NEW kind, NEW target, Issue(kind, target)
  PROVE  Promises' /\ FreshInv' /\ nextId' \in 1..(MaxCalls + 1) /\ nextId \in Ids
  <1>1. /\ nextId \in Ids /\ nextId' = nextId + 1 /\ nextId' \in 1..(MaxCalls + 1)
        /\ fate[nextId] = "new" /\ nextId \notin pending
        /\ \A i \in pending : i < nextId
    BY IdsAreNaturals DEF Issue, Ids, FreshInv, Promises, QueueIsThePendingMap
  <1>2. CASE fate' = [fate EXCEPT ![nextId] = "refused"] /\ UNCHANGED <<pending, order>>
    <2>1. fate' \in [Ids -> Fates] /\ pending' = {i \in Ids : fate'[i] = "open"}
      BY <1>1, <1>2 DEF Promises, QueueIsThePendingMap, Fates
    <2>2. Promises'
      BY <1>2, <2>1 DEF Promises, QueueIsThePendingMap
    <2>3. FreshInv'
      BY <1>1, <1>2 DEF FreshInv, Promises, Ids
    <2>. QED BY <1>1, <2>2, <2>3
  <1>3. CASE /\ fate' = [fate EXCEPT ![nextId] = "open"]
             /\ pending' = pending \cup {nextId} /\ order' = Append(order, nextId)
    <2>1. /\ fate' \in [Ids -> Fates] /\ pending' = {i \in Ids : fate'[i] = "open"}
          /\ pending' \subseteq Ids
      BY <1>1, <1>3 DEF Promises, QueueIsThePendingMap, Fates
    <2>2. /\ order' \in Seq(Ids) /\ Len(order) \in Nat /\ Len(order') = Len(order) + 1
          /\ order'[Len(order) + 1] = nextId
          /\ \A j \in 1..Len(order) : order'[j] = order[j] /\ order[j] \in pending
      BY <1>1, <1>3, AppendProperties, LenProperties DEF Promises, QueueIsThePendingMap
    <2>3. pending' = {order'[j] : j \in 1..Len(order')}
      BY <1>1, <1>3, <2>2 DEF Promises, QueueIsThePendingMap
    <2>4. ASSUME NEW j \in 1..Len(order'), NEW l \in 1..Len(order'), j < l
          PROVE  order'[j] < order'[l]
      <3>1. j \in 1..Len(order) /\ (l \in 1..Len(order) \/ l = Len(order) + 1)
        BY <2>2, <2>4
      <3>. QED BY <1>1, <2>2, <2>4, <3>1 DEF Promises, QueueIsThePendingMap, Ascending
    <2>5. FreshInv'
      BY <1>1, <1>3 DEF FreshInv, Promises, Ids
    <2>. QED BY <1>1, <2>1, <2>2, <2>3, <2>4, <2>5 DEF Promises, QueueIsThePendingMap, Ascending
  <1>. QED BY <1>2, <1>3 DEF Issue

-----------------------------------------------------------------------------
(* ClientInv holds at first, and each action keeps it. *)
LEMMA ClientInit == Init => ClientInv
  <1>. SUFFICES ASSUME Init PROVE ClientInv
    OBVIOUS
  <1>1. TypeOK
    <2>1. /\ child \in 0..MaxStarts /\ starts \in 0..MaxStarts /\ nextId \in 1..(MaxCalls + 1)
          /\ pending \subseteq Ids /\ alive \subseteq 1..MaxStarts /\ doomed \subseteq 1..MaxStarts
      BY IdsAreNaturals, ClientAssumption DEF Init
    <2>2. order \in Seq(Ids) /\ stdin \in Seq(Lines) /\ stdout \in Seq(Frames)
      BY DEF Init
    <2>3. fate \in [Ids -> Fates] /\ by \in [Ids -> Ids \cup {NoId}]
      BY DEF Init, Fates
    <2>4. disposed \in BOOLEAN /\ dead \in BOOLEAN /\ gone \in BOOLEAN
      BY Zenon DEF Init
    <2>. QED BY <2>1, <2>2, <2>3, <2>4, Zenon DEF TypeOK
  <1>2. QueueIsThePendingMap
    BY DEF Init, QueueIsThePendingMap
  <1>3. FreshInv /\ ClosedInv /\ IdleInv
    BY DEF Init, FreshInv, ClosedInv, IdleInv
  <1>. QED BY <1>1, <1>2, <1>3 DEF ClientInv

LEMMA PromisesOfClientInv == ASSUME ClientInv PROVE Promises
  BY DEF ClientInv, TypeOK, Promises

(* A line that may be written. *)
LEMMA IssueTypesStdin ==
  ASSUME ClientInv, NEW kind \in AllKinds, NEW target, Issue(kind, target)
  PROVE  \/ UNCHANGED <<stdin, pending>>
         \/ /\ ~dead /\ ~disposed /\ target # 0
            /\ stdin' = Append(stdin, [id |-> nextId, kind |-> kind]) /\ stdin' \in Seq(Lines)
            /\ [id |-> nextId, kind |-> kind] \in Lines
            /\ pending' = pending \cup {nextId} /\ kind # "hugeRaw"
  <1>1. stdin \in Seq(Lines) /\ nextId \in Ids
    BY PromisesOfClientInv, IssueKeepsPromises DEF ClientInv, TypeOK
  <1>2. CASE kind = "hugeRaw" \/ dead \/ disposed \/ target = 0
    BY <1>2 DEF Issue
  <1>3. CASE ~(kind = "hugeRaw" \/ dead \/ disposed \/ target = 0)
    <2>1. [id |-> nextId, kind |-> kind] \in Lines
      BY <1>1 DEF Lines
    <2>2. stdin' = Append(stdin, [id |-> nextId, kind |-> kind]) /\ pending' = pending \cup {nextId}
      BY <1>3 DEF Issue
    <2>3. stdin' \in Seq(Lines)
      BY <1>1, <2>1, <2>2, AppendProperties
    <2>. QED BY <1>3, <2>1, <2>2, <2>3
  <1>. QED BY <1>2, <1>3

LEMMA StartKeepsClient == ASSUME ClientInv, Start PROVE ClientInv'
  <1>1. Promises' /\ FreshInv' /\ nextId' \in 1..(MaxCalls + 1)
    BY PromisesOfClientInv, IssueKeepsPromises DEF Start, ClientInv, TypeOK
  <1>2. /\ starts' = starts + 1 /\ child' = starts' /\ starts' \in 1..MaxStarts
        /\ alive' \subseteq 1..MaxStarts
        /\ gone' = FALSE /\ UNCHANGED <<disposed, dead, by, doomed, stdout>>
    <2>1. starts' = starts + 1 /\ child' = starts' /\ starts' \in 1..MaxStarts
      BY ClientAssumption DEF Start, ClientInv, TypeOK
    <2>2. alive' \subseteq 1..MaxStarts
      BY <2>1 DEF Start, ClientInv, TypeOK
    <2>3. gone' = FALSE /\ UNCHANGED <<disposed, dead, by, doomed, stdout>>
      BY Zenon DEF Start
    <2>. QED BY <2>1, <2>2, <2>3, Zenon
  <1>3. \/ UNCHANGED <<stdin, pending>>
        \/ ~dead /\ ~disposed /\ stdin' \in Seq(Lines)
    <2>1. "call" \in AllKinds /\ Issue("call", starts')
      BY DEF Start, AllKinds
    <2>. QED BY <2>1, IssueTypesStdin, Zenon
  <1>4. TypeOK'
    <2>1. child' \in 0..MaxStarts /\ starts' \in 0..MaxStarts
      BY <1>2, ClientAssumption
    <2>2. stdin' \in Seq(Lines)
      BY <1>3 DEF ClientInv, TypeOK
    <2>. QED BY <1>1, <1>2, <2>1, <2>2 DEF ClientInv, TypeOK, Promises
  <1>5. ClosedInv' /\ IdleInv'
    BY <1>2, <1>3 DEF ClientInv, TypeOK, ClosedInv, IdleInv
  <1>. QED BY <1>1, <1>4, <1>5 DEF ClientInv, Promises

LEMMA CallKeepsClient == ASSUME ClientInv, NEW kind \in Kinds, Call(kind) PROVE ClientInv'
  <1>0. kind \in AllKinds
    BY ClientAssumption
  <1>1. Promises' /\ FreshInv' /\ nextId' \in 1..(MaxCalls + 1)
    BY PromisesOfClientInv, IssueKeepsPromises DEF Call, ClientInv, TypeOK
  <1>2. UNCHANGED <<child, starts, alive, gone, disposed, dead, by, doomed, stdout>>
    BY DEF Call, process
  <1>3. \/ UNCHANGED <<stdin, pending>>
        \/ ~dead /\ ~disposed /\ child # 0 /\ stdin' \in Seq(Lines)
    BY <1>0, IssueTypesStdin DEF Call
  <1>4. TypeOK'
    BY <1>1, <1>2, <1>3 DEF ClientInv, TypeOK, Promises
  <1>5. ClosedInv' /\ IdleInv'
    BY <1>2, <1>3 DEF ClientInv, TypeOK, ClosedInv, IdleInv
  <1>. QED BY <1>1, <1>4, <1>5 DEF ClientInv, Promises

LEMMA DisposeKeepsClient == ASSUME ClientInv, Dispose PROVE ClientInv'
  <1>1. /\ Promises' /\ pending' = {}
        /\ \A i \in Ids \ pending : fate'[i] = fate[i]
    BY PromisesOfClientInv, FailAllKeepsPromises DEF Dispose, Fates
  <1>2. /\ disposed' = TRUE /\ child' = 0 /\ doomed' = doomed \cup ({child} \cap alive)
        /\ stdin' = <<>> /\ stdout' = <<>>
        /\ UNCHANGED <<dead, nextId, by, starts, alive, gone>>
    BY DEF Dispose
  <1>3. FreshInv'
    BY <1>1, <1>2 DEF ClientInv, FreshInv, QueueIsThePendingMap
  <1>4. TypeOK'
    BY <1>1, <1>2, ClientAssumption DEF ClientInv, TypeOK, Promises
  <1>5. ClosedInv' /\ IdleInv'
    BY <1>1, <1>2 DEF ClosedInv, IdleInv
  <1>. QED BY <1>1, <1>3, <1>4, <1>5 DEF ClientInv, Promises

(* What markDead does to the promises; it is inert on a dead client. *)
LEMMA MarkDeadFacts ==
  ASSUME ClientInv, MarkDead
  PROVE  /\ Promises' /\ dead' = TRUE /\ pending' = {}
         /\ \A i \in Ids \ pending : fate'[i] = fate[i]
         /\ \A i \in pending : fate'[i] = "dead"
  <1>1. CASE dead
    BY <1>1 DEF MarkDead, ClientInv, ClosedInv, TypeOK, Promises, QueueIsThePendingMap
  <1>2. CASE ~dead
    BY <1>2, PromisesOfClientInv, FailAllKeepsPromises DEF MarkDead, Fates
  <1>. QED BY <1>1, <1>2

(* A step that leaves the process table, the ids and stdin alone and at most *)
(* shortens the queue keeps ClientInv. *)
LEMMA SettlingKeepsClient ==
  ASSUME ClientInv, Promises', pending' \subseteq pending,
         \A i \in Ids \ pending : fate'[i] = fate[i],
         dead' \in BOOLEAN, dead' => dead \/ pending' = {},
         gone' \in BOOLEAN, by' \in [Ids -> Ids \cup {NoId}],
         stdin' \in Seq(Lines), stdin = <<>> => stdin' = <<>>,
         stdout' \in Seq(Frames), stdout = <<>> => stdout' = <<>>,
         UNCHANGED <<child, disposed, nextId, starts, doomed, alive>>
  PROVE  ClientInv'
  <1>1. TypeOK' /\ QueueIsThePendingMap'
    BY DEF ClientInv, TypeOK, Promises
  <1>2. FreshInv'
    BY DEF ClientInv, FreshInv, QueueIsThePendingMap
  <1>3. ClosedInv' /\ IdleInv'
    BY DEF ClientInv, TypeOK, ClosedInv, IdleInv
  <1>. QED BY <1>1, <1>2, <1>3 DEF ClientInv

LEMMA OnFrameKeepsClient == ASSUME ClientInv, OnFrame PROVE ClientInv'
  <1>. DEFINE frame == Head(stdout)
              id == Target(frame)
  <1>1. /\ stdout # <<>> /\ stdout' = Tail(stdout) /\ stdout' \in Seq(Frames) /\ frame \in Frames
        /\ UNCHANGED <<child, disposed, dead, nextId, starts, alive, doomed, gone, stdin>>
    <2>1. /\ stdout # <<>> /\ stdout' = Tail(stdout) /\ stdout \in Seq(Frames)
          /\ UNCHANGED <<child, disposed, dead, nextId, starts, alive, doomed, gone, stdin>>
      BY Zenon DEF OnFrame, process, ClientInv, TypeOK
    <2>2. Tail(stdout) \in Seq(Frames) /\ Head(stdout) \in Frames
      BY <2>1, HeadTailProperties
    <2>. QED BY <2>1, <2>2, Zenon
  <1>2. CASE id \notin pending
    <2>1. UNCHANGED <<pending, order, fate, by>>
      BY <1>2 DEF OnFrame
    <2>2. Promises'
      BY <2>1, PromisesOfClientInv DEF Promises, QueueIsThePendingMap
    <2>. QED BY <1>1, <2>1, <2>2, SettlingKeepsClient DEF ClientInv, TypeOK
  <1>3. CASE id \in pending
    <2>1. PICK f \in Fates \ {"open"} : fate' = [fate EXCEPT ![id] = f]
      BY <1>3 DEF OnFrame, Fates
    <2>2. RemovePending(id) /\ by' = [by EXCEPT ![id] = frame.to]
      BY <1>3 DEF OnFrame
    <2>3. frame.to \in Ids \cup {NoId}
      BY <1>1 DEF Frames
    <2>. HIDE DEF id, frame
    <2>4. Promises'
      BY <1>3, <2>1, <2>2, PromisesOfClientInv, RemoveKeepsPromises
    <2>5. by' \in [Ids -> Ids \cup {NoId}]
      BY <2>2, <2>3 DEF ClientInv, TypeOK
    <2>6. /\ \A i \in Ids \ pending : fate'[i] = fate[i]
          /\ pending' \subseteq pending
      BY <1>3, <2>1, <2>2 DEF ClientInv, TypeOK, RemovePending
    <2>. QED BY <1>1, <2>4, <2>5, <2>6, SettlingKeepsClient DEF ClientInv, TypeOK
  <1>. QED BY <1>2, <1>3

LEMMA OnGarbageKeepsClient == ASSUME ClientInv, OnGarbage PROVE ClientInv'
  <1>1. /\ stdout # <<>> /\ stdout' = Tail(stdout) /\ stdout' \in Seq(Frames)
        /\ UNCHANGED <<child, disposed, nextId, by, starts, alive, doomed, gone, stdin>>
    <2>1. /\ stdout # <<>> /\ stdout' = Tail(stdout) /\ stdout \in Seq(Frames)
          /\ UNCHANGED <<child, disposed, nextId, by, starts, alive, doomed, gone, stdin>>
      BY Zenon DEF OnGarbage, process, ClientInv, TypeOK
    <2>. QED BY <2>1, HeadTailProperties, Zenon
  <1>2. /\ Promises' /\ dead' = TRUE /\ pending' = {}
        /\ \A i \in Ids \ pending : fate'[i] = fate[i]
    BY MarkDeadFacts DEF OnGarbage
  <1>. QED BY <1>1, <1>2, SettlingKeepsClient DEF ClientInv, TypeOK

LEMMA TimeoutKeepsClient == ASSUME ClientInv, NEW id \in Ids, Timeout(id) PROVE ClientInv'
  <1>1. /\ dead' = TRUE
        /\ UNCHANGED <<child, disposed, nextId, by, starts, alive, doomed, gone, stdin, stdout>>
    BY DEF Timeout, process, pipes
  <1>2. /\ Promises' /\ pending' = {}
        /\ \A i \in Ids \ pending : fate'[i] = fate[i]
    BY PromisesOfClientInv, FailAllKeepsPromises DEF Timeout, Fates
  <1>. QED BY <1>1, <1>2, SettlingKeepsClient DEF ClientInv, TypeOK

LEMMA WriteFailsKeepsClient == ASSUME ClientInv, WriteFails PROVE ClientInv'
  <1>. DEFINE id == Head(stdin).id
  <1>1. /\ stdin # <<>> /\ stdin' = Tail(stdin) /\ stdin' \in Seq(Lines)
        /\ UNCHANGED <<child, disposed, dead, nextId, by, starts, alive, doomed, gone, stdout>>
    <2>1. /\ stdin # <<>> /\ stdin' = Tail(stdin) /\ stdin \in Seq(Lines)
          /\ UNCHANGED <<child, disposed, dead, nextId, by, starts, alive, doomed, gone, stdout>>
      BY Zenon DEF WriteFails, process, ClientInv, TypeOK
    <2>2. Tail(stdin) \in Seq(Lines)
      BY <2>1, HeadTailProperties
    <2>. QED BY <2>1, <2>2, Zenon
  <1>2. CASE id \notin pending
    <2>1. UNCHANGED <<pending, order, fate>>
      BY <1>2 DEF WriteFails
    <2>2. Promises'
      BY <2>1, PromisesOfClientInv DEF Promises, QueueIsThePendingMap
    <2>. QED BY <1>1, <2>1, <2>2, SettlingKeepsClient DEF ClientInv, TypeOK
  <1>3. CASE id \in pending
    <2>1. /\ fate' = [fate EXCEPT ![id] = "writeError"] /\ RemovePending(id)
          /\ "writeError" \in Fates \ {"open"}
      BY <1>3 DEF WriteFails, Fates
    <2>. HIDE DEF id
    <2>2. Promises'
      BY <1>3, <2>1, PromisesOfClientInv, RemoveKeepsPromises
    <2>3. /\ \A i \in Ids \ pending : fate'[i] = fate[i]
          /\ pending' \subseteq pending
      BY <1>3, <2>1 DEF ClientInv, TypeOK, RemovePending
    <2>. QED BY <1>1, <2>2, <2>3, SettlingKeepsClient DEF ClientInv, TypeOK
  <1>. QED BY <1>2, <1>3

LEMMA ChildGoneKeepsClient == ASSUME ClientInv, ChildGone PROVE ClientInv'
  <1>1. /\ gone' = TRUE
        /\ UNCHANGED <<child, disposed, nextId, by, starts, alive, doomed, stdin, stdout>>
    BY DEF ChildGone, pipes
  <1>2. CASE UNCHANGED <<dead, pending, order, fate>>
    BY <1>1, <1>2, PromisesOfClientInv, SettlingKeepsClient
       DEF ClientInv, TypeOK, Promises, QueueIsThePendingMap
  <1>3. CASE MarkDead
    <2>1. /\ Promises' /\ dead' = TRUE /\ pending' = {}
          /\ \A i \in Ids \ pending : fate'[i] = fate[i]
      BY <1>3, MarkDeadFacts
    <2>. QED BY <1>1, <2>1, SettlingKeepsClient DEF ClientInv, TypeOK
  <1>. QED BY <1>2, <1>3 DEF ChildGone

(* The effect of the runner on the pipes: it takes a line and may add a frame. *)
Reply(line, id, error) == [id |-> id, error |-> error, to |-> line.id, garbage |-> FALSE]

LEMMA RunnerReadsFacts ==
  ASSUME ClientInv, RunnerReads
  PROVE  /\ stdin # <<>> /\ stdin' = Tail(stdin) /\ stdin' \in Seq(Lines) /\ Head(stdin) \in Lines
         /\ starts \in alive
         /\ UNCHANGED <<client, starts, doomed, gone>>
         /\ \/ /\ UNCHANGED alive
               /\ \E id \in Ids \cup {NoId}, error \in BOOLEAN :
                    /\ stdout' = Append(stdout, Reply(Head(stdin), id, error))
                    /\ Head(stdin).kind # "foreign" => id \in {NoId, Head(stdin).id}
            \/ Head(stdin).kind = "blank" /\ UNCHANGED <<stdout, alive>>
            \/ alive' = alive \ {starts} /\ UNCHANGED stdout
  <1>1. /\ stdin # <<>> /\ stdin' = Tail(stdin) /\ stdin \in Seq(Lines)
        /\ starts \in alive /\ UNCHANGED <<client, starts, doomed, gone>>
    BY Zenon DEF RunnerReads, ClientInv, TypeOK
  <1>2. Head(stdin) \in Lines /\ Tail(stdin) \in Seq(Lines)
    BY <1>1, HeadTailProperties
  <1>. DEFINE line == Head(stdin)
  <1>8. line.id \in Ids \cup {NoId} /\ NoId \in Ids \cup {NoId}
    BY <1>2 DEF Lines
  <1>3. CASE line.kind = "call"
    <2>1. UNCHANGED alive /\ \E error \in BOOLEAN : stdout' = Append(stdout, Reply(line, line.id, error))
      BY <1>3 DEF RunnerReads, Reply
    <2>. QED BY <1>1, <1>2, <1>8, <2>1
  <1>4. CASE line.kind \in {"huge", "raw"}
    <2>1. UNCHANGED alive /\ stdout' = Append(stdout, Reply(line, NoId, TRUE))
      BY <1>4 DEF RunnerReads, Reply
    <2>. QED BY <1>1, <1>2, <1>8, <2>1
  <1>5. CASE line.kind = "blank"
    <2>1. UNCHANGED <<stdout, alive>>
      BY <1>5 DEF RunnerReads
    <2>. QED BY <1>1, <1>2, <1>5, <2>1
  <1>7. CASE line.kind = "foreign"
    <2>1. /\ UNCHANGED alive
          /\ \E id \in Ids \cup {NoId}, error \in BOOLEAN :
               stdout' = Append(stdout, Reply(line, id, error))
      BY <1>7 DEF RunnerReads, Reply
    <2>. QED BY <1>1, <1>2, <1>7, <2>1
  <1>6. CASE line.kind \notin {"call", "huge", "raw", "foreign", "blank"}
    <2>1. alive' = alive \ {starts} /\ UNCHANGED stdout
      BY <1>6 DEF RunnerReads
    <2>. QED BY <1>1, <1>2, <2>1
  <1>. QED BY <1>3, <1>4, <1>5, <1>6, <1>7

LEMMA RunnerReadsKeepsClient == ASSUME ClientInv, RunnerReads PROVE ClientInv'
  <1>1. /\ stdin # <<>> /\ stdin' \in Seq(Lines) /\ Head(stdin) \in Lines
        /\ UNCHANGED <<client, starts, doomed, gone>> /\ alive' \subseteq alive
    BY RunnerReadsFacts
  <1>2. stdout' \in Seq(Frames)
    <2>1. stdout \in Seq(Frames)
      BY DEF ClientInv, TypeOK
    <2>2. \A id \in Ids \cup {NoId}, error \in BOOLEAN : Reply(Head(stdin), id, error) \in Frames
      BY <1>1 DEF Reply, Frames, Lines
    <2>3. CASE UNCHANGED stdout
      BY <2>1, <2>3
    <2>4. CASE \E id \in Ids \cup {NoId}, error \in BOOLEAN :
                 stdout' = Append(stdout, Reply(Head(stdin), id, error))
      <3>1. PICK frame \in Frames : stdout' = Append(stdout, frame)
        BY <2>2, <2>4, Zenon
      <3>. QED BY <2>1, <3>1, AppendProperties
    <2>. QED BY <2>3, <2>4, RunnerReadsFacts, Zenon
  <1>3. TypeOK'
    BY <1>1, <1>2 DEF ClientInv, TypeOK, client
  <1>4. QueueIsThePendingMap' /\ FreshInv' /\ ClosedInv'
    BY <1>1 DEF ClientInv, QueueIsThePendingMap, FreshInv, ClosedInv, client
  <1>5. starts # 0
    BY <1>1 DEF ClientInv, IdleInv
  <1>6. IdleInv'
    BY <1>1, <1>5 DEF ClientInv, IdleInv, client
  <1>. QED BY <1>3, <1>4, <1>6 DEF ClientInv

LEMMA RunnerPrintsKeepsClient == ASSUME ClientInv, RunnerPrints PROVE ClientInv'
  <1>. DEFINE print == [id |-> NoId, error |-> FALSE, to |-> NoId, garbage |-> TRUE]
  <1>1. UNCHANGED <<client, process, stdin>> /\ stdout' = <<print>> /\ starts \in alive
    BY DEF RunnerPrints
  <1>2. stdout' \in Seq(Frames)
    <2>1. print \in Frames
      BY DEF Frames
    <2>. QED BY <1>1, <2>1
  <1>3. TypeOK'
    BY <1>1, <1>2 DEF ClientInv, TypeOK, client, process
  <1>4. QueueIsThePendingMap' /\ FreshInv' /\ ClosedInv'
    BY <1>1 DEF ClientInv, QueueIsThePendingMap, FreshInv, ClosedInv, client
  <1>5. starts # 0
    BY <1>1 DEF ClientInv, TypeOK
  <1>6. IdleInv'
    BY <1>1, <1>5 DEF ClientInv, IdleInv, client, process
  <1>. QED BY <1>3, <1>4, <1>6 DEF ClientInv

LEMMA ExitsKeepsClient == ASSUME ClientInv, NEW p, Exits(p) PROVE ClientInv'
  <1>1. alive' = alive \ {p} /\ UNCHANGED <<client, starts, doomed, gone, pipes>>
    BY DEF Exits
  <1>2. TypeOK'
    BY <1>1 DEF ClientInv, TypeOK, client, pipes
  <1>3. QueueIsThePendingMap' /\ FreshInv' /\ ClosedInv' /\ IdleInv'
    BY <1>1 DEF ClientInv, QueueIsThePendingMap, FreshInv, ClosedInv, IdleInv, client, pipes
  <1>. QED BY <1>2, <1>3 DEF ClientInv

(* ClientInv is inductive. *)
LEMMA ClientNext == ClientInv /\ [Next]_vars => ClientInv'
  <1>. SUFFICES ASSUME ClientInv, [Next]_vars PROVE ClientInv'
    OBVIOUS
  <1>1. CASE Start
    BY <1>1, StartKeepsClient
  <1>2. CASE Dispose
    BY <1>2, DisposeKeepsClient
  <1>3. CASE OnFrame
    BY <1>3, OnFrameKeepsClient
  <1>4. CASE OnGarbage
    BY <1>4, OnGarbageKeepsClient
  <1>5. CASE WriteFails
    BY <1>5, WriteFailsKeepsClient
  <1>6. CASE ChildGone
    BY <1>6, ChildGoneKeepsClient
  <1>7. CASE RunnerReads
    BY <1>7, RunnerReadsKeepsClient
  <1>8. CASE RunnerPrints
    BY <1>8, RunnerPrintsKeepsClient
  <1>9. CASE \E kind \in Kinds : Call(kind)
    BY <1>9, CallKeepsClient
  <1>10. CASE \E id \in Ids : Timeout(id)
    BY <1>10, TimeoutKeepsClient
  <1>11. CASE \E p \in 1..MaxStarts : Exits(p)
    BY <1>11, ExitsKeepsClient
  <1>12. CASE UNCHANGED vars
    <2>1. UNCHANGED <<client, process, pipes>>
      BY <1>12 DEF vars
    <2>2. TypeOK'
      BY <2>1 DEF ClientInv, TypeOK, client, process, pipes
    <2>3. QueueIsThePendingMap' /\ FreshInv' /\ ClosedInv' /\ IdleInv'
      BY <2>1 DEF ClientInv, QueueIsThePendingMap, FreshInv, ClosedInv, IdleInv, client, process, pipes
    <2>. QED BY <2>2, <2>3 DEF ClientInv
  <1>. QED
    BY <1>1, <1>2, <1>3, <1>4, <1>5, <1>6, <1>7, <1>8, <1>9, <1>10, <1>11, <1>12 DEF Next

LEMMA ClientAlways == Safety => []ClientInv
  BY ClientInit, ClientNext, PTL DEF Safety

(* Every field of the client, the process table and the pipes keep their types. *)
THEOREM ClientTypes == Safety => []TypeOK
  <1>1. ClientInv => TypeOK
    BY DEF ClientInv
  <1>. QED BY <1>1, ClientAlways, PTL

(* pendingOrder lists exactly the keys of the pending map, oldest first, and    *)
(* those are the calls whose promise is open (runner-client.ts 376-395, 460-479). *)
THEOREM QueueMatchesMap == Safety => []QueueIsThePendingMap
  <1>1. ClientInv => QueueIsThePendingMap
    BY DEF ClientInv
  <1>. QED BY <1>1, ClientAlways, PTL

-----------------------------------------------------------------------------
(* What is in the pipes.  A frame that is not garbage is the reply to a line. *)
Answers == {k \in 1..Len(stdout) : ~stdout[k].garbage}

(* Lines wait in the order their ids were given out, and the runner has read    *)
(* them in that order.                                                          *)
LinesInv ==
  /\ \A k \in 1..Len(stdin) : stdin[k].id < nextId /\ stdin[k].kind \notin Misleading
  /\ \A k, l \in 1..Len(stdin) : k < l => stdin[k].id < stdin[l].id

FramesInv ==
  /\ \A k \in Answers : stdout[k].to \in Ids /\ stdout[k].id \in {NoId, stdout[k].to}
  /\ \A k \in Answers : stdout[k].to < nextId
  /\ \A k, l \in Answers : k < l => stdout[k].to < stdout[l].to
  /\ \A k \in Answers, l \in 1..Len(stdin) : stdout[k].to < stdin[l].id

(* On an open client every line and every reply on its way has its call pending. *)
OpenInv ==
  ~dead /\ ~disposed =>
    /\ \A k \in 1..Len(stdin) : stdin[k].id \in pending
    /\ \A k \in Answers : stdout[k].to \in pending

(* A pending call older than the one a reply is for has its own reply before it. *)
BehindInv ==
  \A k \in Answers, p \in pending :
    p < stdout[k].to => \E j \in Answers : j < k /\ stdout[j].to = p

(* While the runner lives, the line or the reply of a pending call is on its way. *)
ReachInv ==
  starts \in alive =>
    \A p \in pending : \/ \E k \in Answers : stdout[k].to = p
                      \/ \E l \in 1..Len(stdin) : stdin[l].id = p

PipeInv == LinesInv /\ FramesInv /\ OpenInv /\ BehindInv /\ ReachInv

LEMMA PipeFacts ==
  ASSUME ClientInv
  PROVE  /\ Len(stdin) \in Nat /\ \A k \in 1..Len(stdin) : stdin[k] \in Lines /\ stdin[k].id \in Nat
         /\ Len(stdout) \in Nat /\ \A k \in 1..Len(stdout) : stdout[k] \in Frames /\ stdout[k].to \in Nat
         /\ pending \subseteq Nat /\ nextId \in Nat /\ NoId = 0
         /\ NoId \notin Ids
  <1>1. stdin \in Seq(Lines) /\ stdout \in Seq(Frames) /\ pending \subseteq Ids /\ nextId \in Nat
    BY ClientAssumption DEF ClientInv, TypeOK
  <1>2. /\ Len(stdin) \in Nat /\ \A k \in 1..Len(stdin) : stdin[k] \in Lines
        /\ Len(stdout) \in Nat /\ \A k \in 1..Len(stdout) : stdout[k] \in Frames
    BY <1>1, LenProperties, ElementOfSeq
  <1>3. Ids \subseteq Nat /\ NoId = 0 /\ NoId \notin Ids
    BY ClientAssumption DEF Ids, NoId
  <1>4. /\ \A line \in Lines : line.id \in Nat
        /\ \A frame \in Frames : frame.to \in Nat
    <2>1. \A line \in Lines : line.id \in Ids
      BY DEF Lines
    <2>2. \A frame \in Frames : frame.to \in Ids \cup {NoId}
      BY DEF Frames
    <2>3. NoId \in Nat
      BY <1>3
    <2>. QED BY <1>3, <2>1, <2>2, <2>3, Zenon
  <1>. QED BY <1>1, <1>2, <1>3, <1>4

LEMMA PipeInit == Init => PipeInv
  BY DEF Init, PipeInv, LinesInv, FramesInv, OpenInv, BehindInv, ReachInv, Answers

(* Closing the client, or leaving it alone, keeps what is said of unchanged pipes. *)
LEMMA SamePipes ==
  ASSUME ClientInv, PipeInv, UNCHANGED <<stdin, stdout, nextId, starts>>,
         starts' \in alive' => starts \in alive,
         UNCHANGED <<pending, dead, disposed>> \/ (pending' = {} /\ (dead' \/ disposed'))
  PROVE  PipeInv'
  BY DEF PipeInv, LinesInv, FramesInv, OpenInv, BehindInv, ReachInv, Answers

(* A frame is delivered: it settles its own call, or the client is closed by then. *)
LEMMA ShorterStdout ==
  ASSUME ClientInv, PipeInv, stdout # <<>>, stdout' = Tail(stdout),
         UNCHANGED <<stdin, nextId, starts, alive>>,
         \/ UNCHANGED <<dead, disposed>> /\ 1 \in Answers /\ pending' = pending \ {stdout[1].to}
         \/ dead' = TRUE /\ pending' = {}
  PROVE  PipeInv'
  <1>1. /\ Len(stdout') = Len(stdout) - 1 /\ Len(stdout) \in Nat
        /\ \A i \in 1..(Len(stdout) - 1) : stdout'[i] = stdout[i + 1]
    <2>1. stdout \in Seq(Frames)
      BY DEF ClientInv, TypeOK
    <2>2. Len(Tail(stdout)) = Len(stdout) - 1 /\ \A i \in 1..Len(Tail(stdout)) : Tail(stdout)[i] = stdout[i + 1]
      BY <2>1, HeadTailProperties
    <2>. QED BY <2>2, PipeFacts
  <1>2. \A k \in Answers' : k + 1 \in Answers /\ stdout'[k] = stdout[k + 1] /\ k \in Nat
    BY <1>1 DEF Answers
  <1>3. \A k \in Answers : k # 1 => k - 1 \in Answers' /\ stdout'[k - 1] = stdout[k] /\ (k - 1) + 1 = k
    <2>1. ASSUME NEW k \in Answers, k # 1
          PROVE  k - 1 \in Answers' /\ stdout'[k - 1] = stdout[k] /\ (k - 1) + 1 = k
      <3>1. k - 1 \in 1..(Len(stdout) - 1) /\ (k - 1) + 1 = k
        BY <1>1, <2>1 DEF Answers
      <3>2. stdout'[k - 1] = stdout[(k - 1) + 1]
        BY <1>1, <3>1
      <3>. QED BY <1>1, <2>1, <3>1, <3>2 DEF Answers
    <2>. QED BY <2>1
  <1>4. pending' \subseteq pending
    OBVIOUS
  <1>5. LinesInv'
    BY DEF PipeInv, LinesInv
  <1>6. FramesInv'
    BY <1>2 DEF PipeInv, FramesInv, Answers
  <1>7. OpenInv'
    <2>1. CASE dead' = TRUE
      BY <2>1 DEF OpenInv
    <2>2. CASE UNCHANGED <<dead, disposed>> /\ 1 \in Answers /\ pending' = pending \ {stdout[1].to}
      <3>1. \A k \in Answers' : stdout'[k].to # stdout[1].to
        BY <1>2, <2>2, PipeFacts DEF PipeInv, FramesInv, Answers
      <3>2. \A k \in 1..Len(stdin) : stdin[k].id # stdout[1].to
        BY <2>2, PipeFacts DEF PipeInv, FramesInv, Answers
      <3>. QED BY <1>2, <2>2, <3>1, <3>2 DEF PipeInv, OpenInv
    <2>. QED BY <2>1, <2>2
  <1>8. \A p \in pending' : 1 \in Answers => stdout[1].to # p
    OBVIOUS
  <1>9. BehindInv'
    <2>1. ASSUME NEW k \in Answers', NEW p \in pending', p < stdout'[k].to
          PROVE  \E j \in Answers' : j < k /\ stdout'[j].to = p
      <3>1. PICK j \in Answers : j < k + 1 /\ stdout[j].to = p
        BY <1>2, <1>4, <2>1 DEF PipeInv, BehindInv
      <3>2. j # 1
        BY <1>8, <3>1
      <3>3. j - 1 \in Answers' /\ stdout'[j - 1].to = p
        BY <1>3, <3>1, <3>2
      <3>4. j - 1 < k
        BY <1>2, <3>1 DEF Answers
      <3>. QED BY <3>3, <3>4
    <2>. QED BY <2>1 DEF BehindInv
  <1>10. ReachInv'
    <2>1. ASSUME starts \in alive, NEW p \in pending', NEW k \in Answers, stdout[k].to = p
          PROVE  \E j \in Answers' : stdout'[j].to = p
      BY <1>3, <1>8, <2>1
    <2>. QED BY <1>4, <2>1 DEF PipeInv, ReachInv
  <1>. QED BY <1>5, <1>6, <1>7, <1>9, <1>10 DEF PipeInv

(* The call a reply settles is the one whose line it answers, if any.           *)
LEMMA TargetIsItsCall ==
  ASSUME ClientInv, PipeInv, OnFrame
  PROVE  /\ 1 \in Answers /\ Head(stdout) = stdout[1]
         /\ Target(Head(stdout)) \in pending => Target(Head(stdout)) = stdout[1].to
         /\ pending' = pending \ {stdout[1].to}
  <1>1. stdout # <<>> /\ stdout \in Seq(Frames) /\ ~Head(stdout).garbage /\ Head(stdout) = stdout[1]
    BY DEF OnFrame, ClientInv, TypeOK
  <1>2. 1 \in 1..Len(stdout)
    BY <1>1, EmptySeq
  <1>3. 1 \in Answers
    BY <1>1, <1>2 DEF Answers
  <1>. DEFINE to == stdout[1].to
              id == Target(stdout[1])
  <1>4. to \in Ids /\ to \in Nat /\ stdout[1].id \in {NoId, to}
    BY <1>3, PipeFacts DEF PipeInv, FramesInv, Answers
  <1>5. dead \/ disposed => pending = {}
    BY DEF ClientInv, ClosedInv
  <1>6. ~dead /\ ~disposed => to \in pending
    BY <1>3 DEF PipeInv, OpenInv
  <1>7. \A p \in pending : ~(p < to)
    BY <1>3 DEF PipeInv, BehindInv, Answers
  <1>8. ASSUME pending # {} PROVE Target(stdout[1]) = to
    <2>1. to \in pending
      BY <1>5, <1>6, <1>8
    <2>2. /\ pending = {order[k] : k \in 1..Len(order)}
          /\ \A k, l \in 1..Len(order) : k < l => order[k] < order[l]
          /\ order \in Seq(Ids) /\ Len(order) \in Nat /\ order # <<>>
      <3>1. /\ pending = {order[k] : k \in 1..Len(order)} /\ order \in Seq(Ids)
            /\ \A k, l \in 1..Len(order) : k < l => order[k] < order[l]
        BY DEF ClientInv, TypeOK, QueueIsThePendingMap
      <3>2. order # <<>>
        BY <1>8, <3>1
      <3>. QED BY <3>1, <3>2, LenProperties
    <2>3. 1 \in 1..Len(order) /\ Head(order) = order[1]
      BY <2>2, EmptySeq
    <2>4. PICK m \in 1..Len(order) : order[m] = to
      BY <2>1, <2>2
    <2>5. order[1] \in pending /\ order[1] \in Nat
      BY <2>2, <2>3, PipeFacts
    <2>6. order[1] = to
      <3>1. CASE m = 1
        BY <2>4, <3>1
      <3>2. CASE m # 1
        BY <1>4, <1>7, <2>2, <2>3, <2>4, <2>5, <3>2
      <3>. QED BY <3>1, <3>2
    <2>7. CASE stdout[1].id = to
      BY <1>4, <2>2, <2>7, PipeFacts DEF Target
    <2>8. CASE stdout[1].id = NoId
      BY <2>2, <2>3, <2>6, <2>8 DEF Target
    <2>. QED BY <1>4, <2>7, <2>8
  <1>9. pending' = pending \ {to}
    <2>1. CASE pending = {}
      BY <1>1, <2>1 DEF OnFrame, RemovePending
    <2>2. CASE pending # {}
      <3>1. Target(Head(stdout)) = to /\ to \in pending
        BY <1>1, <1>5, <1>6, <1>8, <2>2
      <3>. QED BY <3>1 DEF OnFrame, RemovePending
    <2>. QED BY <2>1, <2>2
  <1>. QED BY <1>1, <1>3, <1>8, <1>9

LEMMA OnFrameKeepsPipes == ASSUME ClientInv, PipeInv, OnFrame PROVE PipeInv'
  <1>1. /\ stdout # <<>> /\ stdout' = Tail(stdout)
        /\ UNCHANGED <<dead, disposed, stdin, nextId, starts, alive>>
    BY Zenon DEF OnFrame, process
  <1>. QED BY <1>1, TargetIsItsCall, ShorterStdout

LEMMA OnGarbageKeepsPipes == ASSUME ClientInv, PipeInv, OnGarbage PROVE PipeInv'
  <1>1. stdout # <<>> /\ stdout' = Tail(stdout) /\ UNCHANGED <<stdin, nextId, starts, alive>>
    BY Zenon DEF OnGarbage, process
  <1>2. dead' = TRUE /\ pending' = {}
    BY MarkDeadFacts DEF OnGarbage
  <1>. QED BY <1>1, <1>2, ShorterStdout

LEMMA DisposeKeepsPipes == ASSUME ClientInv, PipeInv, Dispose PROVE PipeInv'
  <1>1. pending' = {} /\ disposed' = TRUE /\ stdin' = <<>> /\ stdout' = <<>>
    BY DEF Dispose, FailAllPending
  <1>. QED BY <1>1 DEF PipeInv, LinesInv, FramesInv, OpenInv, BehindInv, ReachInv, Answers

(* A new line goes behind all the others, with the greatest id. *)
LEMMA IssueKeepsPipes ==
  ASSUME ClientInv, PipeInv, NEW kind \in AllKinds \ Misleading, NEW target, Issue(kind, target),
         UNCHANGED <<dead, disposed, stdout>>,
         starts' \in alive' => starts \in alive \/ pending = {}
  PROVE  PipeInv'
  <1>1. nextId \in Nat /\ nextId' = nextId + 1
    BY PipeFacts DEF Issue
  <1>2. CASE UNCHANGED <<stdin, pending>>
    <2>0. UNCHANGED stdin /\ nextId < nextId'
      BY <1>1, <1>2
    <2>3. LinesInv'
      BY <1>1, <2>0, PipeFacts DEF PipeInv, LinesInv
    <2>4. FramesInv'
      BY <1>1, <2>0, PipeFacts DEF PipeInv, FramesInv, Answers
    <2>1. LinesInv' /\ FramesInv'
      BY <2>3, <2>4
    <2>2. OpenInv' /\ BehindInv' /\ ReachInv'
      BY <1>2 DEF PipeInv, OpenInv, BehindInv, ReachInv, Answers
    <2>. QED BY <2>1, <2>2 DEF PipeInv
  <1>3. CASE ~UNCHANGED <<stdin, pending>>
    <2>. DEFINE line == [id |-> nextId, kind |-> kind]
    <2>1. /\ ~dead /\ ~disposed /\ stdin' = Append(stdin, line) /\ line \in Lines
          /\ pending' = pending \cup {nextId} /\ stdin \in Seq(Lines)
      BY <1>3, IssueTypesStdin DEF ClientInv, TypeOK
    <2>2. /\ Len(stdin) \in Nat /\ Len(stdin') = Len(stdin) + 1
          /\ stdin'[Len(stdin) + 1] = line
          /\ \A k \in 1..Len(stdin) : stdin'[k] = stdin[k]
      BY <2>1, AppendProperties, LenProperties
    <2>3. line.id = nextId /\ line.kind \notin Misleading
      OBVIOUS
    <2>. HIDE DEF line
    <2>4. \A k \in 1..Len(stdin') : k \in 1..Len(stdin) \/ k = Len(stdin) + 1
      BY <2>2
    <2>5. LinesInv'
      <3>1. ASSUME NEW k \in 1..Len(stdin')
            PROVE  stdin'[k].id < nextId' /\ stdin'[k].kind \notin Misleading
        <4>1. CASE k \in 1..Len(stdin)
          BY <1>1, <2>2, <4>1, PipeFacts DEF PipeInv, LinesInv
        <4>2. CASE k = Len(stdin) + 1
          BY <1>1, <2>2, <2>3, <4>2
        <4>. QED BY <2>4, <4>1, <4>2
      <3>2. ASSUME NEW k \in 1..Len(stdin'), NEW l \in 1..Len(stdin'), k < l
            PROVE  stdin'[k].id < stdin'[l].id
        <4>1. k \in 1..Len(stdin)
          BY <2>2, <3>2
        <4>2. CASE l \in 1..Len(stdin)
          BY <2>2, <3>2, <4>1, <4>2 DEF PipeInv, LinesInv
        <4>3. CASE l = Len(stdin) + 1
          BY <2>2, <2>3, <4>1, <4>3 DEF PipeInv, LinesInv
        <4>. QED BY <2>4, <4>2, <4>3
      <3>. QED BY <3>1, <3>2 DEF LinesInv
    <2>6. FramesInv'
      <3>1. \A k \in Answers : stdout[k].to < nextId /\ stdout[k].to \in Nat
        BY PipeFacts DEF PipeInv, FramesInv, Answers
      <3>2. \A k \in Answers : stdout[k].to < nextId'
        BY <1>1, <3>1
      <3>3. ASSUME NEW k \in Answers, NEW l \in 1..Len(stdin') PROVE stdout[k].to < stdin'[l].id
        <4>1. CASE l \in 1..Len(stdin)
          BY <2>2, <4>1 DEF PipeInv, FramesInv
        <4>2. CASE l = Len(stdin) + 1
          BY <2>2, <2>3, <3>1, <4>2
        <4>. QED BY <2>4, <4>1, <4>2
      <3>. QED BY <3>2, <3>3 DEF PipeInv, FramesInv, Answers
    <2>7. OpenInv'
      BY <2>1, <2>2, <2>3, <2>4 DEF PipeInv, OpenInv, Answers
    <2>8. BehindInv'
      <3>1. \A k \in Answers : ~(nextId < stdout[k].to)
        BY <1>1, PipeFacts DEF PipeInv, FramesInv, Answers
      <3>. QED BY <2>1, <3>1 DEF PipeInv, BehindInv, Answers
    <2>9. ReachInv'
      <3>1. ASSUME starts' \in alive', NEW p \in pending'
            PROVE  \/ \E k \in Answers : stdout[k].to = p
                   \/ \E l \in 1..Len(stdin') : stdin'[l].id = p
        <4>1. CASE p = nextId
          <5>1. Len(stdin) + 1 \in 1..Len(stdin')
            BY <2>2
          <5>. QED BY <2>2, <2>3, <4>1, <5>1
        <4>2. CASE p \in pending
          <5>1. \A l \in 1..Len(stdin) : l \in 1..Len(stdin')
            BY <2>2
          <5>. QED BY <2>2, <3>1, <4>2, <5>1 DEF PipeInv, ReachInv
        <4>. QED BY <2>1, <4>1, <4>2
      <3>. QED BY <3>1 DEF ReachInv, Answers
    <2>. QED BY <2>5, <2>6, <2>7, <2>8, <2>9 DEF PipeInv
  <1>. QED BY <1>2, <1>3

LEMMA StartKeepsPipes == ASSUME ClientInv, PipeInv, Start PROVE PipeInv'
  <1>3. "call" \in AllKinds \ Misleading
    BY DEF AllKinds, Misleading
  <1>1. /\ Issue("call", starts') /\ child = 0
        /\ UNCHANGED <<dead, disposed, stdout>>
    BY Zenon DEF Start
  <1>2. pending = {}
    BY <1>1 DEF ClientInv, ClosedInv, IdleInv
  <1>. QED BY <1>1, <1>2, <1>3, IssueKeepsPipes

LEMMA CallKeepsPipes ==
  ASSUME ClientInv, PipeInv, Kinds \cap Misleading = {}, NEW kind \in Kinds, Call(kind)
  PROVE  PipeInv'
  <1>1. kind \in AllKinds \ Misleading /\ Issue(kind, child)
    BY ClientAssumption DEF Call
  <1>2. UNCHANGED <<dead, disposed, stdout, starts, alive>>
    BY DEF Call, process
  <1>. QED BY <1>1, <1>2, IssueKeepsPipes

LEMMA ShorterStdin ==
  ASSUME ClientInv, stdin # <<>>, stdin' = Tail(stdin)
  PROVE  /\ 1 \in 1..Len(stdin) /\ Head(stdin) = stdin[1] /\ Len(stdin') = Len(stdin) - 1
         /\ \A k \in 1..Len(stdin') : /\ stdin'[k] = stdin[k + 1] /\ k + 1 \in 1..Len(stdin)
                                     /\ 1 < k + 1
         /\ \A k \in 1..Len(stdin) : k # 1 => k - 1 \in 1..Len(stdin') /\ stdin'[k - 1] = stdin[k]
  <1>1. stdin \in Seq(Lines) /\ Len(stdin) \in Nat /\ 1 \in 1..Len(stdin) /\ Head(stdin) = stdin[1]
    BY EmptySeq, LenProperties DEF ClientInv, TypeOK
  <1>2. Len(stdin') = Len(stdin) - 1 /\ \A k \in 1..Len(stdin') : stdin'[k] = stdin[k + 1]
    BY <1>1, HeadTailProperties
  <1>3. \A k \in 1..Len(stdin') : k + 1 \in 1..Len(stdin) /\ 1 < k + 1
    BY <1>1, <1>2
  <1>4. ASSUME NEW k \in 1..Len(stdin), k # 1
        PROVE  k - 1 \in 1..Len(stdin') /\ stdin'[k - 1] = stdin[k]
    <2>1. k - 1 \in 1..Len(stdin') /\ (k - 1) + 1 = k
      BY <1>1, <1>2, <1>4
    <2>. QED BY <1>2, <2>1
  <1>. QED BY <1>1, <1>2, <1>3, <1>4

LEMMA WriteFailsKeepsPipes == ASSUME ClientInv, PipeInv, WriteFails PROVE PipeInv'
  <1>1. /\ stdin # <<>> /\ stdin' = Tail(stdin) /\ starts \notin alive
        /\ UNCHANGED <<dead, disposed, nextId, starts, alive, stdout>>
    BY Zenon DEF WriteFails, process
  <1>2. pending' = pending \ {stdin[1].id}
    <2>1. Head(stdin) = stdin[1]
      BY <1>1, ShorterStdin
    <2>. QED BY <2>1 DEF WriteFails, RemovePending
  <1>3. LinesInv'
    BY <1>1, ShorterStdin DEF PipeInv, LinesInv
  <1>4. FramesInv'
    BY <1>1, ShorterStdin DEF PipeInv, FramesInv, Answers
  <1>5. OpenInv'
    <2>1. \A k \in 1..Len(stdin') : stdin'[k].id # stdin[1].id
      BY <1>1, ShorterStdin, PipeFacts DEF PipeInv, LinesInv
    <2>2. \A k \in Answers : stdout[k].to # stdin[1].id
      BY <1>1, ShorterStdin, PipeFacts DEF PipeInv, FramesInv, Answers
    <2>. QED BY <1>1, <1>2, <2>1, <2>2, ShorterStdin DEF PipeInv, OpenInv, Answers
  <1>6. BehindInv' /\ ReachInv'
    BY <1>1, <1>2 DEF PipeInv, BehindInv, ReachInv, Answers
  <1>. QED BY <1>3, <1>4, <1>5, <1>6 DEF PipeInv

(* The runner takes the oldest line, and answers behind everything it said.     *)
LEMMA RunnerReadsKeepsPipes == ASSUME ClientInv, PipeInv, RunnerReads PROVE PipeInv'
  <1>. DEFINE line == stdin[1]
  <1>1. /\ stdin # <<>> /\ stdin' = Tail(stdin) /\ starts \in alive
        /\ UNCHANGED <<dead, disposed, nextId, pending, starts>>
    BY RunnerReadsFacts, Zenon DEF client
  <1>2. line = Head(stdin) /\ line.kind \notin Misleading /\ line.id \in Ids /\ line.id < nextId
    BY <1>1, ShorterStdin, PipeFacts DEF PipeInv, LinesInv, Lines
  <1>3. \A k \in 1..Len(stdin') : line.id < stdin'[k].id
    BY <1>1, ShorterStdin DEF PipeInv, LinesInv
  <1>4. LinesInv'
    BY <1>1, ShorterStdin DEF PipeInv, LinesInv
  <1>5. CASE UNCHANGED stdout /\ alive' = alive \ {starts}
    <2>1. FramesInv'
      BY <1>1, <1>5, ShorterStdin DEF PipeInv, FramesInv, Answers
    <2>2. OpenInv'
      BY <1>1, <1>5, ShorterStdin DEF PipeInv, OpenInv, Answers
    <2>3. BehindInv' /\ ReachInv'
      BY <1>1, <1>5 DEF PipeInv, BehindInv, ReachInv, Answers
    <2>. QED BY <1>4, <2>1, <2>2, <2>3 DEF PipeInv
  <1>6. CASE /\ UNCHANGED alive
             /\ \E id \in {NoId, line.id}, error \in BOOLEAN :
                  stdout' = Append(stdout, Reply(line, id, error))
    <2>1. PICK id \in {NoId, line.id}, error \in BOOLEAN :
            stdout' = Append(stdout, Reply(line, id, error))
      BY <1>6
    <2>. DEFINE frame == Reply(line, id, error)
                last == Len(stdout) + 1
    <2>2. frame.to = line.id /\ frame.id \in {NoId, line.id} /\ ~frame.garbage /\ frame \in Frames
      BY <1>2 DEF Reply, Frames
    <2>3. stdout \in Seq(Frames) /\ Len(stdout) \in Nat
      BY PipeFacts DEF ClientInv, TypeOK
    <2>4. /\ Len(stdout') = last /\ stdout'[last] = frame /\ last \in Nat
          /\ \A k \in 1..Len(stdout) : stdout'[k] = stdout[k]
      <3>. HIDE DEF frame
      <3>. QED BY <2>1, <2>2, <2>3, AppendProperties DEF frame
    <2>. HIDE DEF frame
    <2>5. /\ last \in Answers' /\ \A k \in Answers : k \in Answers' /\ k < last /\ stdout'[k] = stdout[k]
          /\ \A k \in Answers' : k \in Answers \/ k = last
      BY <2>2, <2>3, <2>4 DEF Answers
    <2>. HIDE DEF last
    <2>6. /\ stdout'[last].to = line.id /\ stdout'[last].id \in {NoId, line.id}
      BY <2>2, <2>4
    <2>7. \A k \in Answers : stdout[k].to < line.id
      BY <1>1, ShorterStdin DEF PipeInv, FramesInv
    <2>8. FramesInv'
      <3>1. \A k \in Answers' : stdout'[k].to \in Ids /\ stdout'[k].id \in {NoId, stdout'[k].to}
        BY <1>2, <2>5, <2>6 DEF PipeInv, FramesInv
      <3>2. \A k \in Answers' : stdout'[k].to < nextId
        BY <1>2, <2>5, <2>6 DEF PipeInv, FramesInv
      <3>3. ASSUME NEW k \in Answers', NEW l \in Answers', k < l
            PROVE  stdout'[k].to < stdout'[l].to
        <4>1. k \in Answers
          BY <2>5, <3>3 DEF Answers
        <4>2. CASE l \in Answers
          BY <2>5, <3>3, <4>1, <4>2 DEF PipeInv, FramesInv
        <4>3. CASE l = last
          BY <2>5, <2>6, <2>7, <4>1, <4>3
        <4>. QED BY <2>5, <4>2, <4>3
      <3>4. ASSUME NEW k \in Answers', NEW l \in 1..Len(stdin')
            PROVE  stdout'[k].to < stdin'[l].id
        <4>1. CASE k \in Answers
          BY <1>1, <2>5, <4>1, ShorterStdin DEF PipeInv, FramesInv
        <4>2. CASE k = last
          BY <1>3, <2>6, <4>2
        <4>. QED BY <2>5, <4>1, <4>2
      <3>. QED BY <1>1, <3>1, <3>2, <3>3, <3>4 DEF FramesInv
    <2>9. OpenInv'
      <3>1. ~dead /\ ~disposed => line.id \in pending
        BY <1>1, ShorterStdin DEF PipeInv, OpenInv
      <3>2. ~dead /\ ~disposed => \A k \in Answers' : stdout'[k].to \in pending
        BY <2>5, <2>6, <3>1 DEF PipeInv, OpenInv
      <3>. QED BY <1>1, <3>2, ShorterStdin DEF PipeInv, OpenInv
    <2>10. BehindInv'
      <3>1. ASSUME NEW k \in Answers', NEW p \in pending, p < stdout'[k].to
            PROVE  \E j \in Answers' : j < k /\ stdout'[j].to = p
        <4>1. CASE k \in Answers
          <5>1. PICK j \in Answers : j < k /\ stdout[j].to = p
            BY <2>5, <3>1, <4>1 DEF PipeInv, BehindInv
          <5>. QED BY <2>5, <5>1
        <4>2. CASE k = last
          <5>1. p < line.id /\ p \in Nat
            BY <2>6, <3>1, <4>2, PipeFacts
          <5>2. \A l \in 1..Len(stdin) : stdin[l].id # p
            <6>1. \A l \in 1..Len(stdin) : l = 1 \/ line.id < stdin[l].id
              BY <1>1, <1>3, ShorterStdin
            <6>. QED BY <5>1, <6>1, PipeFacts
          <5>3. PICK j \in Answers : stdout[j].to = p
            BY <1>1, <5>2 DEF PipeInv, ReachInv
          <5>. QED BY <2>5, <4>2, <5>3
        <4>. QED BY <2>5, <4>1, <4>2
      <3>. QED BY <1>1, <3>1 DEF BehindInv
    <2>11. ReachInv'
      <3>1. ASSUME NEW p \in pending
            PROVE  \/ \E k \in Answers' : stdout'[k].to = p
                   \/ \E l \in 1..Len(stdin') : stdin'[l].id = p
        <4>1. CASE \E k \in Answers : stdout[k].to = p
          BY <2>5, <4>1
        <4>2. CASE \E l \in 1..Len(stdin) : stdin[l].id = p
          <5>1. PICK l \in 1..Len(stdin) : stdin[l].id = p
            BY <4>2
          <5>2. CASE l = 1
            BY <2>5, <2>6, <5>1, <5>2
          <5>3. CASE l # 1
            BY <1>1, <5>1, <5>3, ShorterStdin
          <5>. QED BY <5>2, <5>3
        <4>. QED BY <1>1, <4>1, <4>2 DEF PipeInv, ReachInv
      <3>. QED BY <1>1, <3>1 DEF ReachInv
    <2>. QED BY <1>4, <2>8, <2>9, <2>10, <2>11 DEF PipeInv
  <1>7. line.kind # "foreign" /\ line.kind # "blank"
    BY <1>2 DEF Misleading
  <1>. QED BY <1>2, <1>5, <1>6, <1>7, RunnerReadsFacts

LEMMA RunnerPrintsKeepsPipes == ASSUME ClientInv, PipeInv, RunnerPrints PROVE PipeInv'
  <1>1. /\ UNCHANGED <<client, process, stdin>> /\ stdout = <<>>
        /\ stdout' = <<[id |-> NoId, error |-> FALSE, to |-> NoId, garbage |-> TRUE]>>
    BY DEF RunnerPrints
  <1>2. Answers = {} /\ Answers' = {}
    BY <1>1 DEF Answers
  <1>. QED
    BY <1>1, <1>2 DEF PipeInv, LinesInv, FramesInv, OpenInv, BehindInv, ReachInv, client, process

(* IInv is inductive, where no misleading line is sent. *)
IInv == ClientInv /\ PipeInv

LEMMA PipeNext ==
  ASSUME Kinds \cap Misleading = {}, ClientInv, PipeInv, [Next]_vars
  PROVE  PipeInv'
  <1>1. CASE Start
    BY <1>1, StartKeepsPipes
  <1>2. CASE Dispose
    BY <1>2, DisposeKeepsPipes
  <1>3. CASE OnFrame
    BY <1>3, OnFrameKeepsPipes
  <1>4. CASE OnGarbage
    BY <1>4, OnGarbageKeepsPipes
  <1>5. CASE WriteFails
    BY <1>5, WriteFailsKeepsPipes
  <1>6. CASE ChildGone
    <2>1. UNCHANGED <<stdin, stdout, nextId, starts, alive, disposed>>
      BY <1>6 DEF ChildGone, pipes
    <2>2. UNCHANGED <<pending, dead>> \/ (pending' = {} /\ dead' = TRUE)
      BY <1>6, MarkDeadFacts DEF ChildGone
    <2>. QED BY <2>1, <2>2, SamePipes
  <1>7. CASE RunnerReads
    BY <1>7, RunnerReadsKeepsPipes
  <1>8. CASE RunnerPrints
    BY <1>8, RunnerPrintsKeepsPipes
  <1>9. CASE \E kind \in Kinds : Call(kind)
    BY <1>9, CallKeepsPipes
  <1>10. CASE \E id \in Ids : Timeout(id)
    <2>1. UNCHANGED <<stdin, stdout, nextId, starts, alive>> /\ pending' = {} /\ dead' = TRUE
      BY <1>10 DEF Timeout, FailAllPending, pipes, process
    <2>. QED BY <2>1, SamePipes
  <1>11. CASE \E p \in 1..MaxStarts : Exits(p)
    <2>1. /\ UNCHANGED <<stdin, stdout, nextId, starts, pending, dead, disposed>>
          /\ alive' \subseteq alive
      BY <1>11 DEF Exits, client, pipes
    <2>. QED BY <2>1, SamePipes
  <1>12. CASE UNCHANGED vars
    <2>1. UNCHANGED <<stdin, stdout, nextId, starts, alive, pending, dead, disposed>>
      BY <1>12 DEF vars, client, process, pipes
    <2>. QED BY <2>1, SamePipes
  <1>. QED
    BY <1>1, <1>2, <1>3, <1>4, <1>5, <1>6, <1>7, <1>8, <1>9, <1>10, <1>11, <1>12 DEF Next

LEMMA InvAlways == ASSUME Kinds \cap Misleading = {} PROVE Safety => []IInv
  <1>1. Init => IInv
    BY ClientInit, PipeInit DEF IInv
  <1>2. IInv /\ [Next]_vars => IInv'
    BY ClientNext, PipeNext DEF IInv
  <1>. QED BY <1>1, <1>2, PTL DEF Safety

-----------------------------------------------------------------------------
(* The refinement of CallContract. *)
Statuses == [i \in Ids |-> Status(i)]
Closed == dead \/ disposed

LEMMA ContractInit == Init => Contract!Init
  <1>. SUFFICES ASSUME Init PROVE Contract!Init
    OBVIOUS
  <1>1. Statuses = [c \in Ids |-> "new"]
    BY DEF Init, Statuses, Status
  <1>2. (dead \/ disposed) = FALSE
    BY Zenon DEF Init
  <1>. QED BY <1>1, <1>2, Zenon DEF Contract!Init, Statuses

LEMMA SameStatus ==
  ASSUME NEW i, fate'[i] = fate[i], by'[i] = by[i]
  PROVE  Status(i)' = Status(i)
  BY DEF Status

(* One call changes its status. *)
LEMMA OneStatusChanges ==
  ASSUME NEW id \in Ids, \A i \in Ids \ {id} : fate'[i] = fate[i] /\ by'[i] = by[i]
  PROVE  Statuses' = [Statuses EXCEPT ![id] = Status(id)']
  <1>1. \A i \in Ids \ {id} : Status(i)' = Status(i)
    BY SameStatus
  <1>. QED BY <1>1 DEF Statuses

LEMMA StutterOfClient ==
  ASSUME UNCHANGED <<fate, by, dead, disposed>>
  PROVE  UNCHANGED <<Statuses, Closed>>
  <1>1. \A i \in Ids : Status(i)' = Status(i)
    BY SameStatus
  <1>2. UNCHANGED Statuses
    BY <1>1 DEF Statuses
  <1>3. UNCHANGED Closed
    BY DEF Closed
  <1>. QED BY <1>2, <1>3

ContractStep == [Contract!Next]_<<Statuses, Closed>>

(* Whatever closes the client fails what is open; on a closed one it does nothing. *)
LEMMA ClosingIsClose ==
  ASSUME ClientInv, dead' \/ disposed', UNCHANGED by,
         \A i \in Ids \ pending : fate'[i] = fate[i],
         \A i \in pending : fate'[i] \in {"timeout", "dead", "disposed"}
  PROVE  ContractStep
  <1>1. /\ pending = {i \in Ids : fate[i] = "open"} /\ pending \subseteq Ids
        /\ dead \in BOOLEAN /\ disposed \in BOOLEAN
    BY DEF ClientInv, TypeOK, QueueIsThePendingMap
  <1>2. Closed' = TRUE
    BY DEF Closed
  <1>3. \A i \in Ids \ pending : Status(i)' = Status(i) /\ Status(i) # "open"
    <2>1. ASSUME NEW i \in Ids \ pending PROVE Status(i)' = Status(i) /\ Status(i) # "open"
      <3>1. fate'[i] = fate[i] /\ by'[i] = by[i] /\ fate[i] # "open"
        BY <1>1
      <3>. QED BY <3>1, SameStatus DEF Status
    <2>. QED BY <2>1
  <1>4. CASE Closed
    <2>1. pending = {}
      BY <1>4 DEF ClientInv, ClosedInv, Closed
    <2>2. UNCHANGED Statuses
      BY <1>3, <2>1 DEF Statuses
    <2>3. UNCHANGED Closed
      BY <1>2, <1>4 DEF Closed
    <2>. QED BY <2>2, <2>3 DEF ContractStep
  <1>5. CASE ~Closed
    <2>1. \A i \in pending : Status(i) = "open" /\ Status(i)' = "failed"
      BY <1>1 DEF Status
    <2>2. Statuses' = [c \in Ids |-> IF Statuses[c] = "open" THEN "failed" ELSE Statuses[c]]
      BY <1>1, <1>3, <2>1 DEF Statuses
    <2>3. Contract!Close
      BY <1>2, <1>5, <2>2, Zenon DEF Contract!Close, Statuses, Closed
    <2>. QED BY <2>3 DEF ContractStep, Contract!Next
  <1>. QED BY <1>4, <1>5

LEMMA IssueIsOpenOrRefuse ==
  ASSUME ClientInv, NEW kind, NEW target, Issue(kind, target), UNCHANGED <<dead, disposed, by>>
  PROVE  ContractStep
  <1>1. nextId \in Ids /\ fate[nextId] = "new" /\ fate \in [Ids -> Fates]
    BY PromisesOfClientInv, IssueKeepsPromises DEF ClientInv, TypeOK, FreshInv
  <1>2. UNCHANGED Closed
    BY DEF Closed
  <1>. PICK id \in Ids : id = nextId
    BY <1>1
  <1>3. Statuses[id] = "new"
    BY <1>1 DEF Statuses, Status
  <1>4. CASE fate' = [fate EXCEPT ![nextId] = "refused"]
    <2>0. fate'[id] = "refused"
      BY <1>1, <1>4
    <2>1. Status(id)' = "failed"
      BY <2>0 DEF Status
    <2>2. \A i \in Ids \ {id} : fate'[i] = fate[i] /\ by'[i] = by[i]
      BY <1>1, <1>4
    <2>3. Statuses' = [Statuses EXCEPT ![id] = "failed"]
      BY <2>1, <2>2, OneStatusChanges
    <2>4. Contract!Refuse(id)
      BY <1>2, <1>3, <2>3, Zenon DEF Contract!Refuse, Contract!Become, Statuses, Closed
    <2>. QED BY <2>4 DEF ContractStep, Contract!Next
  <1>5. CASE ~dead /\ ~disposed /\ fate' = [fate EXCEPT ![nextId] = "open"]
    <2>0. fate'[id] = "open"
      BY <1>1, <1>5
    <2>1. Status(id)' = "open"
      BY <2>0 DEF Status
    <2>2. \A i \in Ids \ {id} : fate'[i] = fate[i] /\ by'[i] = by[i]
      BY <1>1, <1>5
    <2>3. Statuses' = [Statuses EXCEPT ![id] = "open"]
      BY <2>1, <2>2, OneStatusChanges
    <2>4. Contract!Open(id)
      BY <1>2, <1>3, <1>5, <2>3, Zenon DEF Contract!Open, Contract!Become, Statuses, Closed
    <2>. QED BY <2>4 DEF ContractStep, Contract!Next
  <1>. QED BY <1>4, <1>5 DEF Issue

LEMMA OnFrameIsAnswer == ASSUME ClientInv, PipeInv, OnFrame PROVE ContractStep
  <1>1. UNCHANGED <<dead, disposed>>
    BY Zenon DEF OnFrame
  <1>2. UNCHANGED Closed
    BY <1>1 DEF Closed
  <1>. DEFINE id == Target(Head(stdout))
  <1>3. CASE id \notin pending
    <2>1. UNCHANGED <<fate, by>>
      BY <1>3 DEF OnFrame
    <2>. QED BY <1>1, <2>1, StutterOfClient DEF ContractStep
  <1>4. CASE id \in pending
    <2>1. id = Head(stdout).to
      BY <1>4, TargetIsItsCall
    <2>2. /\ by' = [by EXCEPT ![id] = id]
          /\ \E f \in {"ok", "rpcError"} : fate' = [fate EXCEPT ![id] = f]
      BY <1>4, <2>1 DEF OnFrame
    <2>3. id \in Ids /\ fate[id] = "open" /\ fate \in [Ids -> Fates] /\ by \in [Ids -> Ids \cup {NoId}]
      BY <1>4 DEF ClientInv, TypeOK, QueueIsThePendingMap
    <2>. HIDE DEF id
    <2>. PICK call \in Ids : call = id
      BY <2>3
    <2>4. /\ fate'[call] \in {"ok", "rpcError"} /\ by'[call] = call
          /\ \A i \in Ids \ {call} : fate'[i] = fate[i] /\ by'[i] = by[i]
      BY <2>2, <2>3
    <2>5. Status(call)' = "answered"
      BY <2>4 DEF Status
    <2>6. Statuses' = [Statuses EXCEPT ![call] = "answered"]
      BY <2>4, <2>5, OneStatusChanges
    <2>7. Statuses[call] = "open"
      BY <2>3 DEF Statuses, Status
    <2>8. Contract!Answer(call)
      BY <1>2, <2>6, <2>7, Zenon DEF Contract!Answer, Contract!Become, Statuses, Closed
    <2>. QED BY <2>8 DEF ContractStep, Contract!Next
  <1>. QED BY <1>3, <1>4

LEMMA WriteFailsIsFail == ASSUME ClientInv, WriteFails PROVE ContractStep
  <1>1. UNCHANGED <<dead, disposed, by>>
    BY Zenon DEF WriteFails
  <1>2. UNCHANGED Closed
    BY <1>1 DEF Closed
  <1>. DEFINE id == Head(stdin).id
  <1>3. CASE id \notin pending
    <2>1. UNCHANGED fate
      BY <1>3 DEF WriteFails
    <2>. QED BY <1>1, <2>1, StutterOfClient DEF ContractStep
  <1>4. CASE id \in pending
    <2>1. fate' = [fate EXCEPT ![id] = "writeError"]
      BY <1>4 DEF WriteFails
    <2>2. id \in Ids /\ fate[id] = "open" /\ fate \in [Ids -> Fates]
      BY <1>4 DEF ClientInv, TypeOK, QueueIsThePendingMap
    <2>. HIDE DEF id
    <2>. PICK call \in Ids : call = id
      BY <2>2
    <2>3. fate'[call] = "writeError" /\ \A i \in Ids \ {call} : fate'[i] = fate[i] /\ by'[i] = by[i]
      BY <1>1, <2>1, <2>2
    <2>4. Status(call)' = "failed"
      BY <2>3 DEF Status
    <2>5. Statuses' = [Statuses EXCEPT ![call] = "failed"]
      BY <2>3, <2>4, OneStatusChanges
    <2>6. Statuses[call] = "open"
      BY <2>2 DEF Statuses, Status
    <2>7. Contract!Fail(call)
      BY <1>2, <2>5, <2>6, Zenon DEF Contract!Fail, Contract!Become, Statuses, Closed
    <2>. QED BY <2>7 DEF ContractStep, Contract!Next
  <1>. QED BY <1>3, <1>4

LEMMA StepKeepsContract ==
  ASSUME ClientInv, PipeInv, [Next]_vars
  PROVE  ContractStep
  <1>1. CASE Start
    <2>1. Issue("call", starts') /\ UNCHANGED <<dead, disposed, by>>
      BY <1>1, Zenon DEF Start
    <2>. QED BY <2>1, IssueIsOpenOrRefuse
  <1>2. CASE Dispose
    <2>1. /\ disposed' = TRUE /\ UNCHANGED by /\ FailAllPending(NoId, "disposed", "disposed")
      BY <1>2, Zenon DEF Dispose
    <2>2. /\ \A i \in Ids \ pending : fate'[i] = fate[i]
          /\ \A i \in pending : fate'[i] = "disposed"
      BY <2>1, PromisesOfClientInv, FailAllKeepsPromises DEF Fates
    <2>. QED BY <2>1, <2>2, ClosingIsClose
  <1>3. CASE OnFrame
    BY <1>3, OnFrameIsAnswer
  <1>4. CASE OnGarbage
    <2>1. UNCHANGED by /\ MarkDead
      BY <1>4 DEF OnGarbage
    <2>. QED BY <2>1, MarkDeadFacts, ClosingIsClose
  <1>5. CASE WriteFails
    BY <1>5, WriteFailsIsFail
  <1>6. CASE ChildGone
    <2>1. UNCHANGED <<by, disposed>>
      BY <1>6 DEF ChildGone
    <2>2. CASE MarkDead
      BY <2>1, <2>2, MarkDeadFacts, ClosingIsClose
    <2>3. CASE UNCHANGED <<dead, fate>>
      BY <2>1, <2>3, StutterOfClient DEF ContractStep
    <2>. QED BY <1>6, <2>2, <2>3 DEF ChildGone
  <1>7. CASE \E kind \in Kinds : Call(kind)
    BY <1>7, IssueIsOpenOrRefuse DEF Call
  <1>8. CASE \E id \in Ids : Timeout(id)
    <2>1. PICK id \in Ids : Timeout(id)
      BY <1>8
    <2>2. /\ dead' = TRUE /\ UNCHANGED by /\ id \in pending /\ FailAllPending(id, "timeout", "dead")
      BY <2>1 DEF Timeout
    <2>3. /\ \A i \in Ids \ pending : fate'[i] = fate[i]
          /\ \A i \in pending : fate'[i] \in {"timeout", "dead"}
      BY <2>2, PromisesOfClientInv, FailAllKeepsPromises DEF Fates
    <2>. QED BY <2>2, <2>3, ClosingIsClose
  <1>9. CASE RunnerReads \/ RunnerPrints \/ (\E p \in 1..MaxStarts : Exits(p)) \/ UNCHANGED vars
    <2>1. UNCHANGED <<fate, by, dead, disposed>>
      BY <1>9 DEF RunnerReads, RunnerPrints, Exits, vars, client
    <2>. QED BY <2>1, StutterOfClient DEF ContractStep
  <1>. QED
    BY <1>1, <1>2, <1>3, <1>4, <1>5, <1>6, <1>7, <1>8, <1>9 DEF Next

(* The client keeps the contract of CallContract, for any number of calls in    *)
(* flight, as long as no blank and no foreign line is sent (runner-client.ts 355-395, 420-479). *)
THEOREM ImplementsCallContract ==
  ASSUME Kinds \cap Misleading = {}
  PROVE  Safety => KeepsContract
  <1>1. IInv /\ [Next]_vars => ContractStep
    BY StepKeepsContract DEF IInv
  <1>2. Safety => []IInv
    BY InvAlways
  <1>. QED
    BY <1>1, <1>2, ContractInit, PTL DEF Safety, KeepsContract, Contract!Spec, ContractStep, Statuses, Closed
=============================================================================
