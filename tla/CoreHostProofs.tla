--------------------------- MODULE CoreHostProofs ---------------------------
(***************************************************************************)
(* Theorems about CoreHost, for every value of its constants: any number   *)
(* of callers, requests and runners, any documents and inputs.             *)
(***************************************************************************)
EXTENDS HostService, TLAPS

(* The bridge owns a process: the one in its slot, or the one starting. *)
Owned == slot # 0 \/ pc = "handshake"

(* Where the lock holder is decides what the bridge holds. *)
ControlInv ==
  /\ pc = "idle" <=> lock = NoCaller
  /\ lock \in Callers => call[lock] # NoRequest
  /\ pc \in {"spawn", "handshake"} => slot = 0
  /\ pc \in {"send", "receive"} => slot # 0
  /\ slot # 0 => slot = runner
  /\ pc = "handshake" => runner # 0
  /\ alive \subseteq (IF Owned THEN {runner} ELSE {})

ReportInv ==
  \A r \in Runners :
    reports[r] = IF r < runner \/ (r = runner /\ ~Owned) THEN 1 ELSE 0

(* The reply on its way. *)
Replied == pc = "receive" /\ stdout # <<>>
Answering == Head(stdout).reply

(* The frame in flight. *)
Pending == IF pc = "handshake" THEN Handshake ELSE call[lock]

(* Between two requests both pipes are empty; during one, at most one of   *)
(* them holds something, and that is the frame sent or the reply to it.    *)
PipeInv ==
  /\ pc \notin {"handshake", "receive"} => stdin = <<>> /\ stdout = <<>>
  /\ stdin # <<>> => stdin = <<[id |-> nextId - 1, req |-> Pending]>> /\ stdout = <<>>
  /\ stdout # <<>> => stdout = <<[id |-> nextId - 1, reply |-> Answering]>>
  /\ nextId # 0

(* Handles come from this runner or earlier ones, one per build id, and a  *)
(* request that addresses no build carries none.                           *)
HandleInv ==
  /\ \A h \in granted : h.runner <= runner
  /\ \A g, h \in granted : g.runner = h.runner /\ g.id = h.id => g = h
  /\ \A c \in Callers : /\ call[c].handle \in granted \cup {NoHandle}
                        /\ call[c].method \in Unaddressed => call[c].handle = NoHandle
  /\ last.req.handle \in granted \cup {NoHandle}
  /\ Replied /\ call[lock].method = "build.load" /\ Answering.code = "OK" =>
       /\ Answering.id # NoId /\ call[lock].arg \in Docs
       /\ \A h \in granted : h.runner = runner => h.id < Answering.id

(* The core's one id belongs to the document that is live, or to the one   *)
(* a rejected load has since displaced.                                    *)
BuildInv ==
  /\ runner \in alive =>
       /\ core.active <= core.counter
       /\ core.booted \/ core.active = NoId
       /\ \A h \in granted : h.runner = runner =>
            /\ h.id <= core.counter
            /\ h.id = core.active => core.live \in {h.doc, HalfBuilt}
  /\ Replied /\ runner \in alive /\ call[lock].method = "build.load"
       /\ Answering.code = "OK" =>
       Answering.id = core.active /\ core.live = call[lock].arg
         /\ core.inp = FromFile
  /\ Replied /\ Answering.code = "OK" /\ call[lock].handle # NoHandle
       /\ call[lock].handle.runner = runner /\ Answering.doc \in Docs =>
       Answering.doc = call[lock].handle.doc

(* What the answers allow, counting the reply that is on its way. *)
Foreseen(h) ==
  IF Replied /\ call[lock].method \in Mutators /\ call[lock].handle.id = h.id
  THEN AfterEdit(believed[h], call[lock], Answering.code = "OK")
  ELSE believed[h]

BeliefInv ==
  /\ runner \in alive /\ ~wedged /\ core.live # HalfBuilt =>
       \A h \in granted : h.runner = runner /\ h.id = core.active => core.inp \in Foreseen(h)
  /\ Replied /\ call[lock].method = "build.save" /\ Answering.code = "OK"
       /\ call[lock].handle.runner = runner /\ call[lock].handle # NoHandle =>
       Answering.shows \in believed[call[lock].handle]

IInv == /\ TypeOK /\ ControlInv /\ ReportInv /\ PipeInv /\ HandleInv /\ BuildInv /\ BeliefInv
        /\ AnswersMatchRequests /\ RepliesServeOwnBuild /\ SavedFileFollowsTheAnswers
-----------------------------------------------------------------------------
(* What the core's operators return. *)

(* A fresh runner holds a well-typed core. *)
LEMMA FreshType == FreshCore \in CoreState
  BY DEF FreshCore, CoreState, Builds, Inputs, FromFile, NoId

(* A refusal is a reply. *)
LEMMA RefusalType ==
  ASSUME NEW k \in Codes
  PROVE  Refusal(k) \in Reply
  BY DEF Refusal, Reply, Builds, Inputs, FromFile, NoId

(* What serves from a build is a reply. *)
LEMMA ServeType ==
  ASSUME NEW c \in CoreState, NEW shows \in Inputs
  PROVE  Serve(c, shows) \in Reply
  BY DEF Serve, Reply, CoreState, Codes, NoId

(* Booting changes neither ids nor inputs, and the build only the first time. *)
LEMMA BootFacts ==
  ASSUME NEW c \in CoreState
  PROVE  /\ Boot(c) \in CoreState
         /\ Boot(c).counter = c.counter /\ Boot(c).active = c.active
         /\ Boot(c).inp = c.inp
         /\ Boot(c).booted
         /\ c.booted => Boot(c).live = c.live
  BY DEF Boot, CoreState, Builds

(* A rejected load counts an id, takes the build away and keeps the id.    *)
LEMMA LoadFacts ==
  ASSUME NEW c \in CoreState, NEW xml, NEW o \in Load(c, xml)
  PROVE  /\ o.core \in CoreState /\ o.reply \in Reply
         /\ o.core.booted \/ o.core = c
         /\ o.core.counter >= c.counter
         /\ o.reply.code = "OK" =>
              /\ xml \in Docs /\ o.reply.id = c.counter + 1
              /\ o.core.active = o.reply.id /\ o.core.counter = o.reply.id
              /\ o.core.live = xml /\ o.core.inp = FromFile
         /\ o.reply.code # "OK" =>
              /\ o.core.active = c.active
              /\ o.core = c \/ o.core.live = HalfBuilt
<1> DEFINE b == Boot(c)
           id == b.counter + 1
           loaded == [b EXCEPT !.counter = id, !.active = id, !.live = xml,
                               !.inp = FromFile, !.out = FromFile]
           rejected == [b EXCEPT !.counter = id, !.live = HalfBuilt,
                                 !.inp = FromFile, !.out = FromFile]
<1>1. b \in CoreState /\ b.counter = c.counter /\ b.active = c.active /\ b.booted
  BY BootFacts
<1>2. \/ o \in Refuse(c, {"BUILD_PARSE_FAILED", "CORE_INIT_FAILED"})
      \/ xml \in Docs /\ o = Outcome(loaded, [Serve(loaded, FromFile) EXCEPT !.id = id])
      \/ o \in Refuse(rejected, {"BUILD_PARSE_FAILED"})
  BY DEF Load, BootFailure, Refuse
<1> HIDE DEF b
<1>3. CASE o \in Refuse(c, {"BUILD_PARSE_FAILED", "CORE_INIT_FAILED"})
  <2>1. PICK k \in {"BUILD_PARSE_FAILED", "CORE_INIT_FAILED"} : o = Outcome(c, Refusal(k))
    BY <1>3 DEF Refuse
  <2>2. o.core = c /\ o.reply = Refusal(k) /\ o.reply.code # "OK"
    BY <2>1 DEF Outcome, Refusal
  <2>3. o.reply \in Reply
    BY <2>2, RefusalType DEF Codes, CoreErrorCodes
  <2>4. c.counter \in Nat
    BY DEF CoreState
  <2> HIDE DEF id, loaded, rejected
  <2> QED
    BY <2>2, <2>3, <2>4
<1>4. CASE xml \in Docs /\ o = Outcome(loaded, [Serve(loaded, FromFile) EXCEPT !.id = id])
  <2>0. FromFile \in Inputs /\ xml \in Builds /\ id \in Nat
    BY <1>1, <1>4 DEF CoreState, Builds, Inputs, FromFile
  <2>1. loaded \in CoreState /\ loaded.booted
    BY <1>1, <2>0 DEF CoreState
  <2>2. Serve(loaded, FromFile) \in Reply
    BY <2>1, ServeType DEF Inputs, FromFile
  <2>3. o.core = loaded /\ o.reply = [Serve(loaded, FromFile) EXCEPT !.id = id]
    BY <1>4 DEF Outcome
  <2>4. id \in Nat /\ id > c.counter /\ id = c.counter + 1
    BY <1>1 DEF CoreState
  <2>5. o.reply \in Reply /\ o.reply.code = "OK" /\ o.reply.id = id
    BY <2>2, <2>3, <2>4 DEF Reply, Serve
  <2>6. loaded.counter = id /\ loaded.active = id /\ loaded.live = xml /\ loaded.inp = FromFile
    BY <1>1 DEF CoreState
  <2>7. c.counter \in Nat
    BY DEF CoreState
  <2> HIDE DEF id, loaded, rejected
  <2> QED
    BY <1>4, <2>1, <2>3, <2>4, <2>5, <2>6, <2>7
<1>5. CASE o \in Refuse(rejected, {"BUILD_PARSE_FAILED"})
  <2>1. o = Outcome(rejected, Refusal("BUILD_PARSE_FAILED"))
    BY <1>5 DEF Refuse
  <2>2. o.core = rejected /\ o.reply = Refusal("BUILD_PARSE_FAILED") /\ o.reply.code # "OK"
    BY <2>1 DEF Outcome, Refusal
  <2>0. FromFile \in Inputs /\ HalfBuilt \in Builds /\ id \in Nat
    BY <1>1 DEF CoreState, Builds, Inputs, FromFile
  <2>3. /\ rejected \in CoreState /\ rejected.booted /\ rejected.counter = c.counter + 1
        /\ rejected.active = c.active /\ rejected.live = HalfBuilt
    BY <1>1, <2>0 DEF CoreState
  <2>4. o.reply \in Reply
    BY <2>2, RefusalType DEF Codes, CoreErrorCodes
  <2>5. c.counter \in Nat
    BY DEF CoreState
  <2> HIDE DEF id, loaded, rejected
  <2> QED
    BY <2>2, <2>3, <2>4, <2>5
<1> QED
  BY <1>2, <1>3, <1>4, <1>5

(* A refusing handler changes nothing and replies with an error code. *)
LEMMA RefuseFacts ==
  ASSUME NEW c \in CoreState, NEW codes \in SUBSET (Codes \ {"OK"}), NEW o \in Refuse(c, codes)
  PROVE  o.core = c /\ o.reply \in Reply /\ o.reply.code # "OK"
<1>1. PICK k \in codes : o = Outcome(c, Refusal(k))
  BY DEF Refuse
<1>2. o.core = c /\ o.reply = Refusal(k) /\ Refusal(k).code = k
  BY <1>1 DEF Outcome, Refusal
<1> QED
  BY <1>2, RefusalType

(* A serving handler replies with the live build and what it shows. *)
LEMMA ServeFacts ==
  ASSUME NEW c \in CoreState, NEW b \in CoreState, NEW shows \in Inputs,
         NEW o, o = Outcome(b, Serve(c, shows))
  PROVE  /\ o.core = b /\ o.reply \in Reply
         /\ o.reply.doc = c.live /\ o.reply.shows = shows /\ o.reply.code = "OK"
<1>1. o.core = b /\ o.reply = Serve(c, shows)
  BY DEF Outcome
<1> QED
  BY <1>1, ServeType DEF Serve

(* The inputs of a freshly loaded file. *)
LEMMA FromFileType == FromFile \in Inputs
  BY DEF FromFile, Inputs

(* What a step of the core keeps when it is not a load. *)
SameBuild(c, b) ==
  /\ b \in CoreState
  /\ b.counter = c.counter /\ b.active = c.active
  /\ c.booted => b.booted /\ b.live = c.live

(* Booting keeps the build of a booted core. *)
LEMMA BootKeeps ==
  ASSUME NEW c \in CoreState
  PROVE  SameBuild(c, Boot(c))
  BY BootFacts DEF SameBuild

(* Doing nothing keeps the build. *)
LEMMA SameBuildReflexive ==
  ASSUME NEW c \in CoreState
  PROVE  SameBuild(c, c)
  BY DEF SameBuild

(* A query answers from the live build, under its id, and changes nothing. *)
LEMMA QueryFacts ==
  ASSUME NEW c \in CoreState, NEW method, NEW id, NEW arg,
         method \notin Mutators, method # "build.load",
         NEW o \in Outcomes(c, method, id, arg)
  PROVE  /\ SameBuild(c, o.core) /\ o.core.inp = c.inp /\ o.reply \in Reply
         /\ o.reply.code = "OK" /\ method \notin Unaddressed =>
              Resolves(c, id) /\ o.reply.doc = c.live
         /\ o.reply.code = "OK" /\ method = "build.save" =>
              o.reply.shows = c.inp /\ c.live # HalfBuilt
<1> DEFINE Goal == /\ SameBuild(c, o.core) /\ o.core.inp = c.inp /\ o.reply \in Reply
                   /\ o.reply.code = "OK" /\ method \notin Unaddressed =>
                        Resolves(c, id) /\ o.reply.doc = c.live
                   /\ o.reply.code = "OK" /\ method = "build.save" =>
                        o.reply.shows = c.inp /\ c.live # HalfBuilt
<1>1. c.inp \in Inputs /\ c.out \in Inputs /\ FromFile \in Inputs
  BY FromFileType DEF CoreState
<1>2. ASSUME NEW codes \in SUBSET (Codes \ {"OK"}), o \in Refuse(c, codes)
      PROVE  Goal
  BY <1>2, RefuseFacts, SameBuildReflexive
<1>3. ASSUME NEW codes \in SUBSET (Codes \ {"OK"}), NEW shows \in {c.inp, c.out},
             method = "build.save" => shows = c.inp /\ c.live # HalfBuilt,
             o \in WithBuild(c, id, Refuse(c, codes) \cup {Outcome(c, Serve(c, shows))})
      PROVE  Goal
  <2>1. CASE Resolves(c, id) /\ o = Outcome(c, Serve(c, shows))
    <3>1. /\ o.core = c /\ o.reply \in Reply
          /\ o.reply.doc = c.live /\ o.reply.shows = shows
      BY <1>1, <1>3, <2>1, ServeFacts
    <3> QED
      BY <1>3, <2>1, <3>1, SameBuildReflexive
  <2>2. CASE \/ o \in Refuse(c, codes) \/ o \in Refuse(c, {"BUILD_PARSE_FAILED"})
             \/ o \in Refuse(c, {"CORE_INIT_FAILED"})
    <3>1. /\ {"BUILD_PARSE_FAILED"} \in SUBSET (Codes \ {"OK"})
          /\ {"CORE_INIT_FAILED"} \in SUBSET (Codes \ {"OK"})
      BY DEF Codes, CoreErrorCodes
    <3> QED
      BY <1>2, <1>3, <2>2, <3>1
  <2> QED
    BY <1>3, <2>1, <2>2 DEF WithBuild
<1>4. CASE method = "core.version"
  <2>1. o = Outcome(c, Serve(c, FromFile))
    BY <1>4 DEF Outcomes
  <2>2. o.core = c /\ o.reply \in Reply
    BY <1>1, <2>1, ServeFacts
  <2> QED
    BY <1>4, <2>2, SameBuildReflexive DEF Unaddressed
<1>5. CASE method = "build.save"
  <2>1. o \in Save(c, id)
    BY <1>5 DEF Outcomes
  <2>2. \/ /\ c.live # HalfBuilt
           /\ o \in WithBuild(c, id, Refuse(c, {"BUILD_PARSE_FAILED"})
                                      \cup {Outcome(c, Serve(c, c.inp))})
        \/ o \in Refuse(c, {"BUILD_PARSE_FAILED"})
        \/ o \in Refuse(c, {"CORE_INIT_FAILED"})
    BY <2>1 DEF Save, WithBuild
  <2>3. /\ {"BUILD_PARSE_FAILED"} \in SUBSET (Codes \ {"OK"})
        /\ {"CORE_INIT_FAILED"} \in SUBSET (Codes \ {"OK"})
    BY DEF Codes, CoreErrorCodes
  <2> QED
    BY <1>2, <1>3, <2>2, <2>3
<1>6. CASE method = "calc.run"
  <2>1. o \in WithBuild(c, id, Refuse(c, {"CALC_FAILED"}) \cup {Outcome(c, Serve(c, c.out))})
    BY <1>6 DEF Outcomes, CalcRun
  <2>2. {"CALC_FAILED"} \in SUBSET (Codes \ {"OK"})
    BY DEF Codes, CoreErrorCodes
  <2> QED
    BY <1>3, <1>6, <2>1, <2>2
<1>7. CASE method = "items.parseClipboard"
  <2>1. o \in ParseClipboard(c)
    BY <1>7 DEF Outcomes
  <2>2. Boot(c) \in CoreState /\ Boot(c).inp = c.inp /\ SameBuild(c, Boot(c))
    BY BootFacts, BootKeeps
  <2>3. {"CORE_INIT_FAILED"} \in SUBSET (Codes \ {"OK"}) /\ {"UNKNOWN_MOD"} \in SUBSET (Codes \ {"OK"})
    BY DEF Codes, CoreErrorCodes
  <2>4. \/ o \in Refuse(c, {"CORE_INIT_FAILED"})
        \/ o \in Refuse(c, {"UNKNOWN_MOD"})
        \/ o \in Refuse(Boot(c), {"UNKNOWN_MOD"})
        \/ o = Outcome(Boot(c), Serve(Boot(c), FromFile))
    BY <2>1 DEF ParseClipboard, BootFailure
  <2>5. CASE o \in Refuse(Boot(c), {"UNKNOWN_MOD"})
    <3>1. o.core = Boot(c) /\ o.reply \in Reply
      BY <2>2, <2>3, <2>5, RefuseFacts
    <3> QED
      BY <1>7, <2>2, <3>1 DEF Unaddressed
  <2>6. CASE o = Outcome(Boot(c), Serve(Boot(c), FromFile))
    <3>1. o.core = Boot(c) /\ o.reply \in Reply
      BY <1>1, <2>2, <2>6, ServeFacts
    <3> QED
      BY <1>7, <2>2, <3>1 DEF Unaddressed
  <2> QED
    BY <1>2, <2>3, <2>4, <2>5, <2>6
<1>8. CASE /\ method \notin {"core.version", "build.save", "calc.run", "items.parseClipboard"}
           /\ method \in CoreMethods
  <2>1. \E codes \in SUBSET (Codes \ {"OK"}), shows \in {c.inp, c.out} :
          o \in ReadOnly(c, id, shows, codes)
    BY <1>8 DEF Outcomes, CoreMethods, Codes, CoreErrorCodes, Mutators, Explain, GetEquipped,
                Compare, PreviewAllocate, GetGroups, GetOptions, GetTree
  <2>2. PICK codes \in SUBSET (Codes \ {"OK"}), shows \in {c.inp, c.out} :
          o \in WithBuild(c, id, Refuse(c, codes \cup {"RAISED"})
                                   \cup {Outcome(c, Serve(c, shows))})
    BY <2>1 DEF ReadOnly
  <2>3. codes \cup {"RAISED"} \in SUBSET (Codes \ {"OK"}) /\ method # "build.save"
    BY <1>8 DEF Codes
  <2> HIDE DEF Goal
  <2>4. Goal
    BY <1>3, <2>2, <2>3
  <2> QED
    BY <2>4 DEF Goal
<1>9. CASE method \notin CoreMethods
  <2>1. o \in Refuse(c, {"METHOD_NOT_FOUND"})
    BY <1>9 DEF Outcomes, CoreMethods
  <2>2. {"METHOD_NOT_FOUND"} \in SUBSET (Codes \ {"OK"})
    BY DEF Codes, CoreErrorCodes
  <2> QED
    BY <1>2, <2>1, <2>2
<1> QED
  BY <1>4, <1>5, <1>6, <1>7, <1>8, <1>9

(* The recalculation writes no input, and serves the live build. *)
LEMMA FrameFacts ==
  ASSUME NEW c \in CoreState, NEW o \in Frame(c)
  PROVE  /\ SameBuild(c, o.core) /\ o.core.inp = c.inp /\ o.reply \in Reply
         /\ o.reply.code = "OK" => o.reply.doc = c.live
<1> DEFINE fresh == [c EXCEPT !.out = c.inp]
<1>1. c.inp \in Inputs /\ fresh \in CoreState /\ fresh.inp = c.inp /\ SameBuild(c, fresh)
  BY DEF CoreState, SameBuild
<1> HIDE DEF fresh
<1>2. CASE o = Outcome(fresh, Serve(c, c.inp))
  <2>1. o.core = fresh /\ o.reply \in Reply /\ o.reply.doc = c.live
    BY <1>1, <1>2, ServeFacts
  <2> QED
    BY <1>1, <2>1
<1>3. CASE o = Outcome(c, Refusal("CALC_FAILED"))
  <2>1. o.core = c /\ o.reply = Refusal("CALC_FAILED") /\ o.reply.code = "CALC_FAILED"
    BY <1>3 DEF Outcome, Refusal
  <2> QED
    BY <2>1, RefusalType, SameBuildReflexive DEF Codes, CoreErrorCodes
<1>4. CASE o = Outcome(c, Serve(c, c.inp))
  <2>1. o.core = c /\ o.reply \in Reply /\ o.reply.doc = c.live
    BY <1>1, <1>4, ServeFacts
  <2> QED
    BY <2>1, SameBuildReflexive
<1> QED
  BY <1>2, <1>3, <1>4 DEF Frame, fresh

(* An edit changes the inputs of the live build, under its id, by what was *)
(* asked for: wholly when it is acknowledged, else not or partly.          *)
LEMMA EditFacts ==
  ASSUME NEW c \in CoreState, NEW q \in Request, q.method \in Mutators,
         NEW o \in Outcomes(c, q.method, q.handle.id, q.arg)
  PROVE  /\ SameBuild(c, o.core) /\ o.reply \in Reply
         /\ o.reply.code = "OK" => Resolves(c, q.handle.id) /\ o.reply.doc = c.live
         /\ ~Resolves(c, q.handle.id) => o.core = c
         /\ \A B \in SUBSET Inputs :
              c.inp \in B => o.core.inp \in AfterEdit(B, q, o.reply.code = "OK")
<1> DEFINE id == q.handle.id
           edited == [c EXCEPT !.inp = Applied(c.inp, q, q.arg)]
           Good == /\ SameBuild(c, o.core) /\ o.reply \in Reply
                   /\ o.reply.code = "OK" => Resolves(c, id) /\ o.reply.doc = c.live
                   /\ ~Resolves(c, id) => o.core = c
                   /\ \A B \in SUBSET Inputs :
                        c.inp \in B => o.core.inp \in AfterEdit(B, q, o.reply.code = "OK")
<1>1. ASSUME NEW B \in SUBSET Inputs, c.inp \in B
      PROVE  /\ c.inp \in AfterEdit(B, q, FALSE)
             /\ Applied(c.inp, q, q.arg) \in AfterEdit(B, q, TRUE)
             /\ Applied(c.inp, q, q.arg) \in AfterEdit(B, q, FALSE)
  <2>1. CASE q.method = "tree.applyAllocate"
    <3>1. q.arg \in SUBSET q.arg
      <4>1. \A x \in q.arg : x \in q.arg
        OBVIOUS
      <4> QED
        BY <4>1
    <3> QED
      BY <1>1, <2>1, <3>1 DEF AfterEdit
  <2>2. CASE q.method # "tree.applyAllocate"
    <3>1. Applied(c.inp, q, q.arg) = Applied(c.inp, q, {})
      BY <2>2 DEF Applied, Mutators
    <3> QED
      BY <1>1, <2>2, <3>1 DEF AfterEdit
  <2> QED
    BY <2>1, <2>2
<1>2. ASSUME NEW codes \in SUBSET (Codes \ {"OK"}), o \in Refuse(c, codes)
      PROVE  Good
  <2>1. o.core = c /\ o.reply \in Reply /\ o.reply.code # "OK"
    BY <1>2, RefuseFacts
  <2> QED
    BY <1>1, <2>1, SameBuildReflexive
<1>3. ASSUME edited \in CoreState, Resolves(c, id), o \in Frame(edited)
      PROVE  Good
  <2>1. /\ SameBuild(edited, o.core) /\ o.core.inp = edited.inp /\ o.reply \in Reply
        /\ o.reply.code = "OK" => o.reply.doc = edited.live
    BY <1>3, FrameFacts
  <2>2. /\ edited.counter = c.counter /\ edited.active = c.active
        /\ edited.live = c.live /\ edited.booted = c.booted
        /\ edited.inp = Applied(c.inp, q, q.arg)
    BY DEF CoreState
  <2>3. SameBuild(c, o.core)
    BY <2>1, <2>2 DEF SameBuild
  <2> HIDE DEF edited
  <2>4. (o.reply.code = "OK") = TRUE \/ (o.reply.code = "OK") = FALSE
    OBVIOUS
  <2> QED
    BY <1>1, <1>3, <2>1, <2>2, <2>3, <2>4
<1>4. q.arg \in Arguments(q.method)
  BY DEF Request
<1>5. c.inp \in Inputs
  BY DEF CoreState
<1>6. /\ {"BUILD_PARSE_FAILED"} \in SUBSET (Codes \ {"OK"})
      /\ {"CORE_INIT_FAILED"} \in SUBSET (Codes \ {"OK"})
  BY DEF Codes, CoreErrorCodes
<1>7. CASE q.method = "skills.setGemGroup"
  <2>1. q.arg \in GemLists
    BY <1>4, <1>7 DEF Arguments
  <2>2. edited = [c EXCEPT !.inp.gems = q.arg] /\ edited \in CoreState
    BY <1>5, <1>7, <2>1 DEF Applied, CoreState, Inputs
  <2>3. o \in SetGemGroup(c, id, q.arg)
    BY <1>7 DEF Outcomes
  <2>4. \/ o \in Refuse(c, {"BUILD_PARSE_FAILED"}) \/ o \in Refuse(c, {"CORE_INIT_FAILED"})
        \/ Resolves(c, id) /\ o \in Frame(edited)
    BY <2>2, <2>3 DEF SetGemGroup, WithBuild
  <2> QED
    BY <1>2, <1>3, <1>6, <2>2, <2>4
<1>8. CASE q.method = "config.setOption"
  <2>1. q.arg \in Values
    BY <1>4, <1>8 DEF Arguments
  <2>2. edited = [c EXCEPT !.inp.opt = q.arg] /\ edited \in CoreState
    BY <1>5, <1>8, <2>1 DEF Applied, CoreState, Inputs
  <2>3. o \in SetOption(c, id, q.arg)
    BY <1>8 DEF Outcomes
  <2>4. \/ o \in Refuse(c, {"BUILD_PARSE_FAILED"}) \/ o \in Refuse(c, {"CORE_INIT_FAILED"})
        \/ o \in Refuse(c, {"BUILD_PARSE_FAILED", "CORE_INIT_FAILED"})
        \/ Resolves(c, id) /\ o \in Frame(edited)
    BY <2>2, <2>3 DEF SetOption, WithBuild
  <2>5. {"BUILD_PARSE_FAILED", "CORE_INIT_FAILED"} \in SUBSET (Codes \ {"OK"})
    BY DEF Codes, CoreErrorCodes
  <2> QED
    BY <1>2, <1>3, <1>6, <2>2, <2>4, <2>5
<1>9. CASE q.method = "tree.applyAllocate"
  <2> DEFINE partly(part) == [c EXCEPT !.inp.alloc = @ \cup part]
  <2>1. q.arg \in SUBSET Nodes
    BY <1>4, <1>9 DEF Arguments
  <2>2. edited = [c EXCEPT !.inp.alloc = @ \cup q.arg] /\ edited \in CoreState
    BY <1>5, <1>9, <2>1 DEF Applied, CoreState, Inputs
  <2>3. o \in ApplyAllocate(c, id, q.arg)
    BY <1>9 DEF Outcomes
  <2>4. \/ o \in Refuse(c, {"BUILD_PARSE_FAILED"}) \/ o \in Refuse(c, {"CORE_INIT_FAILED"})
        \/ o \in Refuse(c, {"BUILD_PARSE_FAILED", "UPSTREAM_INCOMPATIBLE"})
        \/ Resolves(c, id) /\ o \in Frame(edited)
        \/ /\ Resolves(c, id)
           /\ \E part \in SUBSET q.arg : o = Outcome(partly(part), Refusal("CALC_FAILED"))
    BY <2>2, <2>3 DEF ApplyAllocate, WithBuild
  <2>5. {"BUILD_PARSE_FAILED", "UPSTREAM_INCOMPATIBLE"} \in SUBSET (Codes \ {"OK"})
    BY DEF Codes, CoreErrorCodes
  <2>6. ASSUME Resolves(c, id), NEW part \in SUBSET q.arg,
               o = Outcome(partly(part), Refusal("CALC_FAILED"))
        PROVE  Good
    <3>1. o.core = partly(part) /\ o.reply = Refusal("CALC_FAILED")
      BY <2>6 DEF Outcome
    <3>2. o.reply \in Reply /\ o.reply.code # "OK"
      BY <3>1, RefusalType DEF Codes, CoreErrorCodes, Refusal
    <3>3. partly(part) \in CoreState
      BY <1>5, <2>1 DEF CoreState, Inputs
    <3>4. /\ partly(part).counter = c.counter /\ partly(part).active = c.active
          /\ partly(part).live = c.live /\ partly(part).booted = c.booted
          /\ partly(part).inp = Applied(c.inp, q, part)
      BY <1>5, <1>9 DEF CoreState, Inputs, Applied
    <3>5. \A B \in SUBSET Inputs :
            c.inp \in B => Applied(c.inp, q, part) \in AfterEdit(B, q, FALSE)
      BY <1>9 DEF AfterEdit
    <3>6. SameBuild(c, partly(part))
      BY <3>3, <3>4 DEF SameBuild
    <3>7. (o.reply.code = "OK") = FALSE
      BY <3>2
    <3> HIDE DEF partly
    <3> QED
      BY <2>6, <3>1, <3>2, <3>4, <3>5, <3>6, <3>7
  <2> QED
    BY <1>2, <1>3, <1>6, <2>2, <2>4, <2>5, <2>6
<1> QED
  BY <1>7, <1>8, <1>9 DEF Mutators
-----------------------------------------------------------------------------
(* The invariant is inductive.  First what every step can rely on. *)

(* An edit leads from inputs to inputs. *)
LEMMA AfterEditType ==
  ASSUME NEW B \in SUBSET Inputs, NEW q \in Request, q.method \in Mutators, NEW ack
  PROVE  AfterEdit(B, q, ack) \in SUBSET Inputs
<1>1. q.arg \in Arguments(q.method)
  BY DEF Request
<1>2. CASE q.method = "skills.setGemGroup"
  <2>1. \A i \in B : \A n : Applied(i, q, n) \in Inputs
    BY <1>1, <1>2 DEF Arguments, Applied, Inputs
  <2> QED
    BY <1>2, <2>1 DEF AfterEdit
<1>3. CASE q.method = "config.setOption"
  <2>1. \A i \in B : \A n : Applied(i, q, n) \in Inputs
    BY <1>1, <1>3 DEF Arguments, Applied, Inputs
  <2> QED
    BY <1>3, <2>1 DEF AfterEdit
<1>4. CASE q.method = "tree.applyAllocate"
  <2>1. q.arg \in SUBSET Nodes
    BY <1>1, <1>4 DEF Arguments
  <2>2. \A i \in B, n \in SUBSET Nodes : Applied(i, q, n) \in Inputs
    BY <1>4 DEF Applied, Inputs
  <2>3. \A part \in SUBSET q.arg : part \in SUBSET Nodes
    BY <2>1
  <2> QED
    BY <1>4, <2>1, <2>2, <2>3 DEF AfterEdit
<1> QED
  BY <1>2, <1>3, <1>4 DEF Mutators

(* While the mutex is held its holder waits for an answer, and the bridge  *)
(* answers about the runner it owns.                                       *)
LEMMA HolderFacts ==
  ASSUME TypeOK, ControlInv, pc # "idle"
  PROVE  /\ lock \in Callers /\ call[lock] \in Request
         /\ pc # "spawn" => runner \in Runners /\ Owned
<1>1. lock \in Callers /\ call[lock] \in Request \cup {NoRequest} /\ call[lock] # NoRequest
  BY DEF TypeOK, ControlInv
<1>2. pc # "spawn" => runner \in Runners /\ Owned
  BY DEF TypeOK, ControlInv, Owned
<1> QED
  BY <1>1, <1>2

(* The one reply on its way answers the frame that was sent. *)
LEMMA ReplyFacts ==
  ASSUME TypeOK, PipeInv, stdout # <<>>
  PROVE  /\ Answering \in Reply
         /\ Head(stdout) = [id |-> nextId - 1, reply |-> Answering]
         /\ Head(stdout).id = nextId - 1
         /\ Tail(stdout) = <<>> /\ stdin = <<>>
<1>1. stdout = <<[id |-> nextId - 1, reply |-> Answering]>> /\ stdin = <<>>
  BY DEF PipeInv
<1>2. Head(stdout) \in Lines
  BY DEF TypeOK
<1>3. Answering \in Reply
  BY <1>2 DEF Lines, Answering
<1>4. Head(stdout) = [id |-> nextId - 1, reply |-> Answering] /\ Tail(stdout) = <<>>
  BY <1>1
<1> QED
  BY <1>1, <1>3, <1>4

(* A line waiting in stdin is the only one, and it is the pending request. *)
LEMMA FrameInFlight ==
  ASSUME TypeOK, PipeInv, stdin # <<>>
  PROVE  /\ Head(stdin) = [id |-> nextId - 1, req |-> Pending]
         /\ Tail(stdin) = <<>> /\ stdout = <<>>
         /\ pc \in {"handshake", "receive"}
<1>1. stdin = <<[id |-> nextId - 1, req |-> Pending]>> /\ stdout = <<>>
  BY DEF PipeInv
<1>2. Head(stdin) = [id |-> nextId - 1, req |-> Pending] /\ Tail(stdin) = <<>>
  BY <1>1
<1> QED
  BY <1>1, <1>2 DEF PipeInv

(* Every code becomes one of the closed set, or OK. *)
LEMMA HostCodeType ==
  ASSUME NEW k \in Codes
  PROVE  HostCode(k) \in CoreErrorCodes \cup {"OK"}
  BY DEF HostCode, Codes, CoreErrorCodes

(* Answering keeps the types of what it writes. *)
LEMMA AnswerType ==
  ASSUME TypeOK, ControlInv, pc # "idle",
         NEW code \in CoreErrorCodes \cup {"OK"}, NEW sent \in Nat, NEW got \in Nat,
         NEW from \in {0} \cup Runners, NEW kept \in BOOLEAN, NEW reply \in Reply,
         Answer(code, sent, got, from, kept, reply)
  PROVE  /\ call' \in [Callers -> Request \cup {NoRequest}]
         /\ issued' = issued /\ lock' = NoCaller /\ pc' = "idle"
         /\ last' \in Answers
<1>1. lock \in Callers /\ call[lock] \in Request
  BY HolderFacts
<1>2. last' = [code |-> code, sent |-> sent, got |-> got, from |-> from,
               kept |-> kept, req |-> call[lock], reply |-> reply]
  BY DEF Answer
<1>3. last' \in Answers
  BY <1>1, <1>2 DEF Answers
<1>4. call' \in [Callers -> Request \cup {NoRequest}]
  BY <1>1 DEF Answer, TypeOK
<1> QED
  BY <1>3, <1>4 DEF Answer

(* An empty pipe is well typed. *)
LEMMA EmptyPipes == <<>> \in Seq(Frames) /\ <<>> \in Seq(Lines)
  OBVIOUS

(* So does tearing the runner down. *)
LEMMA TearDownType ==
  ASSUME TypeOK, ControlInv, pc \notin {"idle", "spawn"}, TearDown
  PROVE  /\ slot' \in {0} \cup Runners /\ runner' \in {0} \cup Runners
         /\ alive' \subseteq Runners
         /\ nextId' \in Nat /\ stderr' \in 0..StderrCap
         /\ stdin' \in Seq(Frames) /\ stdout' \in Seq(Lines)
         /\ wedged' \in BOOLEAN /\ core' \in CoreState
         /\ granted' \subseteq Handles /\ believed' \in [granted' -> SUBSET Inputs]
         /\ reports' \in [Runners -> Nat]
<1>1. runner \in Runners
  BY HolderFacts
<1>2. reports' \in [Runners -> Nat]
  BY <1>1 DEF TearDown, TypeOK
<1>3. 0 \in 0..StderrCap
  BY HostAssumption
<1>4. alive' \subseteq Runners
  BY DEF TearDown, TypeOK
<1> QED
  BY <1>2, <1>3, <1>4, FreshType, EmptyPipes DEF TearDown, TypeOK

(* The types hold at the start ... *)
LEMMA TypeInit == Init => TypeOK
<1> SUFFICES ASSUME Init PROVE TypeOK
  OBVIOUS
<1>1. Refusal("OK") \in Reply
  BY RefusalType DEF Codes
<1>2. NoAnswer \in Answers
  BY <1>1 DEF NoAnswer, Answers
<1>3. believed \in [granted -> SUBSET Inputs]
  BY DEF Init
<1>4. call \in [Callers -> Request \cup {NoRequest}] /\ reports \in [Runners -> Nat]
  BY DEF Init
<1>5. issued \in 0..MaxRequests /\ stderr \in 0..StderrCap
  BY HostAssumption DEF Init
<1> QED
  BY <1>2, <1>3, <1>4, <1>5, FreshType, EmptyPipes DEF Init, TypeOK

(* The mark of "no answer yet" is well typed. *)
LEMMA NoAnswerType == NoAnswer \in Answers
<1>1. Refusal("OK") \in Reply
  BY RefusalType DEF Codes
<1> QED
  BY <1>1 DEF NoAnswer, Answers

(* ... and every step keeps them. *)
LEMMA TypeStep ==
  ASSUME TypeOK, ControlInv, PipeInv, HandleInv, [Next]_vars
  PROVE  TypeOK'
<1> USE DEF hostVars, procVars, histVars
<1>0. nextId - 1 \in Nat /\ nextId \in Nat /\ nextId + 1 \in Nat
  BY DEF TypeOK, PipeInv
<1>1. \A k \in {"CORE_INIT_FAILED", "UPSTREAM_INCOMPATIBLE", "BUILD_PARSE_FAILED"} :
        k \in CoreErrorCodes \cup {"OK"} /\ Refusal(k) \in Reply
  BY RefusalType DEF CoreErrorCodes, Codes
<1>2. ASSUME NEW c \in Callers, Invoke(c)
      PROVE  TypeOK'
  <2>1. PICK m \in Methods :
          \E h \in (IF m \in Unaddressed THEN {NoHandle} ELSE granted \cup {NoHandle}),
             a \in Arguments(m) :
               call' = [call EXCEPT ![c] = [method |-> m, handle |-> h, arg |-> a]]
    BY <1>2 DEF Invoke
  <2>2. PICK h \in granted \cup {NoHandle}, a \in Arguments(m) :
          call' = [call EXCEPT ![c] = [method |-> m, handle |-> h, arg |-> a]]
    BY <2>1
  <2>3. [method |-> m, handle |-> h, arg |-> a] \in Request
    BY <2>2 DEF Request, TypeOK
  <2>4. call' \in [Callers -> Request \cup {NoRequest}]
    BY <1>2, <2>2, <2>3 DEF TypeOK
  <2>5. issued' \in 0..MaxRequests
    BY <1>2, HostAssumption DEF Invoke, TypeOK
  <2> QED
    BY <1>2, <2>4, <2>5 DEF Invoke, TypeOK
<1>3. ASSUME NEW c \in Callers, Acquire(c)
      PROVE  TypeOK'
  BY <1>3, NoAnswerType DEF Acquire, TypeOK
<1>4. CASE SpawnFails
  <2>1. Answer("CORE_INIT_FAILED", 0, 0, 0, FALSE, Refusal("CORE_INIT_FAILED")) /\ pc # "idle"
    BY <1>4 DEF SpawnFails
  <2>2. /\ call' \in [Callers -> Request \cup {NoRequest}]
        /\ issued' = issued /\ lock' = NoCaller /\ pc' = "idle" /\ last' \in Answers
    BY <1>1, <2>1, AnswerType
  <2> QED
    BY <1>4, <2>2 DEF SpawnFails, TypeOK
<1>5. CASE Spawn
  <2>1. runner' \in Runners
    BY <1>5, HostAssumption DEF Spawn, TypeOK, Runners
  <2>2. stdin' \in Seq(Frames)
    BY <1>5 DEF Spawn, Frames
  <2>3. alive' \subseteq Runners
    BY <1>5, <2>1 DEF Spawn, TypeOK
  <2> QED
    BY <1>5, <2>1, <2>2, <2>3, FreshType DEF Spawn, TypeOK
<1>6. CASE RefuseMethod
  <2>1. /\ Answer("UPSTREAM_INCOMPATIBLE", 0, 0, 0, TRUE, Refusal("UPSTREAM_INCOMPATIBLE"))
        /\ pc # "idle"
    BY <1>6 DEF RefuseMethod
  <2>2. /\ call' \in [Callers -> Request \cup {NoRequest}]
        /\ issued' = issued /\ lock' = NoCaller /\ pc' = "idle" /\ last' \in Answers
    BY <1>1, <2>1, AnswerType
  <2> QED
    BY <1>6, <2>2 DEF RefuseMethod, TypeOK
<1>7. CASE RefuseOversize
  <2>1. /\ Answer("BUILD_PARSE_FAILED", nextId, nextId, 0, TRUE, Refusal("BUILD_PARSE_FAILED"))
        /\ pc # "idle"
    BY <1>7 DEF RefuseOversize
  <2>2. /\ call' \in [Callers -> Request \cup {NoRequest}]
        /\ issued' = issued /\ lock' = NoCaller /\ pc' = "idle" /\ last' \in Answers
    BY <1>0, <1>1, <2>1, AnswerType
  <2> QED
    BY <1>0, <1>7, <2>2 DEF RefuseOversize, TypeOK
<1>8. CASE Send
  <2>1. call[lock] \in Request
    BY <1>8, HolderFacts DEF Send
  <2>2. [id |-> nextId, req |-> call[lock]] \in Frames
    BY <1>0, <2>1 DEF Frames
  <2>3. stdin' \in Seq(Frames)
    BY <1>8, <2>2 DEF Send, TypeOK
  <2> QED
    BY <1>0, <1>8, <2>3 DEF Send, TypeOK
<1>9. CASE SendFails
  <2>1. /\ Answer("CORE_INIT_FAILED", nextId, nextId, 0, FALSE, Refusal("CORE_INIT_FAILED"))
        /\ pc \notin {"idle", "spawn"} /\ TearDown
    BY <1>9 DEF SendFails
  <2>2. /\ call' \in [Callers -> Request \cup {NoRequest}]
        /\ issued' = issued /\ lock' = NoCaller /\ pc' = "idle" /\ last' \in Answers
    BY <1>0, <1>1, <2>1, AnswerType
  <2> QED
    BY <2>1, <2>2, TearDownType DEF TypeOK
<1>10. CASE Handle
  <2> DEFINE q == Head(stdin).req
  <2>0. stdin # <<>> /\ Head(stdin) \in Frames
    BY <1>10 DEF Handle, TypeOK
  <2>1. stdin # <<>> /\ Head(stdin) \in Frames /\ q \in Request \cup {Handshake}
    BY <2>0 DEF Frames
  <2>2. PICK o \in Outcomes(core, q.method, q.handle.id, q.arg), noise \in {0, 1} :
          /\ core' = o.core
          /\ stdin' = Tail(stdin)
          /\ \/ /\ stderr + noise <= StderrCap /\ stderr' = stderr + noise
                /\ stdout' = Append(stdout, [id |-> Head(stdin).id, reply |-> o.reply])
                /\ UNCHANGED wedged
             \/ wedged' = TRUE /\ UNCHANGED <<stderr, stdout>>
    BY <1>10 DEF Handle
  <2>3. o.core \in CoreState /\ o.reply \in Reply
    <3>1. core \in CoreState
      BY DEF TypeOK
    <3>2. CASE q.method = "build.load"
      <4>1. o \in Load(core, q.arg)
        BY <2>2, <3>2 DEF Outcomes
      <4> QED
        BY <3>1, <4>1, LoadFacts
    <3>3. CASE q.method \in Mutators
      <4>1. q \in Request
        BY <2>1, <3>3 DEF Handshake, Mutators
      <4> QED
        BY <2>2, <3>1, <3>3, <4>1, EditFacts DEF SameBuild
    <3>4. CASE q.method \notin Mutators /\ q.method # "build.load"
      BY <2>2, <3>1, <3>4, QueryFacts DEF SameBuild
    <3> QED
      BY <3>2, <3>3, <3>4
  <2>4. Head(stdin).id \in Nat /\ stdin' \in Seq(Frames)
    BY <2>1, <2>2 DEF TypeOK, Frames
  <2>5. [id |-> Head(stdin).id, reply |-> o.reply] \in Lines
    BY <2>3, <2>4 DEF Lines
  <2> DEFINE line == [id |-> Head(stdin).id, reply |-> o.reply]
  <2>8. /\ stdout' \in {stdout, Append(stdout, line)} /\ wedged' \in {wedged, TRUE}
        /\ stderr' = stderr \/ (stderr + noise <= StderrCap /\ stderr' = stderr + noise)
    BY <2>2
  <2> HIDE DEF line
  <2>9. stdout \in Seq(Lines) /\ stderr \in 0..StderrCap /\ wedged \in BOOLEAN
    BY DEF TypeOK
  <2>6. stdout' \in Seq(Lines)
    BY <2>5, <2>8, <2>9 DEF line
  <2>7. stderr' \in 0..StderrCap /\ wedged' \in BOOLEAN
    <3>1. noise = 0 \/ noise = 1
      BY <2>2
    <3>2. StderrCap \in Nat
      BY HostAssumption
    <3>3. stderr' \in 0..StderrCap
      BY <3>1, <3>2, <2>8, <2>9
    <3>4. wedged' \in BOOLEAN
      BY <2>8, <2>9
    <3> QED
      BY <3>3, <3>4
  <2> QED
    BY <1>10, <2>2, <2>3, <2>4, <2>6, <2>7 DEF Handle, TypeOK
<1>11. CASE Crash
  <2>1. alive' \subseteq Runners
    BY <1>11 DEF Crash, TypeOK
  <2> QED
    BY <1>11, <2>1, FreshType, EmptyPipes DEF Crash, TypeOK
<1>12. CASE Started
  <2>1. stdout' \in Seq(Lines)
    BY <1>12 DEF Started, TypeOK
  <2> QED
    BY <1>12, <2>1 DEF Started, TypeOK
<1>13. CASE ReceiveFails \/ ReceiveGarbage
  <2>1. PICK code \in {"CORE_INIT_FAILED", "UPSTREAM_INCOMPATIBLE"} :
          /\ Answer(code, nextId - 1, nextId - 1, 0, FALSE, Refusal(code))
          /\ pc \notin {"idle", "spawn"} /\ TearDown
    BY <1>13 DEF ReceiveFails, ReceiveGarbage
  <2>2. /\ call' \in [Callers -> Request \cup {NoRequest}]
        /\ issued' = issued /\ lock' = NoCaller /\ pc' = "idle" /\ last' \in Answers
    BY <1>0, <1>1, <2>1, AnswerType
  <2> QED
    BY <2>1, <2>2, TearDownType DEF TypeOK
<1>14. ASSUME stdout # <<>>, pc = "receive", NEW kept \in BOOLEAN,
              Answer(HostCode(Head(stdout).reply.code), nextId - 1, Head(stdout).id, runner,
                     kept, Head(stdout).reply)
       PROVE  /\ call' \in [Callers -> Request \cup {NoRequest}]
              /\ issued' = issued /\ lock' = NoCaller /\ pc' = "idle" /\ last' \in Answers
  <2>1. Head(stdout).reply \in Reply /\ Head(stdout).id = nextId - 1
    BY <1>14, ReplyFacts DEF Answering
  <2>2. HostCode(Head(stdout).reply.code) \in CoreErrorCodes \cup {"OK"}
    BY <2>1, HostCodeType DEF Reply
  <2>3. runner \in {0} \cup Runners /\ pc # "idle"
    BY <1>14 DEF TypeOK
  <2> QED
    BY <1>0, <1>14, <2>1, <2>2, <2>3, AnswerType
<1>15. CASE Receive
  <2>1. /\ call' \in [Callers -> Request \cup {NoRequest}]
        /\ issued' = issued /\ lock' = NoCaller /\ pc' = "idle" /\ last' \in Answers
    BY <1>14, <1>15 DEF Receive
  <2>2. stdout' \in Seq(Lines)
    BY <1>15 DEF Receive, TypeOK
  <2>3. call[lock] \in Request /\ runner \in Runners
    BY <1>15, HolderFacts DEF Receive
  <2>4. granted' \subseteq Handles /\ believed' \in [granted' -> SUBSET Inputs]
    <3>1. CASE call[lock].method = "build.load" /\ Answering.code = "OK"
      <4> DEFINE h == [runner |-> runner, id |-> Answering.id, doc |-> call[lock].arg]
      <4>1. /\ granted' = granted \cup {h}
            /\ believed' = [g \in granted \cup {h} |-> IF g = h THEN {FromFile} ELSE believed[g]]
        BY <1>15, <3>1 DEF Receive, Record, Answering
      <4>2. Answering.id \in Nat \ {NoId} /\ call[lock].arg \in Docs
        BY <1>15, <3>1, ReplyFacts DEF Receive, HandleInv, Replied, Reply
      <4>3. h \in Handles
        BY <2>3, <4>2 DEF Handles
      <4>4. {FromFile} \in SUBSET Inputs
        BY FromFileType
      <4> HIDE DEF h
      <4> QED
        BY <4>1, <4>3, <4>4 DEF TypeOK
    <3>2. CASE ~(call[lock].method = "build.load" /\ Answering.code = "OK")
      <4>1. /\ granted' = granted
            /\ believed' = [h \in granted |->
                             IF call[lock].method \in Mutators /\ Addressed(call[lock], h)
                             THEN AfterEdit(believed[h], call[lock], Answering.code = "OK")
                             ELSE believed[h]]
        BY <1>15, <3>2 DEF Receive, Record, Answering
      <4>2. \A h \in granted : call[lock].method \in Mutators =>
              AfterEdit(believed[h], call[lock], Answering.code = "OK") \in SUBSET Inputs
        BY <2>3, AfterEditType DEF TypeOK
      <4> QED
        BY <4>1, <4>2 DEF TypeOK
    <3> QED
      BY <3>1, <3>2
  <2> QED
    BY <1>15, <2>1, <2>2, <2>4 DEF Receive, TypeOK
<1>16. CASE ReceiveFatal
  <2>1. /\ call' \in [Callers -> Request \cup {NoRequest}]
        /\ issued' = issued /\ lock' = NoCaller /\ pc' = "idle" /\ last' \in Answers
    BY <1>14, <1>16 DEF ReceiveFatal
  <2>2. TearDown /\ pc \notin {"idle", "spawn"}
    BY <1>16 DEF ReceiveFatal
  <2> QED
    BY <2>1, <2>2, TearDownType DEF TypeOK
<1>17. CASE UNCHANGED vars
  BY <1>17 DEF vars, TypeOK
<1> QED
  BY <1>2, <1>3, <1>4, <1>5, <1>6, <1>7, <1>8, <1>9, <1>10, <1>11, <1>12, <1>13, <1>15, <1>16,
     <1>17 DEF Next, HostStep

(* The lock holder, the slot and the live process stay in agreement. *)
LEMMA ControlStep ==
  ASSUME TypeOK, ControlInv, [Next]_vars
  PROVE  ControlInv'
<1> USE DEF hostVars, procVars, histVars
<1>0. NoCaller \notin Callers
  BY HostAssumption
<1>1. ASSUME NEW c \in Callers, Invoke(c)
      PROVE  ControlInv'
  <2>1. \A d \in Callers : d # c => call'[d] = call[d]
    BY <1>1 DEF Invoke, TypeOK
  <2>2. lock \in Callers => lock # c
    BY <1>1 DEF Invoke, ControlInv
  <2> QED
    BY <1>1, <2>1, <2>2 DEF Invoke, ControlInv, Owned
<1>2. ASSUME NEW c \in Callers, Acquire(c)
      PROVE  ControlInv'
  BY <1>0, <1>2 DEF Acquire, ControlInv, Owned
<1>3. CASE \/ SpawnFails \/ RefuseMethod \/ RefuseOversize
  BY <1>0, <1>3 DEF SpawnFails, RefuseMethod, RefuseOversize, Answer, ControlInv, Owned
<1>4. CASE Spawn
  <2>1. runner' # 0
    BY <1>4 DEF Spawn, TypeOK, Runners
  <2> QED
    BY <1>4, <2>1 DEF Spawn, ControlInv, Owned
<1>5. CASE Send \/ Handle \/ Started
  BY <1>5 DEF Send, Handle, Started, ControlInv, Owned
<1>6. CASE Crash
  BY <1>6 DEF Crash, ControlInv, Owned
<1>7. CASE SendFails \/ ReceiveFails \/ ReceiveGarbage \/ ReceiveFatal
  <2>1. /\ lock' = NoCaller /\ pc' = "idle" /\ slot' = 0
        /\ alive' = alive \ {runner} /\ runner' = runner
    BY <1>7 DEF SendFails, ReceiveFails, ReceiveGarbage, ReceiveFatal, Answer, TearDown
  <2>2. alive' = {}
    BY <2>1 DEF ControlInv
  <2> QED
    BY <1>0, <2>1, <2>2 DEF ControlInv
<1>8. CASE Receive
  BY <1>0, <1>8 DEF Receive, Answer, ControlInv, Owned
<1>9. CASE UNCHANGED vars
  BY <1>9 DEF vars, ControlInv, Owned
<1> QED
  BY <1>1, <1>2, <1>3, <1>4, <1>5, <1>6, <1>7, <1>8, <1>9 DEF Next, HostStep

(* A report is added exactly when the owned process is given up. *)
LEMMA ReportStep ==
  ASSUME TypeOK, ControlInv, ReportInv, [Next]_vars
  PROVE  ReportInv'
<1> USE DEF hostVars, procVars, histVars
<1>1. ASSUME reports' = reports, runner' = runner, Owned' = Owned
      PROVE  ReportInv'
  BY <1>1 DEF ReportInv
<1>2. ASSUME NEW c \in Callers, Invoke(c) \/ Acquire(c)
      PROVE  ReportInv'
  BY <1>1, <1>2 DEF Invoke, Acquire, ControlInv, Owned
<1>3. CASE \/ SpawnFails \/ RefuseMethod \/ RefuseOversize \/ Send \/ Handle \/ Crash
           \/ Started \/ Receive
  <2>1. reports' = reports /\ runner' = runner
    BY <1>3 DEF SpawnFails, RefuseMethod, RefuseOversize, Send, Handle, Crash, Started, Receive
  <2>2. Owned' = Owned
    BY <1>3 DEF SpawnFails, RefuseMethod, RefuseOversize, Send, Handle, Crash, Started,
                Receive, Answer, ControlInv, Owned
  <2> QED
    BY <1>1, <2>1, <2>2
<1>4. CASE Spawn
  <2>1. ~Owned /\ Owned' /\ runner' = runner + 1 /\ reports' = reports
    BY <1>4 DEF Spawn, ControlInv, Owned
  <2>2. \A r \in Runners : r \in Nat /\ r # 0
    BY HostAssumption DEF Runners
  <2>3. runner \in Nat
    BY <2>2 DEF TypeOK
  <2>4. \A r \in Runners : r < runner + 1 <=> r < runner \/ r = runner
    BY <2>2, <2>3
  <2> QED
    BY <2>1, <2>2, <2>3, <2>4 DEF ReportInv
<1>5. CASE SendFails \/ ReceiveFails \/ ReceiveGarbage \/ ReceiveFatal
  <2>1. pc \notin {"idle", "spawn"} /\ TearDown /\ pc' = "idle"
    BY <1>5 DEF SendFails, ReceiveFails, ReceiveGarbage, ReceiveFatal, Answer
  <2>2. runner \in Runners /\ Owned
    BY <2>1, HolderFacts
  <2>3. ~Owned' /\ runner' = runner /\ reports' = [reports EXCEPT ![runner] = @ + 1]
    BY <2>1 DEF TearDown, Owned
  <2>4. \A r \in Runners : r \in Nat
    BY HostAssumption DEF Runners
  <2>5. reports[runner] = 0
    BY <2>2, <2>4 DEF ReportInv
  <2>6. reports'[runner] = 1
    BY <2>2, <2>3, <2>5 DEF TypeOK
  <2>7. \A r \in Runners : r # runner => reports'[r] = reports[r]
    BY <2>3 DEF TypeOK
  <2> QED
    BY <2>2, <2>3, <2>6, <2>7 DEF ReportInv
<1>6. CASE UNCHANGED vars
  BY <1>1, <1>6 DEF vars, Owned
<1> QED
  BY <1>2, <1>3, <1>4, <1>5, <1>6 DEF Next, HostStep

(* At most one line is ever between the host and the runner. *)
LEMMA PipeStep ==
  ASSUME TypeOK, ControlInv, PipeInv, [Next]_vars
  PROVE  PipeInv'
<1> USE DEF hostVars, procVars, histVars
<1>0. nextId \in Nat /\ nextId + 1 - 1 = nextId /\ nextId + 1 # 0
  BY DEF TypeOK
<1>1. ASSUME stdin' = <<>>, stdout' = <<>>, nextId' # 0
      PROVE  PipeInv'
  BY <1>1 DEF PipeInv
<1>2. ASSUME NEW c \in Callers, Invoke(c)
      PROVE  PipeInv'
  <2>1. pc # "idle" => lock \in Callers /\ lock # c
    BY <1>2, HolderFacts DEF Invoke, ControlInv
  <2>2. pc # "idle" => call'[lock] = call[lock]
    BY <1>2, <2>1 DEF Invoke, TypeOK
  <2>3. Pending' = Pending \/ pc = "idle"
    BY <1>2, <2>2 DEF Invoke, Pending
  <2> QED
    BY <1>2, <2>3 DEF Invoke, PipeInv, Answering
<1>3. ASSUME NEW c \in Callers, Acquire(c)
      PROVE  PipeInv'
  BY <1>1, <1>3 DEF Acquire, PipeInv, ControlInv
<1>4. CASE SpawnFails \/ RefuseMethod
  BY <1>1, <1>4 DEF SpawnFails, RefuseMethod, PipeInv
<1>5. CASE RefuseOversize
  BY <1>0, <1>1, <1>5 DEF RefuseOversize, PipeInv
<1>6. CASE SendFails \/ ReceiveFails \/ ReceiveGarbage \/ ReceiveFatal
  BY <1>1, <1>6 DEF SendFails, ReceiveFails, ReceiveGarbage, ReceiveFatal, TearDown, PipeInv
<1>7. CASE Spawn
  <2>1. stdin' = <<[id |-> nextId' - 1, req |-> Pending']>> /\ nextId' = 2 /\ pc' = "handshake"
    BY <1>7 DEF Spawn, Pending
  <2>2. stdout' = <<>>
    BY <1>7 DEF Spawn, PipeInv
  <2> QED
    BY <2>1, <2>2 DEF PipeInv
<1>8. CASE Send
  <2>1. stdin = <<>> /\ stdout = <<>>
    BY <1>8 DEF Send, PipeInv
  <2>2. /\ stdin' = <<[id |-> nextId, req |-> call[lock]]>>
        /\ stdout' = <<>> /\ nextId' = nextId + 1 /\ pc' = "receive" /\ Pending' = call[lock]
    BY <1>8, <2>1 DEF Send, Pending
  <2> QED
    BY <1>0, <2>2 DEF PipeInv
<1>9. CASE Handle
  <2>1. /\ Head(stdin).id = nextId - 1 /\ Tail(stdin) = <<>> /\ stdout = <<>>
        /\ pc \in {"handshake", "receive"}
    BY <1>9, FrameInFlight DEF Handle
  <2>2. PICK o : \/ stdout' = stdout
                 \/ stdout' = Append(stdout, [id |-> Head(stdin).id, reply |-> o.reply])
    BY <1>9 DEF Handle
  <2>3. stdin' = <<>> /\ nextId' = nextId /\ pc' = pc
    BY <1>9, <2>1 DEF Handle
  <2>4. CASE stdout' = stdout
    BY <1>1, <2>1, <2>3, <2>4 DEF PipeInv
  <2>5. CASE stdout' = Append(stdout, [id |-> Head(stdin).id, reply |-> o.reply])
    <3>1. stdout' = <<[id |-> nextId - 1, reply |-> o.reply]>>
      BY <2>1, <2>5
    <3>2. Answering' = o.reply
      BY <3>1 DEF Answering
    <3>3. stdout' = <<[id |-> nextId' - 1, reply |-> Answering']>>
      BY <2>3, <3>1, <3>2
    <3> QED
      BY <2>1, <2>3, <3>3 DEF PipeInv
  <2> QED
    BY <2>2, <2>4, <2>5
<1>10. CASE Crash
  BY <1>10 DEF Crash, PipeInv, Answering
<1>11. CASE Started
  <2>1. Tail(stdout) = <<>> /\ stdin = <<>>
    BY <1>11, ReplyFacts DEF Started
  <2> QED
    BY <1>1, <1>11, <2>1 DEF Started, PipeInv
<1>12. CASE Receive
  <2>1. Tail(stdout) = <<>> /\ stdin = <<>>
    BY <1>12, ReplyFacts DEF Receive
  <2> QED
    BY <1>1, <1>12, <2>1 DEF Receive, PipeInv
<1>13. CASE UNCHANGED vars
  BY <1>13 DEF vars, PipeInv, Pending, Answering
<1> QED
  BY <1>2, <1>3, <1>4, <1>5, <1>6, <1>7, <1>8, <1>9, <1>10, <1>11, <1>12, <1>13
     DEF Next, HostStep

(* The one reply in the pipe carries the id of the one request sent. *)
LEMMA MatchStep ==
  ASSUME TypeOK, PipeInv, AnswersMatchRequests, [Next]_vars
  PROVE  AnswersMatchRequests'
<1> USE DEF hostVars, procVars, histVars
<1>1. CASE \/ SpawnFails \/ RefuseMethod \/ RefuseOversize \/ SendFails \/ ReceiveFails
           \/ ReceiveGarbage
  BY <1>1 DEF SpawnFails, RefuseMethod, RefuseOversize, SendFails, ReceiveFails,
              ReceiveGarbage, Answer, AnswersMatchRequests
<1>2. CASE Receive \/ ReceiveFatal
  <2>1. Head(stdout).id = nextId - 1
    BY <1>2, ReplyFacts DEF Receive, ReceiveFatal
  <2> QED
    BY <1>2, <2>1 DEF Receive, ReceiveFatal, Answer, AnswersMatchRequests
<1>3. CASE \E c \in Callers : Acquire(c)
  BY <1>3 DEF Acquire, NoAnswer, AnswersMatchRequests
<1>4. ASSUME last' = last
      PROVE  AnswersMatchRequests'
  BY <1>4 DEF AnswersMatchRequests
<1>5. CASE \E c \in Callers : Invoke(c)
  BY <1>4, <1>5 DEF Invoke
<1>6. CASE Spawn \/ Send \/ Handle \/ Crash \/ Started \/ UNCHANGED vars
  BY <1>4, <1>6 DEF Spawn, Send, Handle, Crash, Started, vars
<1> QED
  BY <1>1, <1>2, <1>3, <1>5, <1>6 DEF Next, HostStep

(* The three kinds of request, and what handling one does to a build that  *)
(* has a handle.                                                           *)
LEMMA OutcomeCases ==
  ASSUME TypeOK, NEW q \in Request \cup {Handshake},
         NEW o \in Outcomes(core, q.method, q.handle.id, q.arg)
  PROVE  \/ /\ q.method = "build.load"
            /\ o \in Load(core, q.arg)
         \/ /\ q.method # "build.load"
            /\ SameBuild(core, o.core)
            /\ o.reply.code = "OK" /\ q.method \notin Unaddressed =>
                 Resolves(core, q.handle.id) /\ o.reply.doc = core.live
<1>1. core \in CoreState
  BY DEF TypeOK
<1>2. CASE q.method = "build.load"
  BY <1>2 DEF Outcomes
<1>3. CASE q.method \in Mutators
  <2>1. q \in Request
    BY <1>3 DEF Handshake, Mutators
  <2> QED
    BY <1>1, <1>3, <2>1, EditFacts DEF Mutators
<1>4. CASE q.method \notin Mutators /\ q.method # "build.load"
  BY <1>1, <1>4, QueryFacts
<1> QED
  BY <1>2, <1>3, <1>4

(* What a step of the runner does, given that one request is in flight. *)
LEMMA Handled ==
  ASSUME TypeOK, ControlInv, PipeInv, Handle
  PROVE  /\ runner \in alive /\ runner' = runner /\ alive' = alive
         /\ call' = call /\ lock' = lock /\ pc' = pc
         /\ granted' = granted /\ believed' = believed /\ last' = last
         /\ Pending \in Request \cup {Handshake}
         /\ pc = "receive" => Pending = call[lock] /\ call[lock] \in Request
         /\ stdout = <<>> /\ ~wedged
         /\ \E o \in Outcomes(core, Pending.method, Pending.handle.id, Pending.arg) :
              /\ core' = o.core
              /\ \/ stdout' = <<>> /\ wedged'
                 \/ stdout' # <<>> /\ ~wedged' /\ Answering' = o.reply
<1> USE DEF hostVars, procVars, histVars
<1>1. /\ Head(stdin) = [id |-> nextId - 1, req |-> Pending]
      /\ stdout = <<>> /\ pc \in {"handshake", "receive"}
  BY FrameInFlight DEF Handle
<1>2. PICK o \in Outcomes(core, Pending.method, Pending.handle.id, Pending.arg) :
        /\ core' = o.core
        /\ \/ /\ stdout' = Append(stdout, [id |-> Head(stdin).id, reply |-> o.reply])
              /\ wedged' = wedged
           \/ wedged' = TRUE /\ stdout' = stdout
  BY <1>1 DEF Handle
<1>3. stdout' = Append(stdout, [id |-> Head(stdin).id, reply |-> o.reply])
        => stdout' # <<>> /\ Answering' = o.reply
  <2> SUFFICES ASSUME stdout' = Append(<<>>, [id |-> Head(stdin).id, reply |-> o.reply])
               PROVE  stdout' # <<>> /\ Answering' = o.reply
    BY <1>1
  <2>1. stdout' = <<[id |-> Head(stdin).id, reply |-> o.reply]>>
    OBVIOUS
  <2> QED
    BY <2>1 DEF Answering
<1>4. pc = "receive" => Pending = call[lock] /\ call[lock] \in Request
  BY HolderFacts DEF Pending
<1>5. Pending \in Request \cup {Handshake}
  BY <1>1, <1>4 DEF Pending
<1>6. \/ stdout' = <<>> /\ wedged'
      \/ stdout' # <<>> /\ ~wedged' /\ Answering' = o.reply
  <2>1. ~wedged
    BY DEF Handle
  <2> QED
    BY <1>1, <1>2, <1>3, <2>1
<1>7. \E x \in Outcomes(core, Pending.method, Pending.handle.id, Pending.arg) :
        /\ core' = x.core
        /\ \/ stdout' = <<>> /\ wedged'
           \/ stdout' # <<>> /\ ~wedged' /\ Answering' = x.reply
  BY <1>2, <1>6
<1> QED
  BY <1>1, <1>4, <1>5, <1>7 DEF Handle

(* Build ids of a runner only grow, so a handle is never granted twice. *)
LEMMA HandleStep ==
  ASSUME TypeOK, ControlInv, PipeInv, HandleInv, BuildInv, [Next]_vars
  PROVE  HandleInv'
<1> USE DEF hostVars, procVars, histVars
<1>0. /\ NoRequest.handle = NoHandle /\ runner \in Nat
      /\ \A h \in granted : h.runner \in Nat /\ h.id \in Nat /\ h.id # NoId
  BY HostAssumption DEF NoRequest, TypeOK, Handles, Runners
<1>1. ASSUME granted' = granted, runner' \in {runner, runner + 1}, ~Replied',
             call' = call \/ call' = [call EXCEPT ![lock] = NoRequest],
             last'.req.handle \in granted \cup {NoHandle}
      PROVE  HandleInv'
  <2>1. \A c \in Callers : \/ call'[c] = call[c]
                           \/ call'[c] = NoRequest
    BY <1>1 DEF TypeOK
  <2>2. \A h \in granted : h.runner <= runner'
    BY <1>0, <1>1 DEF HandleInv
  <2> QED
    BY <1>0, <1>1, <2>1, <2>2 DEF HandleInv
<1>2. ASSUME NEW c \in Callers, Invoke(c)
      PROVE  HandleInv'
  <2>1. PICK m \in Methods :
          \E h \in (IF m \in Unaddressed THEN {NoHandle} ELSE granted \cup {NoHandle}),
             a \in Arguments(m) :
               call' = [call EXCEPT ![c] = [method |-> m, handle |-> h, arg |-> a]]
    BY <1>2 DEF Invoke
  <2>2. /\ call'[c].handle \in granted \cup {NoHandle}
        /\ call'[c].method \in Unaddressed => call'[c].handle = NoHandle
    BY <2>1 DEF TypeOK
  <2>3. \A d \in Callers : d # c => call'[d] = call[d]
    BY <2>1 DEF TypeOK
  <2>4. pc # "idle" => lock \in Callers /\ lock # c
    BY <1>2, HolderFacts DEF Invoke, ControlInv
  <2>5. Replied' => Replied /\ Answering' = Answering /\ call'[lock] = call[lock]
    BY <1>2, <2>3, <2>4 DEF Invoke, Replied, Answering
  <2>6. granted' = granted /\ runner' = runner /\ last' = last /\ lock' = lock
    BY <1>2 DEF Invoke
  <2> QED
    BY <2>2, <2>3, <2>5, <2>6 DEF HandleInv
<1>3. ASSUME NEW c \in Callers, Acquire(c)
      PROVE  HandleInv'
  <2>1. /\ granted' = granted /\ runner' = runner /\ call' = call /\ ~Replied'
        /\ last' = NoAnswer
    BY <1>3 DEF Acquire, Replied
  <2> QED
    BY <1>0, <1>1, <2>1 DEF NoAnswer
<1>4. CASE \/ SpawnFails \/ RefuseMethod \/ RefuseOversize \/ SendFails \/ ReceiveFails
           \/ ReceiveGarbage \/ ReceiveFatal
  <2>1. /\ granted' = granted /\ runner' = runner /\ pc # "idle"
        /\ call' = [call EXCEPT ![lock] = NoRequest]
        /\ last'.req = call[lock] /\ pc' = "idle"
    BY <1>4 DEF SpawnFails, RefuseMethod, RefuseOversize, SendFails, ReceiveFails,
                ReceiveGarbage, ReceiveFatal, Answer, TearDown
  <2>2. call[lock].handle \in granted \cup {NoHandle}
    BY <2>1, HolderFacts DEF HandleInv
  <2> QED
    BY <1>1, <2>1, <2>2 DEF Replied
<1>5. CASE Spawn
  BY <1>1, <1>5 DEF Spawn, Replied, HandleInv
<1>6. CASE Send
  <2>1. stdout = <<>>
    BY <1>6 DEF Send, PipeInv
  <2> QED
    BY <1>1, <1>6, <2>1 DEF Send, Replied, HandleInv
<1>7. CASE Handle
  <2>1. PICK o \in Outcomes(core, Pending.method, Pending.handle.id, Pending.arg) :
          /\ core' = o.core
          /\ \/ stdout' = <<>> /\ wedged'
             \/ stdout' # <<>> /\ ~wedged' /\ Answering' = o.reply
    BY <1>7, Handled
  <2>2. /\ runner \in alive /\ runner' = runner /\ granted' = granted /\ last' = last
        /\ call' = call /\ lock' = lock /\ pc' = pc
        /\ pc = "receive" => Pending = call[lock]
    BY <1>7, Handled
  <2>3. ASSUME Replied', call[lock].method = "build.load", o.reply.code = "OK"
        PROVE  /\ o.reply.id # NoId /\ call[lock].arg \in Docs
               /\ \A h \in granted : h.runner = runner => h.id < o.reply.id
    <3>1. o \in Load(core, call[lock].arg)
      BY <2>1, <2>2, <2>3 DEF Replied, Outcomes
    <3>2. core \in CoreState /\ core.counter \in Nat
      BY DEF TypeOK, CoreState
    <3>3. call[lock].arg \in Docs /\ o.reply.id = core.counter + 1
      BY <2>3, <3>1, <3>2, LoadFacts
    <3>4. \A h \in granted : h.runner = runner => h.id <= core.counter
      BY <2>2 DEF BuildInv
    <3> QED
      BY <1>0, <3>2, <3>3, <3>4 DEF NoId
  <2>4. Replied' => Answering' = o.reply
    BY <2>1 DEF Replied
  <2> QED
    BY <2>2, <2>3, <2>4 DEF HandleInv
<1>8. CASE Crash
  BY <1>8 DEF Crash, HandleInv, Replied, Answering
<1>9. CASE Started
  BY <1>1, <1>9 DEF Started, Replied, HandleInv
<1>10. CASE Receive
  <2>1. /\ runner' = runner /\ pc' = "idle" /\ pc = "receive"
        /\ call' = [call EXCEPT ![lock] = NoRequest] /\ last'.req = call[lock]
        /\ stdout # <<>> /\ Record(call[lock], Answering)
    BY <1>10 DEF Receive, Answer, Answering
  <2>2. call[lock].handle \in granted \cup {NoHandle} /\ runner \in Runners
    BY <2>1, HolderFacts DEF HandleInv
  <2>3. CASE call[lock].method = "build.load" /\ Answering.code = "OK"
    <3> DEFINE g == [runner |-> runner, id |-> Answering.id, doc |-> call[lock].arg]
    <3>1. granted' = granted \cup {g}
      BY <2>1, <2>3 DEF Record
    <3>2. \A h \in granted : h.runner = runner => h.id < Answering.id
      BY <2>1, <2>3 DEF HandleInv, Replied
    <3>3. \A h \in granted : h.runner = runner => h.id # Answering.id
      <4>1. Answering.id \in Nat
        BY <2>1, ReplyFacts DEF Reply
      <4> QED
        BY <1>0, <3>2, <4>1
    <3>4. g.runner = runner /\ g.id = Answering.id
      OBVIOUS
    <3> HIDE DEF g
    <3>5. \A h \in granted' : h.runner <= runner'
      BY <1>0, <2>1, <3>1, <3>4 DEF HandleInv
    <3>6. \A x, y \in granted' : x.runner = y.runner /\ x.id = y.id => x = y
      BY <3>1, <3>3, <3>4 DEF HandleInv
    <3>7. \A c \in Callers : call'[c] = call[c] \/ call'[c] = NoRequest
      BY <2>1 DEF TypeOK
    <3>8. \A c \in Callers : /\ call'[c].handle \in granted' \cup {NoHandle}
                             /\ call'[c].method \in Unaddressed => call'[c].handle = NoHandle
      BY <1>0, <3>1, <3>7 DEF HandleInv
    <3> QED
      BY <2>1, <2>2, <3>1, <3>5, <3>6, <3>8 DEF HandleInv, Replied
  <2>4. CASE ~(call[lock].method = "build.load" /\ Answering.code = "OK")
    <3>1. granted' = granted
      BY <2>1, <2>4 DEF Record
    <3> QED
      BY <1>1, <2>1, <2>2, <3>1 DEF Replied
  <2> QED
    BY <2>3, <2>4
<1>11. CASE UNCHANGED vars
  BY <1>11 DEF vars, HandleInv, Replied, Answering
<1> QED
  BY <1>2, <1>3, <1>4, <1>5, <1>6, <1>7, <1>8, <1>9, <1>10, <1>11 DEF Next, HostStep

(* The live id keeps naming its document, or the half-built one. *)
LEMMA BuildStep ==
  ASSUME TypeOK, ControlInv, PipeInv, HandleInv, BuildInv, [Next]_vars
  PROVE  BuildInv'
<1> USE DEF hostVars, procVars, histVars
<1>0. /\ \A h \in granted : h.runner \in Nat /\ h.id \in Nat /\ h.id # NoId
      /\ core \in CoreState /\ core.counter \in Nat /\ core.active \in Nat
  BY HostAssumption DEF TypeOK, Handles, Runners, CoreState
<1>1. ASSUME ~Replied', granted' = granted, core' = core, runner' = runner,
             alive' \subseteq alive
      PROVE  BuildInv'
  BY <1>1 DEF BuildInv
<1>2. ASSUME ~Replied', runner' \notin alive'
      PROVE  BuildInv'
  BY <1>2 DEF BuildInv
<1>3. ASSUME NEW c \in Callers, Invoke(c)
      PROVE  BuildInv'
  <2>1. \A d \in Callers : d # c => call'[d] = call[d]
    BY <1>3 DEF Invoke, TypeOK
  <2>2. pc # "idle" => lock \in Callers /\ lock # c
    BY <1>3, HolderFacts DEF Invoke, ControlInv
  <2>3. Replied' => Replied /\ Answering' = Answering /\ call'[lock] = call[lock]
    BY <1>3, <2>1, <2>2 DEF Invoke, Replied, Answering
  <2>4. /\ granted' = granted /\ runner' = runner /\ alive' = alive /\ core' = core
        /\ lock' = lock
    BY <1>3 DEF Invoke
  <2> QED
    BY <2>3, <2>4 DEF BuildInv
<1>4. ASSUME NEW c \in Callers, Acquire(c)
      PROVE  BuildInv'
  BY <1>1, <1>4 DEF Acquire, Replied
<1>5. CASE SpawnFails \/ RefuseMethod \/ RefuseOversize
  BY <1>1, <1>5 DEF SpawnFails, RefuseMethod, RefuseOversize, Answer, Replied
<1>6. CASE SendFails \/ ReceiveFails \/ ReceiveGarbage \/ ReceiveFatal
  BY <1>2, <1>6 DEF SendFails, ReceiveFails, ReceiveGarbage, ReceiveFatal, Answer, TearDown, Replied
<1>7. CASE Spawn
  <2>1. \A h \in granted : h.runner # runner'
    <3>1. \A h \in granted : h.runner <= runner
      BY DEF HandleInv
    <3>2. runner' = runner + 1 /\ runner \in Nat
      BY <1>7, HostAssumption DEF Spawn, TypeOK, Runners
    <3> QED
      BY <1>0, <3>1, <3>2
  <2>2. /\ core' = FreshCore /\ granted' = granted /\ ~Replied'
        /\ FreshCore.active <= FreshCore.counter /\ FreshCore.active = NoId
    BY <1>7 DEF Spawn, Replied, FreshCore, NoId
  <2> QED
    BY <2>1, <2>2 DEF BuildInv
<1>8. CASE Send
  <2>1. stdout = <<>>
    BY <1>8 DEF Send, PipeInv
  <2> QED
    BY <1>1, <1>8, <2>1 DEF Send, Replied
<1>9. CASE Handle
  <2>1. PICK o \in Outcomes(core, Pending.method, Pending.handle.id, Pending.arg) :
          /\ core' = o.core
          /\ \/ stdout' = <<>> /\ wedged'
             \/ stdout' # <<>> /\ ~wedged' /\ Answering' = o.reply
    BY <1>9, Handled
  <2>2. /\ runner \in alive /\ runner' = runner /\ alive' = alive /\ granted' = granted
        /\ call' = call /\ lock' = lock /\ pc' = pc
        /\ pc = "receive" => Pending = call[lock] /\ call[lock] \in Request
        /\ Pending \in Request \cup {Handshake}
    BY <1>9, Handled
  <2>3. /\ core.active <= core.counter
        /\ core.booted \/ core.active = NoId
        /\ \A h \in granted : h.runner = runner =>
             /\ h.id <= core.counter
             /\ h.id = core.active => core.live \in {h.doc, HalfBuilt}
    BY <2>2 DEF BuildInv
  <2>4. Replied' => pc = "receive" /\ Answering' = o.reply
    BY <2>1, <2>2 DEF Replied
  <2>5. CASE Pending.method = "build.load"
    <3>1. o \in Load(core, Pending.arg)
      BY <2>5 DEF Outcomes
    <3>2. /\ o.core \in CoreState /\ o.reply \in Reply
          /\ o.core.booted \/ o.core = core
          /\ o.core.counter >= core.counter
          /\ o.reply.code = "OK" =>
               /\ Pending.arg \in Docs /\ o.reply.id = core.counter + 1
               /\ o.core.active = o.reply.id /\ o.core.counter = o.reply.id
               /\ o.core.live = Pending.arg /\ o.core.inp = FromFile
          /\ o.reply.code # "OK" =>
               /\ o.core.active = core.active
               /\ o.core = core \/ o.core.live = HalfBuilt
      BY <1>0, <3>1, LoadFacts
    <3>3. o.core.counter \in Nat
      BY <3>2 DEF CoreState
    <3>4. /\ core'.active <= core'.counter
          /\ core'.booted \/ core'.active = NoId
          /\ \A h \in granted : h.runner = runner =>
               /\ h.id <= core'.counter
               /\ h.id = core'.active => core'.live \in {h.doc, HalfBuilt}
      <4>1. CASE o.reply.code = "OK"
        <5>1. core'.active = core.counter + 1 /\ core'.counter = core.counter + 1
          BY <2>1, <3>2, <4>1
        <5>2. core'.booted
          BY <1>0, <2>1, <3>2, <4>1, <5>1
        <5> QED
          BY <1>0, <2>3, <5>1, <5>2
      <4>2. CASE o.reply.code # "OK"
        BY <1>0, <2>1, <2>3, <3>2, <3>3, <4>2
      <4> QED
        BY <4>1, <4>2
    <3>5. Replied' /\ o.reply.code = "OK" =>
            Answering'.id = core'.active /\ core'.live = call'[lock'].arg
              /\ core'.inp = FromFile
      BY <2>1, <2>2, <2>4, <3>2
    <3>6. Replied' => call[lock].handle = NoHandle
      <4>1. Replied' => call[lock].method = "build.load" /\ lock \in Callers
        BY <2>2, <2>4, <2>5, HolderFacts
      <4> QED
        BY <4>1 DEF HandleInv, Unaddressed
    <3> QED
      BY <2>2, <2>4, <3>4, <3>5, <3>6 DEF BuildInv
  <2>6. CASE Pending.method # "build.load"
    <3>1. /\ SameBuild(core, o.core)
          /\ o.reply.code = "OK" /\ Pending.method \notin Unaddressed =>
               Resolves(core, Pending.handle.id) /\ o.reply.doc = core.live
      BY <2>2, <2>6, OutcomeCases
    <3>2. /\ core'.counter = core.counter /\ core'.active = core.active
          /\ core.booted => core'.booted /\ core'.live = core.live
      BY <2>1, <3>1 DEF SameBuild
    <3>3. /\ core'.active <= core'.counter
          /\ core'.booted \/ core'.active = NoId
          /\ \A h \in granted : h.runner = runner =>
               /\ h.id <= core'.counter
               /\ h.id = core'.active => core'.live \in {h.doc, HalfBuilt}
      BY <1>0, <2>3, <3>2
    <3>4. Replied' => call[lock].method # "build.load"
      BY <2>2, <2>4, <2>6
    <3>5. ASSUME Replied', o.reply.code = "OK", call[lock].handle # NoHandle,
                 call[lock].handle.runner = runner, o.reply.doc \in Docs
          PROVE  o.reply.doc = call[lock].handle.doc
      <4>1. pc = "receive" /\ lock \in Callers /\ Pending = call[lock]
        BY <2>2, <2>4, <3>5, HolderFacts
      <4>2. call[lock].handle \in granted /\ Pending.method \notin Unaddressed
        BY <3>5, <4>1 DEF HandleInv
      <4>3. call[lock].handle.id = core.active /\ o.reply.doc = core.live
        BY <3>1, <3>5, <4>1, <4>2 DEF Resolves
      <4> QED
        BY <2>3, <3>5, <4>2, <4>3, DocAssumption
    <3> QED
      BY <2>2, <2>4, <3>3, <3>4, <3>5 DEF BuildInv
  <2> QED
    BY <2>5, <2>6
<1>10. CASE Crash
  <2>1. /\ runner' \notin alive' /\ granted' = granted /\ Answering' = Answering
        /\ Replied' = Replied /\ call' = call /\ lock' = lock /\ runner' = runner
    BY <1>10 DEF Crash, Replied, Answering
  <2> QED
    BY <2>1 DEF BuildInv
<1>11. CASE Started
  BY <1>1, <1>11 DEF Started, Replied
<1>12. CASE Receive
  <2>1. /\ runner' = runner /\ ~Replied' /\ alive' = alive /\ core' = core
        /\ Record(call[lock], Answering) /\ pc = "receive" /\ stdout # <<>>
    BY <1>12 DEF Receive, Answer, Answering, Replied
  <2>2. CASE call[lock].method = "build.load" /\ Answering.code = "OK"
    <3> DEFINE g == [runner |-> runner, id |-> Answering.id, doc |-> call[lock].arg]
    <3>1. granted' = granted \cup {g} /\ g.id = Answering.id /\ g.doc = call[lock].arg
      BY <2>1, <2>2 DEF Record
    <3>2. runner \in alive => /\ core.active <= core.counter
                              /\ core.booted \/ core.active = NoId
                              /\ Answering.id = core.active /\ core.live = call[lock].arg
      BY <2>1, <2>2 DEF BuildInv, Replied
    <3> HIDE DEF g
    <3> QED
      BY <2>1, <3>1, <3>2 DEF BuildInv
  <2>3. CASE ~(call[lock].method = "build.load" /\ Answering.code = "OK")
    BY <1>1, <2>1, <2>3 DEF Record
  <2> QED
    BY <2>2, <2>3
<1>13. CASE UNCHANGED vars
  BY <1>13 DEF vars, BuildInv, Replied, Answering
<1> QED
  BY <1>3, <1>4, <1>5, <1>6, <1>7, <1>8, <1>9, <1>10, <1>11, <1>12, <1>13 DEF Next, HostStep

(* An OK answer is taken from a reply that served its own build. *)
LEMMA OwnBuildStep ==
  ASSUME TypeOK, ControlInv, PipeInv, BuildInv, RepliesServeOwnBuild, [Next]_vars
  PROVE  RepliesServeOwnBuild'
<1> USE DEF hostVars, procVars, histVars
<1>1. ASSUME last' = last
      PROVE  RepliesServeOwnBuild'
  BY <1>1 DEF RepliesServeOwnBuild
<1>2. ASSUME last'.code # "OK"
      PROVE  RepliesServeOwnBuild'
  BY <1>2 DEF RepliesServeOwnBuild
<1>3. CASE \/ \E c \in Callers : Invoke(c)
           \/ Spawn \/ Send \/ Handle \/ Crash \/ Started \/ UNCHANGED vars
  BY <1>1, <1>3 DEF Invoke, Spawn, Send, Handle, Crash, Started, vars
<1>4. CASE \/ \E c \in Callers : Acquire(c)
           \/ SpawnFails \/ RefuseMethod \/ RefuseOversize \/ SendFails \/ ReceiveFails
           \/ ReceiveGarbage \/ ReceiveFatal
  BY <1>2, <1>4 DEF Acquire, NoAnswer, SpawnFails, RefuseMethod, RefuseOversize, SendFails,
                    ReceiveFails, ReceiveGarbage, ReceiveFatal, Answer, TearsDown
<1>5. CASE Receive
  <2>1. /\ last'.code = HostCode(Answering.code) /\ last'.from = runner
        /\ last'.req = call[lock] /\ last'.reply = Answering /\ Replied
    BY <1>5 DEF Receive, Answer, Answering, Replied
  <2>2. last'.code = "OK" => Answering.code = "OK"
    BY <2>1 DEF HostCode
  <2>3. Answering.code = "OK" /\ call[lock].handle # NoHandle
          /\ call[lock].handle.runner = runner /\ Answering.doc \in Docs =>
          Answering.doc = call[lock].handle.doc
    BY <2>1 DEF BuildInv
  <2> QED
    BY <2>1, <2>2, <2>3 DEF RepliesServeOwnBuild
<1> QED
  BY <1>3, <1>4, <1>5 DEF Next, HostStep

(* The live inputs stay among those the answers allow. *)
LEMMA BeliefStep ==
  ASSUME TypeOK, ControlInv, PipeInv, HandleInv, BuildInv, BeliefInv, [Next]_vars
  PROVE  BeliefInv'
<1> USE DEF hostVars, procVars, histVars
<1>0. /\ \A h \in granted : h.runner \in Nat /\ h.id \in Nat /\ h.id # NoId
                            /\ believed[h] \in SUBSET Inputs
      /\ core \in CoreState /\ core.counter \in Nat /\ core.active \in Nat
  BY HostAssumption DEF TypeOK, Handles, Runners, CoreState
<1>1. ASSUME ~Replied, ~Replied', granted' = granted, believed' = believed, core' = core,
             runner' = runner, alive' \subseteq alive, wedged' = wedged
      PROVE  BeliefInv'
  BY <1>1 DEF BeliefInv, Foreseen
<1>2. ASSUME ~Replied', runner' \notin alive'
      PROVE  BeliefInv'
  BY <1>2 DEF BeliefInv
<1>3. ASSUME NEW c \in Callers, Invoke(c)
      PROVE  BeliefInv'
  <2>1. \A d \in Callers : d # c => call'[d] = call[d]
    BY <1>3 DEF Invoke, TypeOK
  <2>2. pc # "idle" => lock \in Callers /\ lock # c
    BY <1>3, HolderFacts DEF Invoke, ControlInv
  <2>3. /\ Replied' = Replied /\ Answering' = Answering
        /\ Replied => call'[lock] = call[lock]
    BY <1>3, <2>1, <2>2 DEF Invoke, Replied, Answering
  <2>4. /\ granted' = granted /\ runner' = runner /\ alive' = alive /\ core' = core
        /\ lock' = lock /\ believed' = believed /\ wedged' = wedged
    BY <1>3 DEF Invoke
  <2>5. \A h : Foreseen(h)' = Foreseen(h)
    BY <2>3, <2>4 DEF Foreseen
  <2> QED
    BY <2>3, <2>4, <2>5 DEF BeliefInv
<1>4. ASSUME NEW c \in Callers, Acquire(c)
      PROVE  BeliefInv'
  BY <1>1, <1>4 DEF Acquire, Replied, ControlInv
<1>5. CASE SpawnFails \/ RefuseMethod \/ RefuseOversize
  BY <1>1, <1>5 DEF SpawnFails, RefuseMethod, RefuseOversize, Answer, Replied
<1>6. CASE SendFails \/ ReceiveFails \/ ReceiveGarbage \/ ReceiveFatal
  BY <1>2, <1>6 DEF SendFails, ReceiveFails, ReceiveGarbage, ReceiveFatal, Answer, TearDown, Replied
<1>7. CASE Spawn
  <2>1. \A h \in granted : h.runner # runner'
    <3>1. \A h \in granted : h.runner <= runner
      BY DEF HandleInv
    <3>2. runner' = runner + 1 /\ runner \in Nat
      BY <1>7, HostAssumption DEF Spawn, TypeOK, Runners
    <3> QED
      BY <1>0, <3>1, <3>2
  <2>2. granted' = granted /\ ~Replied'
    BY <1>7 DEF Spawn, Replied
  <2> QED
    BY <2>1, <2>2 DEF BeliefInv
<1>8. CASE Send
  <2>1. stdout = <<>>
    BY <1>8 DEF Send, PipeInv
  <2> QED
    BY <1>1, <1>8, <2>1 DEF Send, Replied
<1>9. CASE Handle
  <2>1. PICK o \in Outcomes(core, Pending.method, Pending.handle.id, Pending.arg) :
          /\ core' = o.core
          /\ \/ stdout' = <<>> /\ wedged'
             \/ stdout' # <<>> /\ ~wedged' /\ Answering' = o.reply
    BY <1>9, Handled
  <2>2. /\ runner \in alive /\ runner' = runner /\ alive' = alive /\ granted' = granted
        /\ call' = call /\ lock' = lock /\ pc' = pc /\ believed' = believed
        /\ pc = "receive" => Pending = call[lock] /\ call[lock] \in Request
        /\ Pending \in Request \cup {Handshake}
        /\ stdout = <<>> /\ ~wedged
    BY <1>9, Handled
  <2>3. Replied' => pc = "receive" /\ Answering' = o.reply /\ Pending = call[lock]
    BY <2>1, <2>2 DEF Replied
  <2>4. /\ core.booted \/ core.active = NoId
        /\ \A h \in granted : h.runner = runner => h.id <= core.counter
    BY <2>2 DEF BuildInv
  <2>5. \A h \in granted : h.runner = runner /\ h.id = core.active /\ core.live # HalfBuilt =>
          core.inp \in believed[h]
    BY <2>2 DEF BeliefInv, Foreseen, Replied
  <2>6. \A h : Foreseen(h)' = IF Replied' /\ Pending.method \in Mutators /\ Pending.handle.id = h.id
                              THEN AfterEdit(believed[h], Pending, o.reply.code = "OK")
                              ELSE believed[h]
    BY <2>2, <2>3 DEF Foreseen
  <2>7. ~wedged' /\ Pending # Handshake => Replied' \/ pc = "handshake"
    <3>1. pc \in {"handshake", "receive"}
      BY <1>9, FrameInFlight DEF Handle
    <3> QED
      BY <2>1, <2>2, <3>1 DEF Replied
  <2>8. ASSUME ~wedged', core'.live # HalfBuilt, NEW h \in granted, h.runner = runner,
               h.id = core'.active
        PROVE  core'.inp \in Foreseen(h)'
    <3>1. CASE Pending.method = "build.load"
      <4>1. o \in Load(core, Pending.arg)
        BY <3>1 DEF Outcomes
      <4>2. /\ o.reply.code = "OK" => o.core.active = core.counter + 1
            /\ o.reply.code # "OK" => o.core = core \/ o.core.live = HalfBuilt
        BY <1>0, <4>1, LoadFacts
      <4>3. o.reply.code # "OK" /\ o.core = core
        BY <1>0, <2>1, <2>4, <2>8, <4>2
      <4>4. core'.inp \in believed[h]
        BY <2>1, <2>5, <2>8, <4>3
      <4> QED
        BY <2>6, <3>1, <4>4 DEF Mutators
    <3>2. CASE Pending.method \in Mutators
      <4>1. Pending \in Request /\ Pending # Handshake
        BY <2>2, <3>2 DEF Handshake, Mutators
      <4>2. /\ SameBuild(core, o.core)
            /\ ~Resolves(core, Pending.handle.id) => o.core = core
            /\ \A B \in SUBSET Inputs :
                 core.inp \in B => o.core.inp \in AfterEdit(B, Pending, o.reply.code = "OK")
        BY <1>0, <3>2, <4>1, EditFacts
      <4>3. h.id = core.active /\ core.live # HalfBuilt /\ core.active # NoId
        BY <1>0, <2>1, <2>4, <2>8, <4>2 DEF SameBuild
      <4>4. core.inp \in believed[h] /\ believed[h] \in SUBSET Inputs
        BY <1>0, <2>5, <2>8, <4>3
      <4>5. CASE Pending.handle.id = h.id
        <5>1. Replied'
          <6>1. pc # "handshake"
            BY <3>2 DEF Pending, Handshake, Mutators
          <6> QED
            BY <2>7, <2>8, <4>1, <6>1
        <5>2. core'.inp \in AfterEdit(believed[h], Pending, o.reply.code = "OK")
          BY <2>1, <4>2, <4>4
        <5> QED
          BY <2>6, <3>2, <4>5, <5>1, <5>2
      <4>6. CASE Pending.handle.id # h.id
        <5>1. core' = core
          BY <2>1, <4>2, <4>3, <4>6 DEF Resolves
        <5> QED
          BY <2>6, <4>4, <4>6, <5>1
      <4> QED
        BY <4>5, <4>6
    <3>3. CASE Pending.method \notin Mutators /\ Pending.method # "build.load"
      <4>1. SameBuild(core, o.core) /\ o.core.inp = core.inp
        BY <1>0, <3>3, QueryFacts
      <4>2. h.id = core.active /\ core.live # HalfBuilt
        BY <1>0, <2>1, <2>4, <2>8, <4>1 DEF SameBuild
      <4>3. core'.inp \in believed[h]
        BY <2>1, <2>5, <2>8, <4>1, <4>2
      <4> QED
        BY <2>6, <3>3, <4>3
    <3> QED
      BY <3>1, <3>2, <3>3
  <2>9. ASSUME Replied', call[lock].method = "build.save", o.reply.code = "OK",
               call[lock].handle.runner = runner, call[lock].handle # NoHandle
        PROVE  o.reply.shows \in believed[call[lock].handle]
    <3>1. Pending.method = "build.save" /\ Pending = call[lock] /\ lock \in Callers
      BY <2>3, <2>9, HolderFacts
    <3>2. call[lock].handle \in granted
      BY <2>9, <3>1 DEF HandleInv
    <3>3. /\ Resolves(core, Pending.handle.id)
          /\ o.reply.shows = core.inp /\ core.live # HalfBuilt
      BY <1>0, <2>9, <3>1, QueryFacts DEF Mutators, Unaddressed
    <3> QED
      BY <2>5, <2>9, <3>1, <3>2, <3>3 DEF Resolves
  <2> QED
    BY <2>2, <2>3, <2>8, <2>9 DEF BeliefInv
<1>10. CASE Crash
  <2>1. /\ runner' \notin alive' /\ granted' = granted /\ Answering' = Answering
        /\ Replied' = Replied /\ call' = call /\ lock' = lock /\ runner' = runner
        /\ believed' = believed
    BY <1>10 DEF Crash, Replied, Answering
  <2> QED
    BY <2>1 DEF BeliefInv
<1>11. CASE Started
  BY <1>1, <1>11 DEF Started, Replied, ControlInv
<1>12. CASE Receive
  <2>1. /\ runner' = runner /\ ~Replied' /\ alive' = alive /\ core' = core
        /\ wedged' = wedged /\ Record(call[lock], Answering) /\ Replied
    BY <1>12 DEF Receive, Answer, Answering, Replied
  <2>2. \A h : Foreseen(h)' = believed'[h]
    BY <2>1 DEF Foreseen
  <2>3. CASE call[lock].method = "build.load" /\ Answering.code = "OK"
    <3> DEFINE g == [runner |-> runner, id |-> Answering.id, doc |-> call[lock].arg]
    <3>1. /\ granted' = granted \cup {g} /\ g.id = Answering.id
          /\ believed' = [h \in granted \cup {g} |-> IF h = g THEN {FromFile} ELSE believed[h]]
      BY <2>1, <2>3 DEF Record
    <3>2. runner \in alive => Answering.id = core.active /\ core.inp = FromFile
      BY <2>1, <2>3 DEF BuildInv
    <3>3. \A h \in granted : h.runner = runner => h.id # Answering.id
      <4>1. Answering.id \in Nat
        BY <2>1, ReplyFacts DEF Reply, Replied
      <4>2. \A h \in granted : h.runner = runner => h.id < Answering.id
        BY <2>1, <2>3 DEF HandleInv
      <4> QED
        BY <1>0, <4>1, <4>2
    <3> HIDE DEF g
    <3>4. ASSUME runner \in alive, NEW h \in granted', h.runner = runner, h.id = core.active
          PROVE  core.inp \in believed'[h]
      BY <3>1, <3>2, <3>3, <3>4
    <3> QED
      BY <2>1, <2>2, <3>4 DEF BeliefInv
  <2>4. CASE ~(call[lock].method = "build.load" /\ Answering.code = "OK")
    <3>1. /\ granted' = granted
          /\ believed' = [h \in granted |->
                           IF call[lock].method \in Mutators /\ Addressed(call[lock], h)
                           THEN AfterEdit(believed[h], call[lock], Answering.code = "OK")
                           ELSE believed[h]]
      BY <2>1, <2>4 DEF Record
    <3>2. \A h \in granted : h.runner = runner => believed'[h] = Foreseen(h)
      BY <2>1, <3>1 DEF Foreseen, Addressed
    <3> QED
      BY <2>1, <2>2, <3>1, <3>2 DEF BeliefInv
  <2> QED
    BY <2>3, <2>4
<1>13. CASE UNCHANGED vars
  <2>1. \A h : Foreseen(h)' = Foreseen(h)
    BY <1>13 DEF vars, Foreseen, Replied, Answering
  <2> QED
    BY <1>13, <2>1 DEF vars, BeliefInv, Replied, Answering
<1> QED
  BY <1>3, <1>4, <1>5, <1>6, <1>7, <1>8, <1>9, <1>10, <1>11, <1>12, <1>13 DEF Next, HostStep

(* So a saved file, read from the live inputs, stays among them. *)
LEMMA SavedStep ==
  ASSUME TypeOK, ControlInv, PipeInv, HandleInv, BeliefInv, SavedFileFollowsTheAnswers,
         [Next]_vars
  PROVE  SavedFileFollowsTheAnswers'
<1> USE DEF hostVars, procVars, histVars
<1>1. ASSUME last' = last, believed' = believed
      PROVE  SavedFileFollowsTheAnswers'
  BY <1>1 DEF SavedFileFollowsTheAnswers
<1>2. ASSUME last'.code # "OK"
      PROVE  SavedFileFollowsTheAnswers'
  BY <1>2 DEF SavedFileFollowsTheAnswers
<1>3. CASE \/ \E c \in Callers : Invoke(c)
           \/ Spawn \/ Send \/ Handle \/ Crash \/ Started \/ UNCHANGED vars
  BY <1>1, <1>3 DEF Invoke, Spawn, Send, Handle, Crash, Started, vars
<1>4. CASE \/ \E c \in Callers : Acquire(c)
           \/ SpawnFails \/ RefuseMethod \/ RefuseOversize \/ SendFails \/ ReceiveFails
           \/ ReceiveGarbage \/ ReceiveFatal
  BY <1>2, <1>4 DEF Acquire, NoAnswer, SpawnFails, RefuseMethod, RefuseOversize, SendFails,
                    ReceiveFails, ReceiveGarbage, ReceiveFatal, Answer, TearsDown
<1>5. CASE Receive
  <2>1. /\ last'.code = HostCode(Answering.code) /\ last'.from = runner
        /\ last'.req = call[lock] /\ last'.reply = Answering /\ Replied
        /\ Record(call[lock], Answering)
    BY <1>5 DEF Receive, Answer, Answering, Replied
  <2>2. ASSUME Answering.code = "OK", call[lock].method = "build.save",
               call[lock].handle.runner = runner, call[lock].handle # NoHandle
        PROVE  Answering.shows \in believed'[call[lock].handle]
    <3>1. call[lock].handle \in granted
      BY <2>1, <2>2, HolderFacts DEF Replied, HandleInv
    <3>2. believed'[call[lock].handle] = believed[call[lock].handle]
      BY <2>1, <2>2, <3>1 DEF Record, Mutators
    <3> QED
      BY <2>1, <2>2, <3>2 DEF BeliefInv
  <2>3. last'.code = "OK" => Answering.code = "OK"
    BY <2>1 DEF HostCode
  <2> QED
    BY <2>1, <2>2, <2>3 DEF SavedFileFollowsTheAnswers
<1> QED
  BY <1>3, <1>4, <1>5 DEF Next, HostStep
-----------------------------------------------------------------------------
(* The inductive invariant holds at the start ... *)
LEMMA InvInit == Init => IInv
<1> SUFFICES ASSUME Init PROVE IInv
  OBVIOUS
<1>1. TypeOK
  BY TypeInit
<1>2. ControlInv
  BY HostAssumption DEF Init, ControlInv, Owned
<1>3. ReportInv
  <2>1. \A r \in Runners : ~(r < 0) /\ r # 0
    BY HostAssumption DEF Runners
  <2> QED
    BY <2>1 DEF Init, ReportInv
<1>4. PipeInv
  BY DEF Init, PipeInv
<1>5. HandleInv
  BY DEF Init, HandleInv, Replied, NoRequest, NoAnswer
<1>6. BuildInv /\ BeliefInv
  BY DEF Init, BuildInv, BeliefInv, Replied
<1>7. AnswersMatchRequests /\ RepliesServeOwnBuild /\ SavedFileFollowsTheAnswers
  BY DEF Init, NoAnswer, AnswersMatchRequests, RepliesServeOwnBuild, SavedFileFollowsTheAnswers
<1> QED
  BY <1>1, <1>2, <1>3, <1>4, <1>5, <1>6, <1>7 DEF IInv

(* ... is kept by every step ... *)
LEMMA InvStep == IInv /\ [Next]_vars => IInv'
<1> SUFFICES ASSUME IInv, [Next]_vars PROVE IInv'
  OBVIOUS
<1>1. /\ TypeOK /\ ControlInv /\ ReportInv /\ PipeInv /\ HandleInv /\ BuildInv /\ BeliefInv
      /\ AnswersMatchRequests /\ RepliesServeOwnBuild /\ SavedFileFollowsTheAnswers
  BY DEF IInv
<1>2. TypeOK' /\ ControlInv' /\ ReportInv' /\ PipeInv'
  BY <1>1, TypeStep, ControlStep, ReportStep, PipeStep
<1>3. HandleInv' /\ BuildInv' /\ BeliefInv'
  BY <1>1, HandleStep, BuildStep, BeliefStep
<1>4. AnswersMatchRequests' /\ RepliesServeOwnBuild' /\ SavedFileFollowsTheAnswers'
  BY <1>1, MatchStep, OwnBuildStep, SavedStep
<1> QED
  BY <1>2, <1>3, <1>4 DEF IInv

(* ... and so always holds. *)
LEMMA InvAlways == Safety => []IInv
  BY InvInit, InvStep, PTL DEF Safety

(* Every variable keeps its type, and whatever the runner answers reaches  *)
(* the WebView as a result or as one of the six normalised codes.          *)
THEOREM TypeCorrect == Safety => []TypeOK
<1>1. IInv => TypeOK
  BY DEF IInv
<1> QED
  BY <1>1, InvAlways, PTL

(* The answer a caller gets is the answer to its own frame, although the   *)
(* bridge never compares ids.                                              *)
THEOREM OneExchange == Safety => []AnswersMatchRequests
<1>1. IInv => AnswersMatchRequests
  BY DEF IInv
<1> QED
  BY <1>1, InvAlways, PTL

(* At most one runner is alive, and the bridge owns it. *)
THEOREM NoRunnerLeaks == Safety => []NoOrphanRunner
<1>1. IInv => NoOrphanRunner
  <2> SUFFICES ASSUME IInv PROVE NoOrphanRunner
    OBVIOUS
  <2> QED
    BY DEF IInv, ControlInv, NoOrphanRunner, Owned
<1> QED
  BY <1>1, InvAlways, PTL

(* The loss of a runner is reported by exactly one answer. *)
THEOREM LossReportedOnce == Safety => []ExactlyOneLossReport
<1>1. IInv => ExactlyOneLossReport
  <2> SUFFICES ASSUME IInv PROVE ExactlyOneLossReport
    OBVIOUS
  <2>1. \A r \in Runners : r \in Nat
    BY HostAssumption DEF Runners
  <2>2. ASSUME slot # 0
        PROVE  slot = runner /\ runner \in Runners /\ Owned
    BY <2>2 DEF IInv, TypeOK, ControlInv, Owned
  <2>3. slot # 0 => reports[slot] = 0
    BY <2>1, <2>2 DEF IInv, ReportInv
  <2>4. \A r \in Runners : r < runner => reports[r] = 1
    BY DEF IInv, ReportInv
  <2> QED
    BY <2>3, <2>4 DEF ExactlyOneLossReport
<1> QED
  BY <1>1, InvAlways, PTL

(* While its runner lives, a handle is never served from another document. *)
THEOREM OwnBuildServed == Safety => []RepliesServeOwnBuild
<1>1. IInv => RepliesServeOwnBuild
  BY DEF IInv
<1> QED
  BY <1>1, InvAlways, PTL

(* A saved file is one that the answers given so far allow. *)
THEOREM SavedFileFaithful == Safety => []SavedFileFollowsTheAnswers
<1>1. IInv => SavedFileFollowsTheAnswers
  BY DEF IInv
<1> QED
  BY <1>1, InvAlways, PTL
-----------------------------------------------------------------------------
(* The service CoreHost implements (HostService).                          *)

(* The outcomes of every method are those of the host's core. *)
LEMMA SameOutcomes ==
  \A c, method, id, arg : Service!Outcomes(c, method, id, arg) = Outcomes(c, method, id, arg)
  BY DEF Service!Outcomes, Outcomes, Service!Outcome, Outcome, Service!Serve, Serve,
         Service!FromFile, FromFile, Service!NoId, NoId, Service!Load, Load,
         Service!Boot, Boot, Service!BootFailure, BootFailure, Service!Refuse, Refuse,
         Service!Refusal, Refusal, Service!Save, Save, Service!WithBuild, WithBuild,
         Service!Resolves, Resolves, Service!CalcRun, CalcRun, Service!Explain, Explain,
         Service!ReadOnly, ReadOnly, Service!ParseClipboard, ParseClipboard,
         Service!GetEquipped, GetEquipped, Service!Compare, Compare,
         Service!GetGroups, GetGroups, Service!GetOptions, GetOptions,
         Service!GetTree, GetTree, Service!PreviewAllocate, PreviewAllocate,
         Service!SetGemGroup, SetGemGroup, Service!SetOption, SetOption,
         Service!ApplyAllocate, ApplyAllocate, Service!Frame, Frame

(* Between two lines a runner that lives holds the core its callers know;  *)
(* a reply on its way is one that core gives to the request in flight, and *)
(* what the line has made of it stays known though the runner may exit.    *)
HeardInv ==
  /\ slot = 0 => heard = FreshCore
  /\ runner \in alive /\ ~wedged /\ (stdout = <<>> \/ pc = "handshake") => core = heard
  /\ pc = "receive" => call[lock].method \in CoreMethods
  /\ Replied =>
       /\ runner \in alive => core = left
       /\ \E o \in Outcomes(heard, call[lock].method, call[lock].handle.id, call[lock].arg) :
            o.core = left /\ o.reply = Answering

(* A step of the callers' view is a step of the host. *)
LEMMA ServiceStep == [ServiceNext]_<<vars, serviceVars>> => [Next]_vars
  BY DEF ServiceNext, Asks, Moves, RunnerHandles, Refuses, Hears, Loses, Next, HostStep

LEMMA HeardInit == ServiceInit => HeardInv
  BY DEF ServiceInit, Init, HeardInv, Replied

LEMMA HeardStep ==
  ASSUME IInv, IInv', HeardInv, [ServiceNext]_<<vars, serviceVars>>
  PROVE  HeardInv'
<1> USE DEF hostVars, procVars, histVars, serviceVars
<1>0. /\ TypeOK /\ ControlInv /\ PipeInv
      /\ TypeOK' /\ ControlInv' /\ PipeInv'
  BY DEF IInv
<1>1. CASE UNCHANGED <<vars, serviceVars>>
  BY <1>1 DEF vars, HeardInv, Replied, Answering
<1>2. ASSUME NEW c \in Callers, Asks(c)
      PROVE  HeardInv'
  <2>1. /\ lock \in Callers => lock # c
        /\ pc = "receive" => lock \in Callers /\ call'[lock] = call[lock]
    BY <1>0, <1>2, HolderFacts DEF Asks, Invoke, ControlInv, TypeOK
  <2>2. UNCHANGED <<lock, pc, slot, runner, alive, stdout, wedged, core, heard, left>>
    BY <1>2 DEF Asks, Invoke
  <2> QED
    BY <2>1, <2>2 DEF HeardInv, Replied, Answering
<1>3. CASE Moves
  <2>1. UNCHANGED <<heard, left>>
    BY <1>3 DEF Moves
  <2>2. CASE \E c \in Callers : Acquire(c)
    <3>1. UNCHANGED <<slot, runner, alive, stdout, wedged, core>> /\ pc' \in {"spawn", "send"}
      BY <2>2 DEF Acquire
    <3> QED
      BY <1>0, <2>1, <2>2, <3>1 DEF HeardInv, Replied, PipeInv, ControlInv, Acquire
  <2>3. CASE Spawn
    <3>1. slot' = slot /\ slot = 0 /\ core' = FreshCore /\ pc' = "handshake"
      BY <1>0, <2>3 DEF Spawn, ControlInv
    <3> QED
      BY <2>1, <3>1 DEF HeardInv, Replied
  <2>4. CASE Send
    <3>1. /\ UNCHANGED <<call, lock, slot, runner, alive, stdout, wedged, core>> /\ pc' = "receive"
          /\ call[lock].method \in CoreMethods /\ stdout = <<>>
      BY <1>0, <2>4 DEF Send, AllowedMethods, PipeInv
    <3> QED
      BY <2>1, <3>1 DEF HeardInv, Replied
  <2>5. CASE Started
    <3>1. /\ UNCHANGED <<runner, alive, wedged, core>> /\ pc = "handshake" /\ pc' = "send"
          /\ slot = 0 /\ stdout' = <<>> /\ slot' = runner /\ runner # 0
      BY <1>0, <2>5, ReplyFacts DEF Started, ControlInv
    <3> QED
      BY <2>1, <3>1 DEF HeardInv, Replied
  <2>6. CASE Crash
    <3>1. /\ UNCHANGED <<call, lock, pc, slot, runner, stdout>>
          /\ runner' \notin alive'
      BY <2>6 DEF Crash
    <3> QED
      BY <2>1, <3>1 DEF HeardInv, Replied, Answering
  <2> QED
    BY <1>3, <2>2, <2>3, <2>4, <2>5, <2>6 DEF Moves
<1>4. CASE RunnerHandles
  <2>1. /\ UNCHANGED <<call, lock, pc, runner, alive, slot, heard>> /\ left' = core'
        /\ runner \in alive /\ stdout = <<>> /\ ~wedged
        /\ pc = "receive" => Pending = call[lock]
        /\ pc \in {"handshake", "receive"}
    BY <1>0, <1>4, Handled, FrameInFlight DEF RunnerHandles, Handle
  <2>2. PICK o \in Outcomes(core, Pending.method, Pending.handle.id, Pending.arg) :
          /\ core' = o.core
          /\ \/ stdout' = <<>> /\ wedged'
             \/ stdout' # <<>> /\ ~wedged' /\ Answering' = o.reply
    BY <1>0, <1>4, Handled DEF RunnerHandles
  <2>3. core = heard
    BY <2>1 DEF HeardInv
  <2>4. CASE pc = "receive"
    <3>1. stdout' # <<>> =>
            \E x \in Outcomes(heard, call[lock].method, call[lock].handle.id, call[lock].arg) :
              x.core = left' /\ x.reply = Answering'
      BY <2>1, <2>2, <2>3, <2>4
    <3> QED
      BY <2>1, <2>2, <2>4, <3>1 DEF HeardInv, Replied
  <2>5. CASE pc = "handshake"
    <3>1. Pending = Handshake
      BY <2>5 DEF Pending
    <3>2. o.core = core
      BY <2>2, <3>1 DEF Handshake, Outcomes, Outcome
    <3> QED
      BY <2>1, <2>2, <2>3, <2>5, <3>2 DEF HeardInv, Replied
  <2> QED
    BY <2>1, <2>4, <2>5
<1>5. CASE Refuses
  <2>1. /\ UNCHANGED <<slot, runner, alive, stdout, wedged, core, heard>> /\ pc' = "idle"
        /\ pc \in {"spawn", "send"}
    BY <1>5 DEF Refuses, SpawnFails, RefuseMethod, RefuseOversize, Answer
  <2> QED
    BY <2>1 DEF HeardInv, Replied
<1>6. CASE Hears
  <2>1. /\ UNCHANGED <<slot, runner, alive, wedged, core>> /\ pc' = "idle" /\ heard' = left
        /\ pc = "receive" /\ stdout # <<>>
    BY <1>6 DEF Hears, Receive, Answer
  <2>2. slot # 0 /\ (runner \in alive => core = left)
    BY <1>0, <2>1 DEF ControlInv, HeardInv, Replied
  <2> QED
    BY <2>1, <2>2 DEF HeardInv, Replied
<1>7. CASE Loses
  <2>1. slot' = 0 /\ heard' = FreshCore /\ pc' = "idle" /\ alive' = alive \ {runner} /\ runner' = runner
    BY <1>7 DEF Loses, SendFails, ReceiveFails, ReceiveGarbage, ReceiveFatal, TearDown, Answer
  <2> QED
    BY <2>1 DEF HeardInv, Replied
<1> QED
  BY <1>1, <1>2, <1>3, <1>4, <1>5, <1>6, <1>7 DEF ServiceNext

LEMMA HeardAlways == ServiceSafety => [](IInv /\ HeardInv)
<1>1. ServiceInit => Init
  BY DEF ServiceInit
<1>2. ServiceSafety => Safety
  BY <1>1, ServiceStep, PTL DEF ServiceSafety, Safety
<1>3. IInv /\ IInv' /\ HeardInv /\ [ServiceNext]_<<vars, serviceVars>> => HeardInv'
  BY HeardStep
<1> QED
  BY <1>2, <1>3, HeardInit, InvAlways, PTL DEF ServiceSafety

(* The core the service starts with is a fresh runner's. *)
LEMMA SameFreshCore == Service!FreshCore = FreshCore
  BY DEF FreshCore, Service!FreshCore, FromFile, Service!FromFile, NoId, Service!NoId

(* Only a caller that has asked for something is awaiting an answer. *)
LEMMA WireFacts ==
  /\ Wire(NoRequest) = Service!Unasked
  /\ \A r \in Request : Wire(r) # Service!Unasked /\ Wire(r).method = r.method
                        /\ Wire(r).id = r.handle.id /\ Wire(r).arg = r.arg
<1>1. Wire(NoRequest) = Service!Unasked
  BY DEF Wire, NoRequest, NoHandle, NoArg, Service!Unasked, Service!NoId, NoId
<1>2. \A r \in Request : r.method \in Methods
  BY DEF Request
<1>3. \A r \in Request : Wire(r).method # "none"
  BY <1>2, HostAssumption DEF Wire
<1> QED
  BY <1>1, <1>3 DEF Wire, Service!Unasked

(* An invocation that settles answers its request, with what the caller    *)
(* is given.                                                               *)
LEMMA SettledAnswer ==
  ASSUME TypeOK, ControlInv, pc # "idle", Settles,
         NEW code, NEW sent, NEW got, NEW from, NEW kept, NEW reply,
         Answer(code, sent, got, from, kept, reply)
  PROVE  Service!Answer(lock, IF code = "OK" THEN reply ELSE Service!Refusal(code))
<1>1. lock \in Callers /\ call[lock] \in Request
  BY HolderFacts
<1>2. call' = [call EXCEPT ![lock] = NoRequest] /\ call \in [Callers -> Request \cup {NoRequest}]
  BY DEF Answer, TypeOK
<1>3. [c \in Callers |-> Wire(call[c])]' =
        [[c \in Callers |-> Wire(call[c])] EXCEPT ![lock] = Service!Unasked]
  BY <1>1, <1>2, WireFacts
<1>4. given' = [given EXCEPT ![lock] = IF code = "OK" THEN reply ELSE Service!Refusal(code)]
  BY DEF Settles, Answer, Refusal, Service!Refusal, FromFile, Service!FromFile,
           NoId, Service!NoId
<1> QED
  BY <1>1, <1>3, <1>4, WireFacts DEF Service!Answer

(* core_request is atomic to its callers.  A request takes effect when its *)
(* reply is read; whatever the runner does before is a stutter, and the    *)
(* answer that reports a failed pipe or a fatal code is the loss.          *)
THEOREM ImplementsTheService == ServiceSafety => ServesAtomically
<1> DEFINE asked == [c \in Callers |-> Wire(call[c])]
<1>1. ServiceInit => Service!Init
  <2> SUFFICES ASSUME ServiceInit PROVE Service!Init
    OBVIOUS
  <2>1. asked = [c \in Callers |-> Service!Unasked]
    BY WireFacts DEF ServiceInit, Init
  <2>2. heard = Service!FreshCore
    BY SameFreshCore DEF ServiceInit
  <2>3. given = [c \in Callers |-> Service!NoAnswer]
    BY DEF ServiceInit, Service!NoAnswer, Refusal, Service!Refusal, FromFile, Service!FromFile,
           NoId, Service!NoId
  <2> QED
    BY <2>1, <2>2, <2>3 DEF Service!Init
<1>2. ASSUME IInv, IInv', HeardInv, [ServiceNext]_<<vars, serviceVars>>
      PROVE  [Service!Next]_<<asked, heard, given>>
  <2> USE DEF hostVars, procVars, histVars, serviceVars
  <2>0. TypeOK /\ ControlInv /\ PipeInv
    BY <1>2 DEF IInv
  <2>1. CASE UNCHANGED <<vars, serviceVars>>
    BY <2>1 DEF vars
  <2>2. ASSUME NEW c \in Callers, Asks(c)
        PROVE  Service!Ask(c)
    <3>1. /\ call[c] = NoRequest /\ UNCHANGED heard
          /\ call' = [call EXCEPT ![c] = call'[c]] /\ call'[c].method \in Methods
          /\ given' = [given EXCEPT ![c] = Refusal("OK")]
      BY <2>0, <2>2 DEF Asks, Invoke, TypeOK
    <3>2. call'[c] \in Request
      <4>1. call'[c] \in Request \cup {NoRequest}
        BY <1>2 DEF IInv, TypeOK
      <4> QED
        BY <3>1, <4>1, HostAssumption DEF NoRequest
    <3>3. asked' = [asked EXCEPT ![c] = Wire(call'[c])] /\ asked'[c] = Wire(call'[c])
      BY <2>0, <3>1 DEF TypeOK
    <3>4. asked[c] = Service!Unasked /\ asked'[c] # Service!Unasked
      BY <3>1, <3>2, <3>3, WireFacts
    <3>5. Service!NoAnswer = Refusal("OK")
      BY DEF Service!NoAnswer, Refusal, Service!Refusal, FromFile, Service!FromFile,
             NoId, Service!NoId
    <3> QED
      BY <3>1, <3>3, <3>4, <3>5 DEF Service!Ask
  <2>3. CASE Moves
    <3>1. call' = call
      BY <2>3 DEF Moves, Acquire, Spawn, Send, Started, Crash
    <3> QED
      BY <2>3, <3>1 DEF Moves
  <2>4. CASE RunnerHandles
    BY <2>4 DEF RunnerHandles, Handle
  <2>5. CASE Refuses
    <3>1. lock \in Callers /\ call[lock] \in Request
      BY <2>0, <2>5, HolderFacts DEF Refuses, SpawnFails, RefuseMethod, RefuseOversize
    <3>2. CASE SpawnFails
      <4>1. Service!Answer(lock, Service!Refusal("CORE_INIT_FAILED"))
        BY <2>0, <2>5, <3>2, SettledAnswer DEF SpawnFails, Refuses
      <4>2. heard = Service!FreshCore /\ heard' = heard
        BY <1>2, <2>0, <2>5, <3>2, SameFreshCore DEF SpawnFails, Refuses, HeardInv, ControlInv
      <4> QED
        BY <3>1, <4>1, <4>2 DEF Service!Next, Service!Lose, Service!Costly
    <3>3. CASE RefuseMethod
      <4>1. Service!Answer(lock, Service!Refusal("UPSTREAM_INCOMPATIBLE"))
        BY <2>0, <2>5, <3>3, SettledAnswer DEF RefuseMethod, Refuses
      <4>2. asked[lock].method \notin Service!CoreMethods /\ heard' = heard
        BY <2>5, <3>1, <3>3, WireFacts
           DEF Refuses, RefuseMethod, AllowedMethods, CoreMethods, Service!CoreMethods
      <4> QED
        BY <3>1, <4>1, <4>2 DEF Service!Next, Service!TurnDown
    <3>4. CASE RefuseOversize
      <4>1. Service!Answer(lock, Service!Refusal("BUILD_PARSE_FAILED"))
        BY <2>0, <2>5, <3>4, SettledAnswer DEF RefuseOversize, Refuses
      <4>2. asked[lock].arg = HugeXml /\ heard' = heard
        BY <2>5, <3>1, <3>4, WireFacts DEF Refuses, RefuseOversize, Oversize
      <4> QED
        BY <3>1, <4>1, <4>2 DEF Service!Next, Service!TurnDown
    <3> QED
      BY <2>5, <3>2, <3>3, <3>4 DEF Refuses
  <2>6. CASE Hears
    <3>1. lock \in Callers /\ call[lock] \in Request
      BY <2>0, <2>6, HolderFacts DEF Hears, Receive
    <3>2. pc = "receive" /\ stdout # <<>> /\ heard' = left /\ Receive /\ Settles
      BY <2>6 DEF Hears, Receive
    <3>3. PICK o \in Outcomes(heard, call[lock].method, call[lock].handle.id, call[lock].arg) :
            o.core = left /\ o.reply = Answering
      BY <1>2, <3>2 DEF HeardInv, Replied
    <3>4. Answering \in Reply
      BY <2>0, <3>2, ReplyFacts
    <3>5. HostCode(Answering.code) \notin Service!Costly
      BY <3>2 DEF Receive, TearsDown, Answering, Service!Costly
    <3>6. Service!Answer(lock, IF HostCode(Answering.code) = "OK" THEN Answering
                               ELSE Service!Refusal(HostCode(Answering.code)))
      BY <2>0, <3>2, SettledAnswer DEF Receive, Answering
    <3>7. /\ Answering.code \notin Service!Costly
          /\ Service!Told(Answering) =
               IF HostCode(Answering.code) = "OK" THEN Answering
               ELSE Service!Refusal(HostCode(Answering.code))
      <4>1. Answering.code \in Codes
        BY <3>4 DEF Reply
      <4> QED
        BY <3>5, <4>1 DEF Service!Told, HostCode, Service!Costly, Codes, CoreErrorCodes
    <3>8. asked[lock].method \in Service!CoreMethods
      BY <1>2, <3>1, <3>2, WireFacts DEF HeardInv, CoreMethods, Service!CoreMethods
    <3>9. o \in Service!Outcomes(heard, asked[lock].method, asked[lock].id, asked[lock].arg)
      BY <3>1, <3>3, SameOutcomes, WireFacts
    <3>10. Service!ServeOne(lock)
      BY <3>2, <3>3, <3>6, <3>7, <3>8, <3>9 DEF Service!ServeOne
    <3> QED
      BY <3>1, <3>10 DEF Service!Next
  <2>7. CASE Loses
    <3>1. lock \in Callers /\ heard' = Service!FreshCore /\ Settles
      BY <2>0, <2>7, HolderFacts, SameFreshCore
         DEF Loses, SendFails, ReceiveFails, ReceiveGarbage, ReceiveFatal
    <3>2. CASE SendFails \/ ReceiveFails \/ ReceiveGarbage
      <4>1. \/ Service!Answer(lock, Service!Refusal("CORE_INIT_FAILED"))
            \/ Service!Answer(lock, Service!Refusal("UPSTREAM_INCOMPATIBLE"))
        BY <2>0, <3>1, <3>2, SettledAnswer DEF SendFails, ReceiveFails, ReceiveGarbage
      <4> QED
        BY <3>1, <4>1 DEF Service!Next, Service!Lose, Service!Costly
    <3>3. CASE ReceiveFatal
      <4>1. HostCode(Answering.code) \in Service!Costly
        BY <3>3 DEF ReceiveFatal, TearsDown, Answering, Service!Costly
      <4>2. Service!Answer(lock, IF HostCode(Answering.code) = "OK" THEN Answering
                                 ELSE Service!Refusal(HostCode(Answering.code)))
        BY <2>0, <3>1, <3>3, SettledAnswer DEF ReceiveFatal, Answering
      <4>3. Service!Answer(lock, Service!Refusal(HostCode(Answering.code)))
        BY <4>1, <4>2 DEF Service!Costly
      <4> QED
        BY <3>1, <4>1, <4>3 DEF Service!Next, Service!Lose
    <3> QED
      BY <2>7, <3>2, <3>3 DEF Loses
  <2> QED
    BY <1>2, <2>1, <2>2, <2>3, <2>4, <2>5, <2>6, <2>7 DEF ServiceNext, Service!Next
<1> QED
  BY <1>1, <1>2, HeardAlways, PTL DEF ServiceSafety, ServesAtomically, Service!Spec
=============================================================================
