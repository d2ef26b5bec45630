--------------------------- MODULE CommandsProofs ---------------------------
(***************************************************************************)
(* What storage and the commands of an operator promise, for any writes    *)
(* and nesting, any processes, workflows and stores, any rows that a queue *)
(* may hold and any caps and prices.                                       *)
(*                                                                         *)
(* Units of work.  While blocks are open nothing of the unit is durable;   *)
(* the engine holds exactly the unit, unless it unwound the transaction,   *)
(* and then the failure is still being raised or is latched, so that the   *)
(* unit cannot reach COMMIT.                                               *)
(*                                                                         *)
(* Commands.  A run writes at most once, and the step that it is at says   *)
(* whether it has; what was registered stays registered; and while no two  *)
(* runs have staged at the same time, the staging file is the whole report *)
(* of the one run that holds it, which is why publishing it is safe.       *)
(*                                                                         *)
(* Verification.  No finding means that the ordinals are those of the      *)
(* decided cases, one event each; the order of the ordinals is then the    *)
(* order in which the decisions were made.                                 *)
(*                                                                         *)
(* The budget.  Between its tokens at the cached rate and its reservation  *)
(* a call costs what it costs; the rest is the proofs of SemanticReview,   *)
(* instantiated for both runs that are explored.                           *)
(*                                                                         *)
(* The sample.  How many of its first k cases are matches is a number that *)
(* k and the sizes of the classes give; counting up with k, the cases      *)
(* taken are as many, and the k-th is the next of its class.               *)
(*                                                                         *)
(* The parts share no variable: MCSpec implements the specification of     *)
(* every part that its initial states can start.                           *)
(***************************************************************************)
EXTENDS MCCommands, TLAPS, FiniteSetTheorems

-----------------------------------------------------------------------------
(* Units of work *)

\* The flags are flags.
Flags ==
  /\ writable \in BOOLEAN /\ failed \in BOOLEAN /\ inTx \in BOOLEAN /\ broken \in BOOLEAN
  /\ control \in {"running", "raising", "escaped"}
  /\ report \in {"none", "committed", "raised"}

\* The depth counts the open blocks; the outermost one decides what the unit may
\* do, and a snapshot holds read blocks only.
Depth == depth \in Nat /\ blocks \in Seq({"read", "write"}) /\ depth = Len(blocks)
Kind == depth > 0 => (writable <=> blocks[1] = "write")
Snapshot == ~writable => \A i \in 1..Len(blocks) : blocks[i] = "read"

\* Between units of work the object is as it was built.
Closed == depth = 0 => ~writable /\ ~failed /\ control = "running"

\* The nesting of the blocks and what the object remembers of it.
Nesting == Flags /\ Depth /\ Closed /\ Kind /\ Snapshot

\* What the engine holds of the unit while blocks are open.
Holding ==
  /\ depth = 0 => ~inTx
  /\ ~inTx => work = {}
  /\ depth > 0 /\ inTx => work = unit
  /\ depth > 0 /\ ~inTx => control = "raising" \/ failed
  /\ depth > 0 => unit \cap stored = {}
  /\ depth > 0 /\ broken => failed
  /\ unit # {} => depth = 0 \/ writable

UnitInv == Nesting /\ Holding /\ AllOrNothing

LEMMA FrontOfBlocks ==
  ASSUME blocks \in Seq({"read", "write"}), Len(blocks) > 1
  PROVE  /\ Front(blocks) \in Seq({"read", "write"})
         /\ Len(Front(blocks)) = Len(blocks) - 1
         /\ \A i \in 1..Len(blocks) - 1 : Front(blocks)[i] = blocks[i]
  BY DEF Front

LEMMA AppendedBlock ==
  ASSUME blocks \in Seq({"read", "write"}), NEW kind \in {"read", "write"}
  PROVE  /\ Append(blocks, kind) \in Seq({"read", "write"})
         /\ Len(Append(blocks, kind)) = Len(blocks) + 1
         /\ \A i \in 1..Len(blocks) : Append(blocks, kind)[i] = blocks[i]
         /\ Append(blocks, kind)[Len(blocks) + 1] = kind
  OBVIOUS

LEMMA InitUnit == Init => UnitInv
<1> SUFFICES ASSUME Init
             PROVE  UnitInv
  OBVIOUS
<1>1. blocks \in Seq({"read", "write"}) /\ Len(blocks) = 0
  BY DEF Init
<1>2. Flags
  BY DEF Init, Flags
<1>3. Depth /\ Kind
  BY <1>1 DEF Init, Depth, Kind
<1>4. Closed
  BY DEF Init, Closed
<1>5. Snapshot
  BY <1>1 DEF Snapshot
<1>6. Nesting
  BY <1>2, <1>3, <1>4, <1>5 DEF Nesting
<1> QED
  BY <1>6 DEF Init, UnitInv, Holding, AllOrNothing

LEMMA OpeningKeepsUnit ==
  ASSUME UnitInv, NEW kind \in {"read", "write"}, BeginFails \/ Begin(kind) \/ Join(kind)
  PROVE  UnitInv'
<1>1. CASE BeginFails
  BY <1>1 DEF UnitInv, Nesting, Flags, Depth, Closed, Kind, Snapshot, Holding, AllOrNothing,
     BeginFails
<1>2. CASE Begin(kind)
  <2>1. blocks' = <<kind>> /\ depth' = 1 /\ Len(<<kind>>) = 1 /\ <<kind>>[1] = kind
    BY <1>2 DEF Begin
  <2>2. blocks' \in Seq({"read", "write"}) /\ Len(blocks') = 1 /\ blocks'[1] = kind
    BY <2>1
  <2>3. writable' \in BOOLEAN /\ (writable' <=> kind = "write")
    BY <1>2 DEF Begin
  <2>4. Nesting'
    <3>1. Flags'
      BY <1>2, <2>3 DEF UnitInv, Nesting, Flags, Begin
    <3>2. Depth'
      BY <2>1, <2>2 DEF Depth
    <3>3. Closed'
      BY <2>1 DEF Closed
    <3>4. Kind'
      BY <2>2, <2>3 DEF Kind
    <3>5. ~writable' => blocks'[1] = "read"
      BY <2>2, <2>3
    <3>6. Snapshot'
      BY <2>2, <3>5 DEF Snapshot
    <3> QED
      BY <3>1, <3>2, <3>3, <3>4, <3>6 DEF Nesting
  <2> QED
    BY <1>2, <2>1, <2>4 DEF UnitInv, Nesting, Flags, Depth, Closed, Kind, Snapshot, Holding,
       AllOrNothing, Begin
<1>3. CASE Join(kind)
  <2>1. CASE kind = "write" /\ ~writable
    BY <1>3, <2>1 DEF UnitInv, Nesting, Flags, Depth, Closed, Kind, Snapshot, Holding,
       AllOrNothing, Join
  <2>2. CASE ~(kind = "write" /\ ~writable)
    <3>1. blocks' = Append(blocks, kind) /\ depth' = depth + 1 /\ depth > 0
      BY <1>3, <2>2 DEF Join
    <3>2. Nesting'
      BY <1>3, <2>2, <3>1, AppendedBlock DEF UnitInv, Nesting, Flags, Depth, Closed, Kind,
         Snapshot, Join
    <3> QED
      BY <1>3, <2>2, <3>1, <3>2 DEF UnitInv, Nesting, Flags, Depth, Closed, Kind, Snapshot,
         Holding, AllOrNothing, Join
  <2> QED
    BY <2>1, <2>2
<1> QED
  BY <1>1, <1>2, <1>3

LEMMA WorkingKeepsUnit ==
  ASSUME UnitInv, Raise \/ Swallow \/ \E x \in Writes : Write(x)
  PROVE  UnitInv'
<1>1. CASE Raise
  <2>1. Nesting'
    <3>1. Flags'
      BY <1>1 DEF UnitInv, Nesting, Flags, Raise
    <3>2. Depth' /\ Closed' /\ Kind'
      BY <1>1 DEF UnitInv, Nesting, Depth, Closed, Kind, Raise
    <3>3. Snapshot'
      BY <1>1 DEF UnitInv, Nesting, Snapshot, Raise
    <3> QED
      BY <3>1, <3>2, <3>3 DEF Nesting
  <2>2. CASE UNCHANGED <<inTx, work>>
    BY <1>1, <2>1, <2>2 DEF UnitInv, Nesting, Flags, Depth, Closed, Kind, Snapshot, Holding,
       AllOrNothing, Raise
  <2>3. CASE inTx' = FALSE /\ work' = {}
    BY <1>1, <2>1, <2>3 DEF UnitInv, Nesting, Flags, Depth, Closed, Kind, Snapshot, Holding,
       AllOrNothing, Raise
  <2> QED
    BY <1>1, <2>2, <2>3 DEF Raise
<1>2. CASE Swallow
  BY <1>2 DEF UnitInv, Nesting, Flags, Depth, Closed, Kind, Snapshot, Holding, AllOrNothing, Swallow
<1>3. ASSUME NEW x \in Writes, Write(x)
      PROVE  UnitInv'
  <2>1. PICK i \in 1..Len(blocks) : blocks[i] = "write"
    BY <1>3 DEF Write, ToSet, UnitInv, Nesting, Depth
  <2>2. writable /\ depth > 0
    BY <2>1 DEF UnitInv, Nesting, Flags, Depth, Closed, Kind, Snapshot
  <2>3. inTx
    BY <1>3, <2>2 DEF UnitInv, Holding, Write
  <2> QED
    BY <1>3, <2>2, <2>3 DEF UnitInv, Nesting, Flags, Depth, Closed, Kind, Snapshot, Holding,
       AllOrNothing, Write
<1> QED
  BY <1>1, <1>2, <1>3

LEMMA LeavingKeepsUnit ==
  ASSUME UnitInv, Escape \/ Leave
  PROVE  UnitInv'
<1>1. depth > 1 /\ blocks' = Front(blocks) /\ depth' = depth - 1
  BY DEF Escape, Leave
<1>2. /\ blocks' \in Seq({"read", "write"}) /\ Len(blocks') = Len(blocks) - 1
      /\ \A i \in 1..Len(blocks') : blocks'[i] = blocks[i]
  BY <1>1, FrontOfBlocks DEF UnitInv, Nesting, Flags, Depth, Closed, Kind, Snapshot
<1>3. writable' = writable /\ failed' \in BOOLEAN /\ control' \in {"running", "escaped"}
  BY DEF UnitInv, Nesting, Flags, Depth, Closed, Kind, Snapshot, Escape, Leave
<1>4. Nesting'
  <2>1. depth' \in Nat /\ depth' = Len(blocks') /\ depth' > 0 /\ blocks'[1] = blocks[1]
    BY <1>1, <1>2 DEF UnitInv, Nesting, Flags, Depth, Closed, Kind, Snapshot
  <2>2. inTx' \in BOOLEAN /\ broken' \in BOOLEAN /\ report' \in {"none", "committed", "raised"}
    BY DEF UnitInv, Nesting, Flags, Depth, Closed, Kind, Snapshot, Escape, Leave
  <2> QED
    BY <1>1, <1>2, <1>3, <2>1, <2>2 DEF UnitInv, Nesting, Flags, Depth, Closed, Kind, Snapshot
<1> QED
  BY <1>1, <1>4 DEF UnitInv, Nesting, Flags, Depth, Closed, Kind, Snapshot, Holding, AllOrNothing,
     Escape, Leave

LEMMA EndingKeepsUnit ==
  ASSUME UnitInv, EndAborted \/ Commit \/ CommitFails
  PROVE  UnitInv'
<1>1. depth = 1 /\ depth' = 0 /\ blocks' = <<>> /\ Len(<<>>) = 0
  BY DEF EndAborted, Commit, CommitFails, Close
<1>2. blocks' \in Seq({"read", "write"}) /\ Len(blocks') = 0
  BY <1>1
<1>3. /\ writable' = FALSE /\ failed' = FALSE /\ inTx' = FALSE /\ work' = {}
      /\ control' = "running" /\ report' \in {"committed", "raised"} /\ broken' = broken
  BY DEF EndAborted, Commit, CommitFails, Close, Abort
<1>4. Nesting'
  <2>1. Flags'
    BY <1>3 DEF UnitInv, Nesting, Flags
  <2>2. Depth' /\ Kind'
    BY <1>1, <1>2 DEF Depth, Kind
  <2>3. Closed'
    BY <1>3 DEF Closed
  <2>4. Snapshot'
    BY <1>2 DEF Snapshot
  <2> QED
    BY <2>1, <2>2, <2>3, <2>4 DEF Nesting
<1>5. Holding'
  BY <1>1, <1>3 DEF Holding
<1>6. AllOrNothing'
  BY <1>1 DEF UnitInv, Nesting, Flags, Depth, Closed, Kind, Snapshot, Holding, AllOrNothing,
     EndAborted, Commit, CommitFails, Close, Abort
<1> QED
  BY <1>4, <1>5, <1>6 DEF UnitInv

LEMMA StepKeepsUnit == UnitInv /\ [Next]_vars => UnitInv'
<1> SUFFICES ASSUME UnitInv, [Next]_vars
             PROVE  UnitInv'
  OBVIOUS
<1>1. CASE UNCHANGED vars
  BY <1>1 DEF vars, UnitInv, Nesting, Flags, Depth, Closed, Kind, Snapshot, Holding, AllOrNothing
<1>2. CASE Next
  BY <1>2, OpeningKeepsUnit, WorkingKeepsUnit, LeavingKeepsUnit, EndingKeepsUnit DEF Next
<1> QED
  BY <1>1, <1>2

LEMMA UnitInvariant == Spec => []UnitInv
  BY InitUnit, StepKeepsUnit, PTL DEF Spec

-----------------------------------------------------------------------------
\* Whatever nests, fails and is swallowed: a unit of work that returned is
\* durable and unbroken, one that raised left nothing.
THEOREM UnitsAreAtomic == Spec => []AllOrNothing
<1>1. UnitInv => AllOrNothing
  BY DEF UnitInv
<1> QED
  BY <1>1, UnitInvariant, PTL

\* No way out of a unit of work leaves the shared connection in a transaction.
THEOREM ConnectionStaysUsable == Spec => []NextUnitCanBegin
<1>1. UnitInv => NextUnitCanBegin
  BY DEF UnitInv, Holding, NextUnitCanBegin
<1> QED
  BY <1>1, UnitInvariant, PTL

\* A unit that began as a read snapshot writes nothing.
THEOREM SnapshotsDoNotWrite == Spec => []SnapshotStaysSnapshot
<1>1. UnitInv => SnapshotStaysSnapshot
  BY DEF UnitInv, Nesting, Flags, Depth, Closed, Kind, Snapshot, Holding, SnapshotStaysSnapshot
<1> QED
  BY <1>1, UnitInvariant, PTL

\* Only the successful end of an outermost block makes anything durable.
THEOREM DurabilityWaitsForTheEnd == Spec => DurableOnlyAtTheEnd
<1>1. UnitInv /\ [Next]_vars => [stored' # stored => depth' = 0 /\ report' = "committed"]_vars
  <2> SUFFICES ASSUME UnitInv, Next, stored' # stored
               PROVE  depth' = 0 /\ report' = "committed"
    BY DEF vars
  <2>1. ASSUME NEW x \in Writes, Write(x)
        PROVE  FALSE
    <3>1. PICK i \in 1..Len(blocks) : blocks[i] = "write"
      BY <2>1 DEF Write, ToSet, UnitInv, Nesting, Depth
    <3>2. depth > 0 /\ inTx
      BY <2>1, <3>1 DEF UnitInv, Nesting, Flags, Depth, Closed, Kind, Snapshot, Holding, Write
    <3> QED
      BY <2>1, <3>2 DEF Write
  <2> QED
    BY <2>1 DEF Next, BeginFails, Begin, Join, Raise, Swallow, Escape, Leave,
                EndAborted, Abort, Commit, CommitFails, Close
<1> QED
  BY <1>1, UnitInvariant, PTL DEF Spec, DurableOnlyAtTheEnd

-----------------------------------------------------------------------------
(* Commands of the operator *)

\* Counting is one operator in every module.
LEMMA CountsAgree ==
  \A S : /\ Commands!Cardinality(S) = Cardinality(S)
         /\ Integrity!Cardinality(S) = Cardinality(S)
         /\ Commands!IsFiniteSet(S) <=> IsFiniteSet(S)
         /\ Integrity!IsFiniteSet(S) <=> IsFiniteSet(S)
<1>1. \A S : /\ Commands!IsFiniteSet(S) <=> IsFiniteSet(S)
             /\ Integrity!IsFiniteSet(S) <=> IsFiniteSet(S)
  BY DEF Commands!IsFiniteSet, Integrity!IsFiniteSet, IsFiniteSet
<1>2. \A S : /\ Commands!Cardinality(S) = Cardinality(S)
             /\ Integrity!Cardinality(S) = Cardinality(S)
  BY <1>1 DEF Commands!Cardinality, Integrity!Cardinality, Cardinality
<1> QED
  BY <1>1, <1>2

Steps == {"resolve", "stage", "open", "create", "find", "insert", "count", "register",
          "publish", "check", "load", "exit", "dead"}

Shaped(j) ==
  j = [at |-> j.at, command |-> j.command, todo |-> j.todo, already |-> j.already,
       wrote |-> j.wrote, quiet |-> j.quiet, before |-> j.before, stored |-> j.stored,
       pending |-> j.pending, code |-> j.code]

\* The registration of this run went through.
Went(j) == j.command.kind = "register" /\ (j.at = "publish" \/ (j.at = "exit" /\ j.code = 0))

\* Which commands come to a step, and what a run has done by then.
Progress(j) ==
  /\ j.at \in Steps /\ j.code \in 0..7 /\ j.wrote \in BOOLEAN /\ j.command.kind \in Commands!Kinds
  /\ j.at # "exit" => j.code = 0
  /\ j.at \notin {"exit", "dead"} \/ j.command.kind = "register" => j.command \in Jobs
  /\ j.at = "resolve" => j.command.kind = "resolve"
  /\ j.at = "load" => j.command.kind \in {"list", "inspect"}
  /\ j.at = "stage" => j.command.kind \in {"generate", "register"}
  /\ j.at = "check" => j.command.kind = "verify-queue"
  /\ j.at \in {"count", "register", "publish"} => j.command.kind = "register"
  /\ j.wrote => j.at \in {"publish", "dead"} \/ (j.at = "exit" /\ j.code \in {0, 3})
  /\ j.at = "exit" /\ j.code = 0 /\ j.command.kind = "list" =>
       j.quiet /\ j.command.workflow.records
  /\ j.at = "register" \/ Went(j) => IsFiniteSet(j.before) /\ j.already = Cardinality(j.before)
  /\ Went(j) /\ j.quiet => j.stored = j.command.workflow.cases \ j.before

JobInv ==
  /\ job = [q \in Operator |-> job[q]]
  /\ \A q \in Operator : job[q] = Commands!Idle \/ (Shaped(job[q]) /\ Progress(job[q]))

StoreInv ==
  /\ schema \in {"none", "current", "old"} /\ active \in BOOLEAN
  /\ rows \subseteq {Commands!Creates[k] : k \in DOMAIN Commands!Creates}
  /\ queue = [context |-> queue.context, cases |-> queue.cases, decided |-> queue.decided]
  /\ IsFiniteSet(queue.cases) /\ queue.decided \subseteq queue.cases
  /\ crowded \in BOOLEAN /\ littered \in BOOLEAN

\* What a run registered stays registered.
In(q, w) == q.context = w.context /\ w.cases \subseteq q.cases

RegisteredInv ==
  /\ \A q \in Operator : job[q] # Commands!Idle /\ Went(job[q]) => In(queue, job[q].command.workflow)
  /\ ~crowded /\ final # NoFile /\ final.by = "register" =>
       final.whole /\ In(queue, final.workflow) /\ final.workflow.context # NoContext

\* The staging file is the file of the one run that holds it.
StageInv ==
  ~crowded =>
    /\ \A p, q \in Operator : Commands!HoldsStage(p) /\ Commands!HoldsStage(q) => p = q
    /\ \A q \in Operator : Commands!HoldsStage(q) =>
         staged = Commands!Report(job[q].command.workflow, TRUE, "register")
    /\ ~littered /\ staged # NoFile => \E q \in Operator : Commands!HoldsStage(q)

CommandInv == JobInv /\ StoreInv /\ RegisteredInv /\ StageInv

\* A run that takes a step is at that step.
LEMMA Begun ==
  ASSUME JobInv, NEW r \in Operator, job[r].at # "idle"
  PROVE  Shaped(job[r]) /\ Progress(job[r]) /\ job[r] # Commands!Idle
  BY DEF JobInv, Commands!Idle

LEMMA IdleHolds ==
  \A r : /\ job[r] = Commands!Idle => ~Commands!HoldsStage(r) /\ ~Commands!Staging(r)
         /\ Commands!HoldsStage(r) => job[r] # Commands!Idle
  BY DEF Commands!HoldsStage, Commands!Staging, Commands!Working, Commands!Idle, Commands!Ended,
     Commands!At

\* One run goes on to j.
Goes(r, j) == job' = [q \in Operator |-> IF q = r THEN j ELSE job[q]]

LEMMA Stepped ==
  ASSUME JobInv, NEW r \in Operator, NEW j, Goes(r, j)
  PROVE  /\ job'[r] = j /\ \A q \in Operator \ {r} : job'[q] = job[q]
         /\ Shaped(j) /\ Progress(j) => JobInv'
  BY DEF JobInv, Goes

\* The record of a run with another step and exit code.
Next2(j, at, code) == [at |-> at, command |-> j.command, todo |-> j.todo, already |-> j.already,
       wrote |-> j.wrote, quiet |-> j.quiet, before |-> j.before, stored |-> j.stored,
       pending |-> j.pending, code |-> code]

\* The same, as the code of the model writes it.
Ended2(j, code) == [[j EXCEPT !.at = "exit"] EXCEPT !.code = code]

LEMMA NextRecord ==
  ASSUME NEW j, Shaped(j)
  PROVE  /\ \A at : [j EXCEPT !.at = at] = Next2(j, at, j.code)
         /\ \A code : Ended2(j, code) = Next2(j, "exit", code)
         /\ \A code : [j EXCEPT !.code = code] = Next2(j, j.at, code)
<1>1. \A at : [j EXCEPT !.at = at] = Next2(j, at, j.code)
  BY DEF Shaped, Next2
<1>2. \A code : [Next2(j, "exit", j.code) EXCEPT !.code = code] = Next2(j, "exit", code)
  BY DEF Next2
<1>3. \A code : [j EXCEPT !.code = code] = Next2(j, j.at, code)
  BY DEF Shaped, Next2
<1>4. \A code : Ended2(j, code) = Next2(j, "exit", code)
  BY <1>1, <1>2, Zenon DEF Ended2
<1> QED
  BY <1>1, <1>3, <1>4

LEMMA Exits ==
  ASSUME JobInv, NEW r \in Operator, job[r].at # "idle", NEW code, Commands!Exit(r, code)
  PROVE  Goes(r, Next2(job[r], "exit", code))
<1>1. Shaped(job[r])
  BY Begun
<1>2. job' = [[job EXCEPT ![r] = [job[r] EXCEPT !.at = "exit"]]
                    EXCEPT ![r] = Ended2(job[r], code)]
  BY DEF Commands!Exit, JobInv, Ended2
<1>3. job' = [job EXCEPT ![r] = Ended2(job[r], code)]
  BY <1>2 DEF JobInv
<1>4. job' = [job EXCEPT ![r] = Next2(job[r], "exit", code)]
  BY <1>1, <1>3, NextRecord
<1> HIDE DEF Next2
<1> QED
  BY <1>4 DEF Goes, JobInv

LEMMA GoesTo ==
  ASSUME JobInv, NEW r \in Operator, job[r].at \notin {"idle", "exit"}, NEW step,
         Commands!Goto(r, step)
  PROVE  Goes(r, Next2(job[r], step, 0))
<1>1. Shaped(job[r]) /\ job[r].code = 0
  BY Begun DEF Progress
<1>2. job' = [job EXCEPT ![r] = [job[r] EXCEPT !.at = step]]
  BY DEF Commands!Goto, JobInv
<1>3. [job[r] EXCEPT !.at = step] = Next2(job[r], step, 0)
  BY <1>1, NextRecord
<1> QED
  BY <1>2, <1>3 DEF Goes, JobInv

\* A workflow that is registered stays so: its context is never replaced.
Grows ==
  /\ queue.cases \subseteq queue'.cases
  /\ (queue.context # NoContext => queue'.context = queue.context)

LEMMA RegisteredStays == Grows => \A w : In(queue, w) /\ w.context # NoContext => In(queue', w)
  BY DEF Grows, In

LEMMA JobsAreTyped ==
  ASSUME NEW c \in Jobs
  PROVE  /\ c.kind \in Commands!Kinds /\ IsFiniteSet(c.workflow.cases)
         /\ c.workflow.context # NoContext
         /\ \A whole \in BOOLEAN : Commands!Report(c.workflow, whole, c.kind) # NoFile
         /\ DOMAIN c = {"kind", "workflow", "usable", "readable", "case"}
  BY CommandAssumption, CountsAgree DEF Commands!JobAssumption

LEMMA RegisteredKept ==
  ASSUME CommandInv, Grows, NEW r \in Operator, NEW j, Goes(r, j),
         Went(j) => In(queue', j.command.workflow),
         crowded => crowded', final' = final \/ final'.by = "generate"
  PROVE  RegisteredInv'
<1>1. ASSUME NEW q \in Operator \ {r}, job[q] # Commands!Idle, Went(job[q])
      PROVE  In(queue', job[q].command.workflow)
  <2>1. job[q].command \in Jobs /\ In(queue, job[q].command.workflow)
    BY <1>1 DEF CommandInv, JobInv, Progress, Went, RegisteredInv
  <2> QED
    BY <2>1, JobsAreTyped, RegisteredStays
<1>2. ASSUME NEW q \in Operator, job'[q] # Commands!Idle, Went(job'[q])
      PROVE  In(queue', job'[q].command.workflow)
  <2>1. job'[r] = j /\ (q # r => job'[q] = job[q])
    BY Stepped DEF CommandInv
  <2> QED
    BY <1>1, <1>2, <2>1
<1>3. ASSUME ~crowded', final' # NoFile, final'.by = "register"
      PROVE  final'.whole /\ In(queue', final'.workflow) /\ final'.workflow.context # NoContext
  <2>1. final' = final /\ ~crowded
    BY <1>3
  <2> QED
    BY <1>3, <2>1, RegisteredStays DEF CommandInv, RegisteredInv
<1> QED
  BY <1>2, <1>3 DEF RegisteredInv, Went

\* Who holds the staging file follows from the step and the command of a run.
Keeping(j) == j.at \notin Commands!Ended /\ j.command.kind = "register" /\ j.at # "stage"

LEMMA HoldersGo ==
  ASSUME JobInv, NEW r \in Operator, NEW j, Goes(r, j)
  PROVE  /\ \A q \in Operator : Commands!HoldsStage(q) <=> Keeping(job[q])
         /\ \A q \in Operator \ {r} : Commands!HoldsStage(q)' <=> Commands!HoldsStage(q)
         /\ Commands!HoldsStage(r)' <=> Keeping(j)
<1>1. job'[r] = j /\ \A q \in Operator \ {r} : job'[q] = job[q]
  BY Stepped
<1> QED
  BY <1>1 DEF Commands!HoldsStage, Keeping, Commands!Staging, Commands!Working, Commands!At,
     Commands!Command

LEMMA StageKept ==
  ASSUME CommandInv, NEW r \in Operator, NEW j, Goes(r, j),
         crowded => crowded', littered => littered',
         \/ /\ Keeping(j) <=> Commands!HoldsStage(r)
            /\ Keeping(j) => j.command.workflow = job[r].command.workflow
            /\ staged' = staged
         \/ /\ ~Keeping(j)
            /\ Commands!HoldsStage(r) \/ crowded' \/ \A q \in Operator \ {r} : ~Commands!HoldsStage(q)
            /\ staged' = NoFile \/ littered'
         \/ /\ Keeping(j) /\ staged' = Commands!Report(j.command.workflow, TRUE, "register")
            /\ crowded' \/ \A q \in Operator \ {r} : ~Commands!HoldsStage(q)
  PROVE  StageInv'
<1> SUFFICES ASSUME ~crowded'
             PROVE  /\ \A p, q \in Operator : Commands!HoldsStage(p)' /\ Commands!HoldsStage(q)' =>
                         p = q
                    /\ \A q \in Operator : Commands!HoldsStage(q)' =>
                         staged' = Commands!Report(job'[q].command.workflow, TRUE, "register")
                    /\ ~littered' /\ staged' # NoFile => \E q \in Operator : Commands!HoldsStage(q)'
  BY DEF StageInv
<1>1. /\ \A q \in Operator \ {r} : Commands!HoldsStage(q)' <=> Commands!HoldsStage(q)
      /\ Commands!HoldsStage(r)' <=> Keeping(j)
      /\ job'[r] = j /\ \A q \in Operator \ {r} : job'[q] = job[q]
  BY HoldersGo, Stepped DEF CommandInv
<1>2. /\ \A p, q \in Operator : Commands!HoldsStage(p) /\ Commands!HoldsStage(q) => p = q
      /\ \A q \in Operator : Commands!HoldsStage(q) =>
           staged = Commands!Report(job[q].command.workflow, TRUE, "register")
      /\ ~littered /\ staged # NoFile => \E q \in Operator : Commands!HoldsStage(q)
  BY DEF CommandInv, StageInv
<1>3. CASE /\ Keeping(j) <=> Commands!HoldsStage(r)
           /\ Keeping(j) => j.command.workflow = job[r].command.workflow
           /\ staged' = staged
  BY <1>1, <1>2, <1>3
<1>4. CASE /\ ~Keeping(j)
           /\ Commands!HoldsStage(r) \/ crowded' \/ \A q \in Operator \ {r} : ~Commands!HoldsStage(q)
           /\ staged' = NoFile \/ littered'
  BY <1>1, <1>2, <1>4
<1>5. CASE /\ Keeping(j) /\ staged' = Commands!Report(j.command.workflow, TRUE, "register")
           /\ crowded' \/ \A q \in Operator \ {r} : ~Commands!HoldsStage(q)
  BY <1>1, <1>2, <1>5
<1> QED
  BY <1>3, <1>4, <1>5

\* A step that neither takes nor gives back the staging file.
LEMMA PlainStep ==
  ASSUME CommandInv, NEW r \in Operator, NEW j, Goes(r, j), Shaped(j), Progress(j), StoreInv', Grows,
         Went(j) => In(queue', j.command.workflow),
         crowded' = crowded, littered => littered', staged' = staged,
         final' = final \/ final'.by = "generate",
         Keeping(j) <=> Commands!HoldsStage(r), Keeping(j) =>
           j.command.workflow = job[r].command.workflow
  PROVE  CommandInv'
  BY Stepped, RegisteredKept, StageKept DEF CommandInv

\* What is raised ends the run, and its staged report with it.
LEMMA RefusedKept ==
  ASSUME CommandInv, NEW r \in Operator,
         job[r].at \in {"open", "create", "find", "insert", "register", "publish"},
         NEW code \in 1..7, job[r].at = "publish" => code = 3, Commands!Refused(r, code)
  PROVE  CommandInv'
<1> DEFINE j == Next2(job[r], "exit", code)
<1>1. /\ Commands!Exit(r, code) /\ UNCHANGED <<schema, rows, active, queue, final, crowded>>
      /\ IF Commands!Staging(r) THEN Commands!UnlinkQuietly ELSE UNCHANGED <<staged, littered>>
  BY DEF Commands!Refused, Commands!storeVars
<1>2. Goes(r, j)
  BY <1>1, Exits DEF CommandInv
<1>3. Shaped(job[r]) /\ Progress(job[r])
  BY Begun DEF CommandInv
<1>4. j.at = "exit" /\ j.code = code /\ j.command = job[r].command
  BY DEF Next2
<1>5. Shaped(j)
  BY DEF Next2, Shaped
<1>6. Progress(j) /\ ~Went(j)
  BY <1>3 DEF Next2, Progress, Steps, Went
<1>7. ~Keeping(j)
  BY <1>4 DEF Keeping, Commands!Ended
<1>8. StoreInv' /\ Grows
  BY <1>1 DEF CommandInv, StoreInv, Commands!UnlinkQuietly, Grows
<1>9. Commands!HoldsStage(r) <=> Commands!Staging(r)
  BY DEF Commands!HoldsStage, Commands!At
<1> HIDE DEF j
<1>10. CASE Commands!Staging(r)
  <2>1. (staged' = NoFile \/ littered') /\ (littered => littered')
    BY <1>1, <1>10 DEF Commands!UnlinkQuietly
  <2>2. StageInv'
    BY <1>1, <1>2, <1>7, <1>9, <1>10, <2>1, StageKept
  <2>3. RegisteredInv'
    BY <1>1, <1>2, <1>6, <1>8, RegisteredKept
  <2> QED
    BY <1>2, <1>5, <1>6, <1>8, <2>2, <2>3, Stepped DEF CommandInv
<1>11. CASE ~Commands!Staging(r)
  BY <1>1, <1>2, <1>5, <1>6, <1>7, <1>8, <1>9, <1>11, PlainStep
<1> QED
  BY <1>10, <1>11

\* A command begins: with its first step, or with its end.
LEMMA BeginKept ==
  ASSUME CommandInv, NEW r \in Operator, NEW c \in Jobs, Commands!Begin(r, c)
  PROVE  CommandInv'
<1> DEFINE code == IF Commands!FirstStep(c) # "exit" THEN 0 ELSE IF ~c.usable THEN 1 ELSE 2
<1> DEFINE j == Next2(Commands!Started(c, Commands!FirstStep(c)), Commands!FirstStep(c), code)
<1>1. /\ job[r] = Commands!Idle
      /\ UNCHANGED <<schema, rows, active, queue, staged, final, crowded, littered>>
  BY DEF Commands!Begin, Commands!storeVars, Commands!fileVars
<1>2. [Commands!Started(c, Commands!FirstStep(c)) EXCEPT !.code = code] = j
  <2>1. /\ Shaped(Commands!Started(c, Commands!FirstStep(c)))
        /\ Commands!Started(c, Commands!FirstStep(c)).at = Commands!FirstStep(c)
    BY DEF Commands!Started, Shaped
  <2> QED
    BY <2>1, NextRecord
<1>3. Goes(r, j)
  BY <1>2, Zenon DEF Commands!Begin, Goes, CommandInv, JobInv
<1>4. /\ j.at = Commands!FirstStep(c) /\ j.command = c /\ j.code = code /\ j.wrote = FALSE
      /\ Shaped(j)
  BY DEF Next2, Commands!Started, Shaped
<1>5. Commands!FirstStep(c) \in {"resolve", "exit", "load", "stage", "open"}
  BY DEF Commands!FirstStep
<1>6. /\ c.kind \in Commands!Kinds
      /\ Commands!FirstStep(c) = "resolve" => c.kind = "resolve"
      /\ Commands!FirstStep(c) = "load" => c.kind \in {"list", "inspect"}
      /\ Commands!FirstStep(c) = "stage" => c.kind \in {"generate", "register"}
      /\ c.kind = "register" => Commands!FirstStep(c) \in {"stage", "exit"}
  BY JobsAreTyped DEF Commands!FirstStep
<1>7. /\ (Commands!FirstStep(c) = "exit" => code \in {1, 2})
      /\ (Commands!FirstStep(c) # "exit" => code = 0)
  OBVIOUS
<1> HIDE DEF j, code
<1>8. Progress(j) /\ ~Went(j) /\ ~Keeping(j)
  <2>1. ~Went(j) /\ ~Keeping(j)
    BY <1>4, <1>6, <1>7 DEF Went, Keeping, Commands!Ended
  <2>2. j.at \in Steps /\ j.code \in 0..7 /\ j.command \in Jobs
    BY <1>4, <1>5, <1>7 DEF Steps
  <2>3. j.at = "exit" => j.code # 0
    BY <1>4, <1>7
  <2> QED
    BY <1>4, <1>5, <1>6, <1>7, <2>1, <2>2, <2>3 DEF Progress
<1>9. StoreInv' /\ Grows /\ ~Commands!HoldsStage(r)
  BY <1>1, IdleHolds DEF CommandInv, StoreInv, Grows
<1> QED
  BY <1>1, <1>3, <1>4, <1>8, <1>9, PlainStep

\* A step that moves a run on, or ends it, and changes nothing else.
LEMMA MovedKept ==
  ASSUME CommandInv, NEW r \in Operator, NEW at, NEW code, Goes(r, Next2(job[r], at, code)),
         job[r].at \notin Commands!Ended, job[r].at # "publish", Progress(Next2(job[r], at, code)),
         ~Went(Next2(job[r], at, code)),
         Commands!Staging(r) => at \notin Commands!Ended /\ job[r].at # "stage" /\ at # "stage",
         UNCHANGED <<active, queue, staged, crowded, littered>>,
         schema' \in {"none", "current", "old"},
         rows' \subseteq {Commands!Creates[k] : k \in DOMAIN Commands!Creates},
         final' = final \/ final'.by = "generate"
  PROVE  CommandInv'
<1> DEFINE j == Next2(job[r], at, code)
<1>1. Shaped(j) /\ j.command = job[r].command /\ j.at = at
  BY DEF Next2, Shaped
<1> HIDE DEF j
<1>2. StoreInv' /\ Grows
  BY DEF CommandInv, StoreInv, Grows
<1>3. Shaped(job[r]) /\ Progress(job[r])
  BY Begun DEF CommandInv, Commands!Ended
<1>4. Keeping(j) <=> Commands!HoldsStage(r)
  <2>1. CASE Commands!Staging(r)
    BY <1>1, <2>1 DEF Keeping, Commands!HoldsStage, Commands!Staging, Commands!At, Commands!Command
  <2>2. CASE ~Commands!Staging(r)
    BY <1>1, <2>2 DEF Keeping, Commands!HoldsStage, Commands!Staging, Commands!Working,
       Commands!Command
  <2> QED
    BY <2>1, <2>2
<1> QED
  BY <1>1, <1>2, <1>4, PlainStep DEF j

\* The steps that only read, and the resolution that is refused.
LEMMA ReadingKept ==
  ASSUME CommandInv, NEW r \in Operator, Commands!RefuseReportResolution(r) \/ Commands!VerifyQueue(r)
  PROVE  CommandInv'
<1>1. PICK code \in {0, 1, 7} : /\ Commands!Exit(r, code)
                                /\ UNCHANGED <<Commands!storeVars, Commands!fileVars, crowded, littered>>
                               /\ job[r].at \in {"resolve", "check"}
  BY DEF Commands!RefuseReportResolution, Commands!VerifyQueue, Commands!At
<1>2. Goes(r, Next2(job[r], "exit", code)) /\ Progress(job[r])
  BY <1>1, Exits, Begun DEF CommandInv
<1>3. job[r].command.kind \in {"resolve", "verify-queue"} /\ job[r].wrote = FALSE
  BY <1>1, <1>2 DEF Progress
<1>4. Progress(Next2(job[r], "exit", code)) /\ ~Went(Next2(job[r], "exit", code))
  BY <1>1, <1>2, <1>3 DEF Progress, Steps, Went, Next2
<1>5. ~Commands!Staging(r) /\ job[r].at \notin Commands!Ended
  BY <1>1, <1>3 DEF Commands!Staging, Commands!Command, Commands!Ended
<1> QED
  BY <1>1, <1>2, <1>4, <1>5, MovedKept DEF Commands!storeVars, Commands!fileVars, CommandInv,
     StoreInv

\* A run goes on to a step that its command has.
LEMMA GoesOn ==
  ASSUME CommandInv, NEW r \in Operator, job[r].at \in {"open", "create", "find"}, NEW step,
         Commands!Goto(r, step),
         step = "exit" => job[r].command.kind = "list-organizations",
         step \in {"create", "insert", "find"}
           \/ (step = "exit" /\ job[r].command.kind = "list-organizations")
           \/ (step = "check" /\ job[r].command.kind = "verify-queue")
           \/ (step = "count" /\ job[r].command.kind = "register"),
         UNCHANGED <<active, queue, staged, final, crowded, littered, rows>>,
         schema' \in {"none", "current", "old"}
  PROVE  CommandInv'
<1>1. Goes(r, Next2(job[r], step, 0)) /\ Progress(job[r])
  BY GoesTo, Begun DEF CommandInv
<1>2. job[r].wrote = FALSE
  BY <1>1 DEF Progress
<1>3. Progress(Next2(job[r], step, 0)) /\ ~Went(Next2(job[r], step, 0))
  BY <1>1, <1>2 DEF Progress, Steps, Went, Next2
<1>4. /\ job[r].at \notin Commands!Ended
      /\ (Commands!Staging(r) => step \notin Commands!Ended /\ step # "stage")
  BY DEF Commands!Staging, Commands!Command, Commands!Ended
<1> QED
  BY <1>1, <1>3, <1>4, MovedKept DEF CommandInv, StoreInv

LEMMA OpeningKept ==
  ASSUME CommandInv, NEW r \in Operator, Commands!OpenDatabase(r) \/ Commands!CreateSchema(r)
  PROVE  CommandInv'
<1> DEFINE step == Commands!AfterOpen(job[r].command.kind)
<1>1. /\ step \in {"exit", "insert", "find"}
      /\ (step = "exit" => job[r].command.kind = "list-organizations")
  BY DEF Commands!AfterOpen
<1>2. CASE Commands!OpenDatabase(r)
  <2>1. job[r].at = "open" /\ schema \in {"none", "current", "old"}
    BY <1>2 DEF Commands!OpenDatabase, Commands!At, CommandInv, StoreInv
  <2>2. \/ Commands!Goto(r, "create") /\ UNCHANGED <<Commands!storeVars, Commands!fileVars, crowded, littered>>
        \/ Commands!Goto(r, step) /\ UNCHANGED <<Commands!storeVars, Commands!fileVars, crowded, littered>>
        \/ Commands!Refused(r, 5)
    BY <1>2, <2>1 DEF Commands!OpenDatabase, Commands!Command
  <2> HIDE DEF step
  <2> QED
    BY <1>1, <2>1, <2>2, GoesOn, RefusedKept DEF Commands!storeVars, Commands!fileVars
<1>3. CASE Commands!CreateSchema(r)
  <2>1. job[r].at = "create"
    BY <1>3 DEF Commands!CreateSchema, Commands!At
  <2>2. \/ /\ schema' = "current" /\ Commands!Goto(r, step)
           /\ UNCHANGED <<rows, active, queue, Commands!fileVars, crowded, littered>>
        \/ Commands!Refused(r, 1)
    BY <1>3 DEF Commands!CreateSchema, Commands!Command
  <2> HIDE DEF step
  <2> QED
    BY <1>1, <2>1, <2>2, GoesOn, RefusedKept DEF Commands!fileVars
<1> QED
  BY <1>2, <1>3

LEMMA CommandSet ==
  ASSUME NEW j, Shaped(j)
  PROVE  \A x : LET e == [j EXCEPT !.command = x]
                IN  Shaped(e) /\ e.command = x /\ e.at = j.at /\ e.wrote = j.wrote /\ e.code = j.code
  BY DEF Shaped

\* Setting a field of a record sets that field.
LEMMA FieldSet ==
  ASSUME NEW j, Shaped(j)
  PROVE  /\ \A x : LET e == [j EXCEPT !.at = x]
                  IN  /\ Shaped(e) /\ e.at = x
                      /\ e.command = j.command /\ e.todo = j.todo /\ e.already = j.already
                      /\ e.wrote = j.wrote
                      /\ e.quiet = j.quiet /\ e.before = j.before /\ e.stored = j.stored
                      /\ e.pending = j.pending /\ e.code = j.code
         /\ \A x : LET e == [j EXCEPT !.todo = x]
                  IN  /\ Shaped(e) /\ e.todo = x
                      /\ e.at = j.at /\ e.command = j.command /\ e.already = j.already
                      /\ e.wrote = j.wrote
                      /\ e.quiet = j.quiet /\ e.before = j.before /\ e.stored = j.stored
                      /\ e.pending = j.pending /\ e.code = j.code
         /\ \A x : LET e == [j EXCEPT !.wrote = x]
                  IN  /\ Shaped(e) /\ e.wrote = x
                      /\ e.at = j.at /\ e.command = j.command /\ e.todo = j.todo
                      /\ e.already = j.already
                      /\ e.quiet = j.quiet /\ e.before = j.before /\ e.stored = j.stored
                      /\ e.pending = j.pending /\ e.code = j.code
         /\ \A x : LET e == [j EXCEPT !.already = x]
                  IN  /\ Shaped(e) /\ e.already = x
                      /\ e.at = j.at /\ e.command = j.command /\ e.todo = j.todo /\ e.wrote = j.wrote
                      /\ e.quiet = j.quiet /\ e.before = j.before /\ e.stored = j.stored
                      /\ e.pending = j.pending /\ e.code = j.code
         /\ \A x : LET e == [j EXCEPT !.before = x]
                  IN  /\ Shaped(e) /\ e.before = x
                      /\ e.at = j.at /\ e.command = j.command /\ e.todo = j.todo
                      /\ e.already = j.already /\ e.wrote = j.wrote
                      /\ e.quiet = j.quiet /\ e.stored = j.stored /\ e.pending = j.pending
                      /\ e.code = j.code
         /\ \A x : LET e == [j EXCEPT !.quiet = x]
                  IN  /\ Shaped(e) /\ e.quiet = x
                      /\ e.at = j.at /\ e.command = j.command /\ e.todo = j.todo
                      /\ e.already = j.already /\ e.wrote = j.wrote
                      /\ e.before = j.before /\ e.stored = j.stored /\ e.pending = j.pending
                      /\ e.code = j.code
         /\ \A x : LET e == [j EXCEPT !.stored = x]
                  IN  /\ Shaped(e) /\ e.stored = x
                      /\ e.at = j.at /\ e.command = j.command /\ e.todo = j.todo
                      /\ e.already = j.already /\ e.wrote = j.wrote
                      /\ e.quiet = j.quiet /\ e.before = j.before /\ e.pending = j.pending
                      /\ e.code = j.code
         /\ \A x : LET e == [j EXCEPT !.pending = x]
                  IN  /\ Shaped(e) /\ e.pending = x
                      /\ e.at = j.at /\ e.command = j.command /\ e.todo = j.todo
                      /\ e.already = j.already /\ e.wrote = j.wrote
                      /\ e.quiet = j.quiet /\ e.before = j.before /\ e.stored = j.stored
                      /\ e.code = j.code
         /\ \A x : LET e == [j EXCEPT !.code = x]
                  IN  /\ Shaped(e) /\ e.code = x
                      /\ e.at = j.at /\ e.command = j.command /\ e.todo = j.todo
                      /\ e.already = j.already /\ e.wrote = j.wrote
                      /\ e.quiet = j.quiet /\ e.before = j.before /\ e.stored = j.stored
                      /\ e.pending = j.pending
<1>1. \A x : LET e == [j EXCEPT !.at = x]
            IN  /\ Shaped(e) /\ e.at = x
                /\ e.command = j.command /\ e.todo = j.todo /\ e.already = j.already
                /\ e.wrote = j.wrote
                /\ e.quiet = j.quiet /\ e.before = j.before /\ e.stored = j.stored
                /\ e.pending = j.pending /\ e.code = j.code
  BY DEF Shaped
<1>2. \A x : LET e == [j EXCEPT !.todo = x]
            IN  /\ Shaped(e) /\ e.todo = x
                /\ e.at = j.at /\ e.command = j.command /\ e.already = j.already /\ e.wrote = j.wrote
                /\ e.quiet = j.quiet /\ e.before = j.before /\ e.stored = j.stored
                /\ e.pending = j.pending /\ e.code = j.code
  BY DEF Shaped
<1>3. \A x : LET e == [j EXCEPT !.wrote = x]
            IN  /\ Shaped(e) /\ e.wrote = x
                /\ e.at = j.at /\ e.command = j.command /\ e.todo = j.todo /\ e.already = j.already
                /\ e.quiet = j.quiet /\ e.before = j.before /\ e.stored = j.stored
                /\ e.pending = j.pending /\ e.code = j.code
  BY DEF Shaped
<1>4. \A x : LET e == [j EXCEPT !.already = x]
            IN  /\ Shaped(e) /\ e.already = x
                /\ e.at = j.at /\ e.command = j.command /\ e.todo = j.todo /\ e.wrote = j.wrote
                /\ e.quiet = j.quiet /\ e.before = j.before /\ e.stored = j.stored
                /\ e.pending = j.pending /\ e.code = j.code
  BY DEF Shaped
<1>5. \A x : LET e == [j EXCEPT !.before = x]
            IN  /\ Shaped(e) /\ e.before = x
                /\ e.at = j.at /\ e.command = j.command /\ e.todo = j.todo /\ e.already = j.already
                /\ e.wrote = j.wrote
                /\ e.quiet = j.quiet /\ e.stored = j.stored /\ e.pending = j.pending
                /\ e.code = j.code
  BY DEF Shaped
<1>6. \A x : LET e == [j EXCEPT !.quiet = x]
            IN  /\ Shaped(e) /\ e.quiet = x
                /\ e.at = j.at /\ e.command = j.command /\ e.todo = j.todo /\ e.already = j.already
                /\ e.wrote = j.wrote
                /\ e.before = j.before /\ e.stored = j.stored /\ e.pending = j.pending
                /\ e.code = j.code
  BY DEF Shaped
<1>7. \A x : LET e == [j EXCEPT !.stored = x]
            IN  /\ Shaped(e) /\ e.stored = x
                /\ e.at = j.at /\ e.command = j.command /\ e.todo = j.todo /\ e.already = j.already
                /\ e.wrote = j.wrote
                /\ e.quiet = j.quiet /\ e.before = j.before /\ e.pending = j.pending
                /\ e.code = j.code
  BY DEF Shaped
<1>8. \A x : LET e == [j EXCEPT !.pending = x]
            IN  /\ Shaped(e) /\ e.pending = x
                /\ e.at = j.at /\ e.command = j.command /\ e.todo = j.todo /\ e.already = j.already
                /\ e.wrote = j.wrote
                /\ e.quiet = j.quiet /\ e.before = j.before /\ e.stored = j.stored /\ e.code = j.code
  BY DEF Shaped
<1>9. \A x : LET e == [j EXCEPT !.code = x]
            IN  /\ Shaped(e) /\ e.code = x
                /\ e.at = j.at /\ e.command = j.command /\ e.todo = j.todo /\ e.already = j.already
                /\ e.wrote = j.wrote
                /\ e.quiet = j.quiet /\ e.before = j.before /\ e.stored = j.stored
                /\ e.pending = j.pending
  BY DEF Shaped
<1> QED
  BY <1>1, <1>2, <1>3, <1>4, <1>5, <1>6, <1>7, <1>8, <1>9

LEMMA LookUpKept ==
  ASSUME CommandInv, NEW r \in Operator, Commands!LookUp(r)
  PROVE  CommandInv'
<1> DEFINE step == Commands!AfterFind(job[r].command.kind)
<1>1. /\ step \in {"count", "check", "insert"}
      /\ step = "count" => job[r].command.kind = "register"
      /\ step = "check" => job[r].command.kind = "verify-queue"
  BY DEF Commands!AfterFind
<1>2. job[r].at = "find"
  BY DEF Commands!LookUp, Commands!At
<1>3. Shaped(job[r]) /\ Progress(job[r])
  BY <1>2, Begun DEF CommandInv
<1>4. CASE /\ Commands!Goto(r, step)
           /\ UNCHANGED <<Commands!storeVars, Commands!fileVars, crowded, littered>>
  <2> HIDE DEF step
  <2> QED
    BY <1>1, <1>2, <1>4, GoesOn DEF Commands!storeVars, Commands!fileVars, CommandInv, StoreInv
<1>5. CASE /\ job' = [job EXCEPT ![r].todo = Tail(@)]
           /\ UNCHANGED <<Commands!storeVars, Commands!fileVars, crowded, littered>>
  <2> DEFINE rest == Tail(job[r].todo)
             j == [job[r] EXCEPT !.todo = rest]
  <2>1. job' = [job EXCEPT ![r] = j]
    BY <1>5 DEF CommandInv, JobInv
  <2> HIDE DEF rest
  <2>2. /\ Shaped(j) /\ j.at = "find" /\ j.command = job[r].command /\ j.code = job[r].code
        /\ j.wrote = job[r].wrote
    BY <1>2, <1>3, FieldSet
  <2> HIDE DEF j
  <2>3. Goes(r, j)
    BY <2>1 DEF Goes, CommandInv, JobInv
  <2>4. Progress(j) /\ ~Went(j)
    BY <1>2, <1>3, <2>2 DEF Progress, Went
  <2>5. Keeping(j) <=> Commands!HoldsStage(r)
    BY <1>2, <2>2 DEF Keeping, Commands!HoldsStage, Commands!Staging, Commands!Working,
       Commands!At, Commands!Command
  <2>6. StoreInv' /\ Grows
    BY <1>5 DEF CommandInv, StoreInv, Grows, Commands!storeVars, Commands!fileVars
  <2> QED
    BY <1>5, <2>2, <2>3, <2>4, <2>5, <2>6, PlainStep DEF Commands!storeVars, Commands!fileVars
<1>6. CASE Commands!Refused(r, 6)
  BY <1>2, <1>6, RefusedKept
<1> QED
  BY <1>4, <1>5, <1>6 DEF Commands!LookUp, Commands!Command

\* A run stores a row, or a workflow, and goes on to j.
LEMMA InsertKept ==
  ASSUME CommandInv, NEW r \in Operator, NEW kind \in DOMAIN Commands!Creates,
         Commands!Insert(r, kind)
  PROVE  CommandInv'
<1>1. job[r].at = "insert" /\ job[r].command.kind = kind /\ kind \notin {"register", "list"}
  BY DEF Commands!Insert, Commands!At, Commands!Command, Commands!Creates
<1>2. Shaped(job[r]) /\ Progress(job[r])
  BY <1>1, Begun DEF CommandInv
<1>3. CASE Commands!Refused(r, 6)
  BY <1>1, <1>3, RefusedKept
<1>4. CASE /\ rows' = rows \cup {Commands!Creates[kind]}
           /\ job' = [job EXCEPT ![r].wrote = TRUE, ![r].at = "exit"]
           /\ UNCHANGED <<schema, active, queue, Commands!fileVars, crowded, littered>>
  <2> DEFINE i == [job[r] EXCEPT !.wrote = TRUE]
             j == [i EXCEPT !.at = "exit"]
  <2>1. job' = [[job EXCEPT ![r] = i] EXCEPT ![r] = j]
    BY <1>4 DEF CommandInv, JobInv
  <2>2. Shaped(i) /\ i.wrote = TRUE /\ i.command = job[r].command /\ i.code = job[r].code
    BY <1>2, FieldSet
  <2> HIDE DEF i
  <2>3. Shaped(j) /\ j.wrote = TRUE /\ j.at = "exit" /\ j.command = i.command /\ j.code = i.code
    BY <2>2, FieldSet
  <2> HIDE DEF j
  <2>4. Goes(r, j)
    BY <2>1 DEF Goes, CommandInv, JobInv
  <2>5. Progress(j) /\ ~Went(j) /\ ~Keeping(j) /\ ~Commands!HoldsStage(r)
    BY <1>1, <1>2, <2>2, <2>3 DEF Progress, Went, Keeping, Steps, Commands!HoldsStage,
       Commands!Staging, Commands!Command
  <2>6. StoreInv' /\ Grows
    BY <1>4 DEF CommandInv, StoreInv, Grows
  <2> QED
    BY <1>4, <2>3, <2>4, <2>5, <2>6, PlainStep DEF Commands!fileVars
<1> QED
  BY <1>3, <1>4 DEF Commands!Insert

LEMMA CountKept ==
  ASSUME CommandInv, NEW r \in Operator, Commands!CountCases(r)
  PROVE  CommandInv'
<1> DEFINE h == [job[r] EXCEPT !.already = Cardinality(queue.cases)]
           i == [h EXCEPT !.before = queue.cases]
           j == [i EXCEPT !.at = "register"]
<1>1. job[r].at = "count" /\ UNCHANGED <<Commands!storeVars, Commands!fileVars, crowded, littered>>
  BY CountsAgree DEF Commands!CountCases, Commands!At
<1>2. Shaped(job[r]) /\ Progress(job[r])
  BY <1>1, Begun DEF CommandInv
<1>3. job' = [[[job EXCEPT ![r] = h] EXCEPT ![r] = i] EXCEPT ![r] = j]
  BY Zenon, CountsAgree DEF Commands!CountCases, CommandInv, JobInv
<1>4. /\ Shaped(h) /\ h.already = Cardinality(queue.cases) /\ h.command = job[r].command
      /\ h.code = job[r].code /\ h.wrote = job[r].wrote
  BY <1>2, FieldSet
<1> HIDE DEF h
<1>5. /\ Shaped(i) /\ i.before = queue.cases /\ i.already = h.already /\ i.command = h.command
      /\ i.code = h.code /\ i.wrote = h.wrote
  BY <1>4, FieldSet
<1> HIDE DEF i
<1>6. /\ Shaped(j) /\ j.at = "register" /\ j.before = i.before /\ j.already = i.already
      /\ j.command = i.command /\ j.code = i.code /\ j.wrote = i.wrote
  BY <1>5, FieldSet
<1> HIDE DEF j
<1>7. Goes(r, j)
  BY <1>3 DEF Goes, CommandInv, JobInv
<1>8. Progress(j) /\ ~Went(j)
  BY <1>1, <1>2, <1>4, <1>5, <1>6 DEF Progress, Went, Steps, CommandInv, StoreInv
<1>9. Keeping(j) <=> Commands!HoldsStage(r)
  BY <1>1, <1>4, <1>5, <1>6 DEF Keeping, Commands!HoldsStage, Commands!Staging, Commands!Working,
     Commands!Ended, Commands!At, Commands!Command
<1>10. StoreInv' /\ Grows
  BY <1>1 DEF CommandInv, StoreInv, Grows, Commands!storeVars, Commands!fileVars
<1> QED
  BY <1>1, <1>4, <1>5, <1>6, <1>7, <1>8, <1>9, <1>10, PlainStep DEF Commands!storeVars,
     Commands!fileVars

\* Cases that are not stored yet are counted by a difference.
LEMMA CountOfNew ==
  ASSUME NEW A, NEW B, IsFiniteSet(A), B \subseteq A
  PROVE  /\ IsFiniteSet(B) /\ Commands!Max({0, Cardinality(A) - Cardinality(B)}) = Cardinality(A \ B)
         /\ Cardinality(A \ B) = 0 => A \ B = {}
<1>1. /\ IsFiniteSet(B) /\ Cardinality(A) \in Nat /\ Cardinality(B) \in Nat
      /\ IsFiniteSet(A \ B) /\ Cardinality(A \ B) \in Nat
  BY FS_Subset, FS_Difference, FS_CardinalityType
<1>2. Cardinality(A \ B) = Cardinality(A) - Cardinality(B)
  <2>1. A \cap B = B
    OBVIOUS
  <2> QED
    BY <2>1, <1>1, FS_Difference
<1>3. \A n \in Nat : Commands!Max({0, n}) = n
  BY DEF Commands!Max
<1> QED
  BY <1>1, <1>2, <1>3, FS_EmptySet

LEMMA RegisterKept ==
  ASSUME CommandInv, NEW r \in Operator, Commands!RegisterWorkflow(r)
  PROVE  CommandInv'
<1> DEFINE w == job[r].command.workflow
           new == w.cases \ queue.cases
           same == job[r].before = queue.cases
           count == Cardinality(w.cases \ queue.decided)
           Success == /\ queue.context \in {NoContext, w.context}
                      /\ queue' = [queue EXCEPT !.context = w.context, !.cases = @ \cup w.cases]
                      /\ job' = [job EXCEPT ![r].wrote = TRUE, ![r].quiet = same, ![r].stored = new,
                                            ![r].pending = count, ![r].at = "publish"]
                      /\ UNCHANGED <<schema, rows, active, Commands!fileVars, crowded, littered>>
           d == [job[r] EXCEPT !.wrote = TRUE]
           e == [d EXCEPT !.quiet = same]
           f == [e EXCEPT !.stored = new]
           g == [f EXCEPT !.pending = count]
           j == [g EXCEPT !.at = "publish"]
<1>1. job[r].at = "register"
  BY CountsAgree DEF Commands!RegisterWorkflow, Commands!At
<1>2. Shaped(job[r]) /\ Progress(job[r])
  BY <1>1, Begun DEF CommandInv
<1>3. /\ job[r].command.kind = "register" /\ job[r].command \in Jobs /\ IsFiniteSet(w.cases)
      /\ w.context # NoContext
  BY <1>1, <1>2, JobsAreTyped DEF Progress
<1>4. \/ Commands!Refused(r, 5) \/ Commands!Refused(r, 6)
      \/ Success
  BY CountsAgree DEF Commands!RegisterWorkflow, Commands!Command
<1>5. CASE Success
  <2>1. queue' = [context |-> w.context, cases |-> queue.cases \cup w.cases, decided |-> queue.decided]
    BY <1>5 DEF CommandInv, StoreInv
  <2>2. IsFiniteSet(queue.cases \cup w.cases)
    BY <1>3, FS_Union DEF CommandInv, StoreInv
  <2>3. StoreInv' /\ Grows /\ In(queue', w)
    BY <1>5, <2>1, <2>2 DEF CommandInv, StoreInv, Grows, In
  <2>4. job' = [[[[[job EXCEPT ![r] = d] EXCEPT ![r] = e] EXCEPT ![r] = f] EXCEPT ![r] = g] EXCEPT ![r] = j]
    BY <1>5, Zenon DEF CommandInv, JobInv
  <2> HIDE DEF new, same, count
  <2>5. /\ Shaped(d) /\ d.wrote = TRUE /\ d.command = job[r].command /\ d.already = job[r].already
        /\ d.before = job[r].before /\ d.code = job[r].code
    BY <1>2, FieldSet
  <2> HIDE DEF d
  <2>6. /\ Shaped(e) /\ e.wrote = TRUE /\ e.command = d.command /\ e.already = d.already
        /\ e.before = d.before /\ e.code = d.code /\ e.quiet = same
    BY <2>5, FieldSet
  <2> HIDE DEF e
  <2>7. /\ Shaped(f) /\ f.wrote = TRUE /\ f.command = e.command /\ f.already = e.already
        /\ f.before = e.before /\ f.code = e.code /\ f.quiet = same /\ f.stored = new
    BY <2>6, FieldSet
  <2> HIDE DEF f
  <2>8. /\ Shaped(g) /\ g.wrote = TRUE /\ g.command = f.command /\ g.already = f.already
        /\ g.before = f.before /\ g.code = f.code /\ g.quiet = same /\ g.stored = new
    BY <2>7, FieldSet
  <2> HIDE DEF g
  <2>9. /\ Shaped(j) /\ j.wrote = TRUE /\ j.command = g.command /\ j.already = g.already
        /\ j.before = g.before /\ j.code = g.code /\ j.quiet = same /\ j.stored = new
        /\ j.at = "publish"
    BY <2>8, FieldSet
  <2> HIDE DEF j
  <2>10. Goes(r, j)
    BY <2>4 DEF Goes, CommandInv, JobInv
  <2>11. /\ j.command = job[r].command /\ j.already = job[r].already /\ j.before = job[r].before
         /\ j.code = 0
    BY <1>1, <1>2, <2>5, <2>6, <2>7, <2>8, <2>9 DEF Progress
  <2>12. j.quiet => j.stored = w.cases \ j.before
    BY <2>9, <2>11 DEF same, new
  <2>13. Progress(j)
    BY <1>1, <1>2, <1>3, <2>9, <2>11, <2>12 DEF Progress, Steps, Went
  <2>14. Keeping(j) <=> Commands!HoldsStage(r)
    BY <1>1, <1>3, <2>9, <2>11 DEF Keeping, Commands!HoldsStage, Commands!Staging,
       Commands!Working, Commands!Ended, Commands!At, Commands!Command
  <2> QED
    BY <1>5, <2>3, <2>9, <2>10, <2>11, <2>13, <2>14, PlainStep DEF Commands!fileVars
<1> HIDE DEF Success
<1> QED
  BY <1>1, <1>4, <1>5, RefusedKept

LEMMA StorageFailsKept ==
  ASSUME CommandInv, NEW r \in Operator, Commands!StorageFails(r)
  PROVE  CommandInv'
  BY RefusedKept DEF Commands!StorageFails

\* The report is written: it is published, or staged.
LEMMA WriteKept ==
  ASSUME CommandInv, NEW r \in Operator, Commands!WriteReport(r) \/ Commands!WriteReportFails(r)
  PROVE  CommandInv'
<1>1. job[r].at = "stage" /\ UNCHANGED <<schema, rows, active, queue>>
  BY DEF Commands!WriteReport, Commands!WriteReportFails, Commands!At, Commands!storeVars
<1>2. Shaped(job[r]) /\ Progress(job[r])
  BY <1>1, Begun DEF CommandInv
<1>3. /\ job[r].wrote = FALSE /\ job[r].command.kind \in {"generate", "register"}
      /\ ~Commands!HoldsStage(r)
  BY <1>1, <1>2 DEF Progress, Commands!HoldsStage, Commands!At
<1>4. /\ crowded' \in BOOLEAN /\ (crowded => crowded') /\ littered' \in BOOLEAN
      /\ (littered => littered')
      /\ job[r].command.kind = "register" =>
           crowded' \/ \A q \in Operator \ {r} : ~Commands!HoldsStage(q)
  BY <1>1 DEF Commands!WriteReport, Commands!WriteReportFails, CommandInv, StoreInv,
     Commands!Staging, Commands!Working, Commands!Ended, Commands!Command
<1>5. Grows /\ StoreInv'
  BY <1>1, <1>4 DEF CommandInv, StoreInv, Grows
<1>6. CASE Commands!WriteReport(r) /\ job[r].command.kind = "register"
  <2>1. /\ Commands!Goto(r, "open") /\ final' = final
        /\ staged' = Commands!Report(job[r].command.workflow, TRUE, "register")
    BY <1>6 DEF Commands!WriteReport, Commands!Command
  <2>2. Goes(r, Next2(job[r], "open", 0))
    BY <1>1, <2>1, GoesTo DEF CommandInv
  <2>3. /\ Progress(Next2(job[r], "open", 0)) /\ ~Went(Next2(job[r], "open", 0))
        /\ Shaped(Next2(job[r], "open", 0)) /\ Keeping(Next2(job[r], "open", 0))
        /\ Next2(job[r], "open", 0).command = job[r].command
    BY <1>1, <1>2, <1>3, <1>6 DEF Progress, Steps, Went, Next2, Shaped, Keeping, Commands!Ended
  <2>4. RegisteredInv'
    BY <1>4, <1>5, <2>1, <2>2, <2>3, RegisteredKept
  <2>5. StageInv'
    BY <1>4, <1>6, <2>1, <2>2, <2>3, StageKept
  <2> QED
    BY <1>5, <2>2, <2>3, <2>4, <2>5, Stepped DEF CommandInv
<1>7. ASSUME NEW code \in {0, 3}, Commands!Exit(r, code),
             code = 0 => job[r].command.kind = "generate",
             final' = final \/ final'.by = "generate",
             \/ job[r].command.kind = "generate" /\ staged' = staged
             \/ job[r].command.kind = "register" /\ (staged' = NoFile \/ littered')
      PROVE  CommandInv'
  <2> DEFINE j == Next2(job[r], "exit", code)
  <2>1. Goes(r, j)
    BY <1>1, <1>7, Exits DEF CommandInv
  <2>2. Progress(j) /\ ~Went(j) /\ Shaped(j) /\ ~Keeping(j)
    BY <1>1, <1>2, <1>3, <1>7 DEF Progress, Steps, Went, Next2, Shaped, Keeping, Commands!Ended
  <2> HIDE DEF j
  <2>3. RegisteredInv'
    BY <1>4, <1>5, <1>7, <2>1, <2>2, RegisteredKept
  <2>4. StageInv'
    BY <1>3, <1>4, <1>7, <2>1, <2>2, StageKept
  <2> QED
    BY <1>5, <2>1, <2>2, <2>3, <2>4, Stepped DEF CommandInv
<1>8. CASE Commands!WriteReport(r) /\ job[r].command.kind = "generate"
  BY <1>7, <1>8 DEF Commands!WriteReport, Commands!Command, Commands!Report
<1>9. CASE Commands!WriteReportFails(r)
  BY <1>3, <1>7, <1>9 DEF Commands!WriteReportFails, Commands!Command, Commands!Report,
     Commands!Torn
<1> QED
  BY <1>3, <1>6, <1>8, <1>9

\* The staged report is published: it is the one that this run staged.
LEMMA PublishKept ==
  ASSUME CommandInv, NEW r \in Operator, Commands!Publish(r) \/ Commands!PublishFails(r)
  PROVE  CommandInv'
<1>1. job[r].at = "publish"
  BY DEF Commands!Publish, Commands!PublishFails, Commands!At
<1>2. Shaped(job[r]) /\ Progress(job[r])
  BY <1>1, Begun DEF CommandInv
<1>3. CASE Commands!PublishFails(r)
  BY <1>1, <1>3, RefusedKept DEF Commands!PublishFails
<1>4. CASE Commands!Publish(r)
  <2> DEFINE j == Next2(job[r], "exit", 0)
  <2>1. /\ final' = staged /\ staged' = NoFile /\ Commands!Exit(r, 0)
        /\ UNCHANGED <<schema, rows, active, queue, crowded, littered>>
    BY <1>4 DEF Commands!Publish, Commands!storeVars
  <2>2. Goes(r, j)
    BY <1>1, <2>1, Exits DEF CommandInv
  <2>3. /\ job[r].command.kind = "register" /\ job[r].command \in Jobs /\ Went(job[r])
        /\ Commands!HoldsStage(r)
    BY <1>1, <1>2 DEF Progress, Went, Commands!HoldsStage, Commands!Staging, Commands!Working,
       Commands!Ended, Commands!At, Commands!Command
  <2>4. /\ Shaped(j) /\ ~Keeping(j) /\ j.command = job[r].command
        /\ j.at = "exit" /\ j.code = 0 /\ j.wrote = job[r].wrote /\ j.before = job[r].before
        /\ j.already = job[r].already /\ j.quiet = job[r].quiet /\ j.stored = job[r].stored
    BY DEF Next2, Shaped, Keeping, Commands!Ended
  <2> HIDE DEF j
  <2>5. Progress(j)
    BY <1>2, <2>3, <2>4 DEF Progress, Steps, Went
  <2>6. In(queue, job[r].command.workflow)
    BY <2>3, Begun, <1>1 DEF CommandInv, RegisteredInv
  <2>7. StoreInv' /\ Grows /\ JobInv'
    BY <2>1, <2>2, <2>4, <2>5, Stepped DEF CommandInv, StoreInv, Grows
  <2>8. StageInv'
    BY <2>1, <2>2, <2>3, <2>4, StageKept
  <2>9. ~crowded => staged = Commands!Report(job[r].command.workflow, TRUE, "register")
    BY <2>3 DEF CommandInv, StageInv
  <2>10. \A q \in Operator : job'[q] # Commands!Idle /\ Went(job'[q]) =>
           In(queue', job'[q].command.workflow)
    <3>1. job'[r] = j /\ \A q \in Operator \ {r} : job'[q] = job[q]
      BY <2>2, Stepped DEF CommandInv
    <3> QED
      BY <2>1, <2>4, <2>6, <3>1 DEF CommandInv, RegisteredInv
  <2>11. RegisteredInv'
    <3>1. ASSUME ~crowded', final'.by = "register"
          PROVE  final'.whole /\ In(queue', final'.workflow) /\ final'.workflow.context # NoContext
      BY <2>1, <2>3, <2>6, <2>9, <3>1, JobsAreTyped DEF Commands!Report
    <3> QED
      BY <2>10, <3>1 DEF RegisteredInv, Went
  <2> QED
    BY <2>7, <2>8, <2>11 DEF CommandInv
<1> QED
  BY <1>3, <1>4

\* A reading command ends.
LEMMA ReaderEnds ==
  ASSUME CommandInv, NEW r \in Operator, job[r].at = "load", NEW j, Goes(r, j), Shaped(j),
         j.at = "exit", j.wrote = FALSE, j.code \in 0..7, j.command.kind = job[r].command.kind,
         j.code = 0 => j.quiet /\ j.command.workflow.records,
         UNCHANGED <<schema, rows, active, queue, staged, final, crowded, littered>>
  PROVE  CommandInv'
<1>1. Progress(job[r])
  BY Begun DEF CommandInv
<1>2. /\ job[r].command.kind \in {"list", "inspect"} /\ job[r].command.kind \in Commands!Kinds
      /\ ~Commands!HoldsStage(r)
  BY <1>1 DEF Progress, Commands!HoldsStage, Commands!Staging, Commands!Command
<1>3. StoreInv' /\ Grows
  BY DEF CommandInv, StoreInv, Grows
<1>4. Progress(j) /\ ~Went(j) /\ ~Keeping(j)
  BY <1>2 DEF Progress, Steps, Went, Keeping
<1> QED
  BY <1>2, <1>3, <1>4, PlainStep

\* What a reading command exits 0 with is the report that it read.
LEMMA LoadKept ==
  ASSUME CommandInv, NEW r \in Operator, Commands!LoadReport(r)
  PROVE  CommandInv'
<1>1. /\ job[r].at = "load"
      /\ UNCHANGED <<schema, rows, active, queue, staged, final, crowded, littered>>
  BY DEF Commands!LoadReport, Commands!At, Commands!storeVars, Commands!fileVars
<1>2. Shaped(job[r]) /\ Progress(job[r])
  BY <1>1, Begun DEF CommandInv
<1>3. /\ job[r].command.kind \in {"list", "inspect"} /\ job[r].wrote = FALSE
      /\ job[r].command \in Jobs
      /\ job[r].command.kind \in Commands!Kinds /\ ~Commands!HoldsStage(r)
  BY <1>1, <1>2 DEF Progress, Commands!HoldsStage, Commands!Staging, Commands!Command
<1>6. ASSUME NEW code \in {3, 4}, Commands!Exit(r, code)
      PROVE  CommandInv'
  <2> DEFINE j == Next2(job[r], "exit", code)
  <2>1. Goes(r, j)
    BY <1>1, <1>6, Exits DEF CommandInv
  <2>2. /\ Shaped(j) /\ j.at = "exit" /\ j.code = code /\ j.wrote = FALSE
        /\ j.command.kind = job[r].command.kind
    BY <1>3 DEF Next2, Shaped
  <2>3. j.code \in 0..7 /\ j.code # 0
    BY <1>6, <2>2
  <2> HIDE DEF j
  <2> QED
    BY <1>1, <2>1, <2>2, <2>3, ReaderEnds
<1>7. CASE /\ Commands!Loadable(final)
           /\ job' = [job EXCEPT ![r].at = "exit", ![r].command.workflow = final.workflow,
                                 ![r].quiet = final.whole]
  <2> DEFINE asked == [job[r].command EXCEPT !.workflow = final.workflow]
             whole == final.whole
             d == [job[r] EXCEPT !.at = "exit"]
             e == [d EXCEPT !.command = asked]
             j == [e EXCEPT !.quiet = whole]
  <2>1. asked.kind = job[r].command.kind /\ asked.workflow = final.workflow
    BY <1>3, JobsAreTyped
  <2>2. final.whole /\ final.workflow.records
    BY <1>7 DEF Commands!Loadable
  <2>3. /\ Shaped(d) /\ d.at = "exit" /\ d.wrote = FALSE /\ d.code = 0 /\ d.command = job[r].command
    <3>1. job[r].code = 0
      BY <1>1, <1>2 DEF Progress
    <3> QED
      BY <1>2, <1>3, <3>1, FieldSet
  <2>4. job' = [[[job EXCEPT ![r] = d] EXCEPT ![r] = e] EXCEPT ![r] = j]
    <3>1. e = [d EXCEPT !.command = [d.command EXCEPT !.workflow = final.workflow]]
      BY <2>3, Zenon
    <3> QED
      BY <1>7, <3>1, Zenon DEF CommandInv, JobInv
  <2> HIDE DEF d, asked, whole
  <2>5. Shaped(e) /\ e.at = "exit" /\ e.wrote = FALSE /\ e.code = 0 /\ e.command = asked
    BY <2>3, CommandSet
  <2> HIDE DEF e
  <2>6. /\ Shaped(j) /\ j.at = "exit" /\ j.wrote = FALSE /\ j.code = 0 /\ j.command = asked
        /\ j.quiet = whole
    BY <2>5, FieldSet
  <2> HIDE DEF j
  <2>7. Goes(r, j)
    BY <2>4 DEF Goes, CommandInv, JobInv
  <2>8. /\ j.code \in 0..7 /\ j.quiet /\ j.command.workflow.records
        /\ j.command.kind = job[r].command.kind
    BY <2>1, <2>2, <2>6 DEF whole
  <2> QED
    BY <1>1, <2>6, <2>7, <2>8, ReaderEnds
<1> QED
  BY <1>6, <1>7 DEF Commands!LoadReport

LEMMA CrashKept ==
  ASSUME CommandInv, NEW r \in Operator, Commands!Crash(r)
  PROVE  CommandInv'
<1> DEFINE j == Next2(job[r], "dead", 0)
<1>1. /\ job[r].at \notin Commands!Ended /\ Commands!Goto(r, "dead") /\ littered' = TRUE
      /\ UNCHANGED <<schema, rows, active, queue>>
  BY DEF Commands!Crash, Commands!Working, Commands!storeVars
<1>2. Shaped(job[r]) /\ Progress(job[r])
  BY <1>1, Begun DEF CommandInv, Commands!Ended
<1>3. Goes(r, j)
  BY <1>1, GoesTo DEF CommandInv, Commands!Ended
<1>4. Progress(j) /\ ~Went(j) /\ Shaped(j) /\ ~Keeping(j)
  BY <1>1, <1>2 DEF Progress, Steps, Went, Next2, Shaped, Keeping, Commands!Ended
<1> HIDE DEF j
<1>5. /\ crowded' \in BOOLEAN /\ (crowded => crowded')
      /\ Commands!Staging(r) =>
           Commands!HoldsStage(r) \/ crowded' \/ \A q \in Operator \ {r} : ~Commands!HoldsStage(q)
  BY <1>1 DEF Commands!Crash, CommandInv, StoreInv, Commands!HoldsStage
<1>6. StoreInv' /\ Grows
  BY <1>1, <1>5 DEF CommandInv, StoreInv, Grows
<1>7. final' = final \/ final'.by = "generate"
  BY DEF Commands!Crash, Commands!Torn, Commands!Report, Commands!fileVars
<1>8. RegisteredInv'
  BY <1>3, <1>4, <1>5, <1>6, <1>7, RegisteredKept
<1>9. StageInv'
  <2>1. CASE Commands!Staging(r)
    BY <1>1, <1>3, <1>4, <1>5, <2>1, StageKept
  <2>2. CASE ~Commands!Staging(r)
    <3>1. staged' = staged /\ ~Commands!HoldsStage(r)
      BY <1>1, <1>2, <2>2 DEF Commands!Crash, Commands!HoldsStage, Commands!Staging,
         Commands!Working, Commands!At, Commands!Command, Progress, Commands!fileVars
    <3> QED
      BY <1>1, <1>3, <1>4, <1>5, <3>1, StageKept
  <2> QED
    BY <2>1, <2>2
<1> QED
  BY <1>3, <1>4, <1>6, <1>8, <1>9, Stepped DEF CommandInv

\* The server decides cases and suspends the tenant, and never touches a file.
LEMMA ServerKept ==
  ASSUME CommandInv,
         (\E c \in queue.cases : Commands!Decide(c)) \/ Commands!SetStatus \/ UNCHANGED Commands!vars
  PROVE  CommandInv'
<1>1. UNCHANGED <<staged, final, job, crowded, littered, schema, rows>>
  BY DEF Commands!Decide, Commands!SetStatus, Commands!vars, Commands!fileVars
<1>2. Grows /\ StoreInv'
  BY DEF Commands!Decide, Commands!SetStatus, Commands!vars, CommandInv, StoreInv, Grows
<1>3. JobInv'
  BY <1>1 DEF CommandInv, JobInv
<1>4. RegisteredInv'
  <2>1. ASSUME NEW q \in Operator, job[q] # Commands!Idle, Went(job[q])
        PROVE  In(queue', job[q].command.workflow)
    <3>1. job[q].command \in Jobs /\ In(queue, job[q].command.workflow)
      BY <2>1 DEF CommandInv, JobInv, Progress, Went, RegisteredInv
    <3> QED
      BY <1>2, <3>1, JobsAreTyped, RegisteredStays
  <2> QED
    BY <1>1, <1>2, <2>1, RegisteredStays DEF CommandInv, RegisteredInv, Went
<1>5. StageInv'
  BY <1>1 DEF CommandInv, StageInv, Commands!HoldsStage, Commands!Staging, Commands!Working,
     Commands!At, Commands!Command
<1> QED
  BY <1>2, <1>3, <1>4, <1>5 DEF CommandInv

LEMMA CommandInit == Commands!Init => CommandInv
<1> SUFFICES ASSUME Commands!Init
             PROVE  CommandInv
  OBVIOUS
<1>1. PICK s \in Stores : /\ schema = s.schema /\ rows = s.rows /\ active = s.active
                          /\ queue = s.queue /\ final = s.final
  BY DEF Commands!Init
<1>2. /\ job = [q \in Operator |-> Commands!Idle] /\ staged = NoFile /\ crowded = FALSE
      /\ littered = FALSE
  BY DEF Commands!Init
<1>3. JobInv
  BY <1>2 DEF JobInv
<1>4. StoreInv
  BY <1>1, <1>2, CommandAssumption, CountsAgree DEF Commands!StoreAssumption, StoreInv
<1>5. RegisteredInv
  BY <1>1, <1>2, CommandAssumption, CountsAgree DEF Commands!StoreAssumption, RegisteredInv, In
<1>6. StageInv
  BY <1>2, IdleHolds DEF StageInv
<1> QED
  BY <1>3, <1>4, <1>5, <1>6 DEF CommandInv

LEMMA CommandNext == CommandInv /\ [Commands!Next]_(Commands!vars) => CommandInv'
<1> SUFFICES ASSUME CommandInv, [Commands!Next]_(Commands!vars)
             PROVE  CommandInv'
  OBVIOUS
<1>1. ASSUME NEW r \in Operator, NEW c \in Jobs, Commands!Begin(r, c)
      PROVE  CommandInv'
  BY <1>1, BeginKept
<1>2. ASSUME NEW r \in Operator,
             \/ Commands!CreateOrganization(r) \/ Commands!CreateUser(r)
             \/ Commands!AddMembership(r) \/ Commands!CreateReviewQueue(r)
      PROVE  CommandInv'
  <2>1. {"create-organization", "create-user", "create-review-queue", "add-membership"}
          \subseteq DOMAIN Commands!Creates
    BY DEF Commands!Creates
  <2> QED
    BY <1>2, <2>1, InsertKept DEF Commands!CreateOrganization, Commands!CreateUser,
       Commands!AddMembership, Commands!CreateReviewQueue
<1>3. ASSUME NEW r \in Operator,
             \/ Commands!WriteReport(r) \/ Commands!WriteReportFails(r) \/ Commands!OpenDatabase(r)
             \/ Commands!CreateSchema(r) \/ Commands!LookUp(r) \/ Commands!RefuseReportResolution(r)
             \/ Commands!CountCases(r) \/ Commands!RegisterWorkflow(r) \/ Commands!StorageFails(r)
             \/ Commands!Publish(r) \/ Commands!PublishFails(r) \/ Commands!VerifyQueue(r)
             \/ Commands!LoadReport(r) \/ Commands!Crash(r)
      PROVE  CommandInv'
  BY <1>3, WriteKept, OpeningKept, LookUpKept, ReadingKept, CountKept, RegisterKept,
     StorageFailsKept,
     PublishKept, LoadKept, CrashKept
<1> QED
  BY <1>1, <1>2, <1>3, ServerKept DEF Commands!Next

LEMMA CommandInvariant == Commands!Spec => []CommandInv
  BY CommandInit, CommandNext, PTL DEF Commands!Spec

LEMMA CommandTypes == CommandInv => Commands!TypeOK
<1> SUFFICES ASSUME CommandInv
             PROVE  Commands!TypeOK
  OBVIOUS
<1>1. ASSUME NEW r \in Operator, job[r] # Commands!Idle
      PROVE  /\ Commands!Command(r).kind \in Commands!Kinds /\ job[r].code \in 0..7
             /\ job[r].wrote \in BOOLEAN
             /\ job[r].at \in Steps
  BY <1>1 DEF CommandInv, JobInv, Progress, Commands!Command
<1> QED
  BY <1>1 DEF Commands!TypeOK, CommandInv, StoreInv, Steps

LEMMA CommandExits == CommandInv => Commands!ExitCodesAreTrue
<1> SUFFICES ASSUME CommandInv, NEW r \in Operator, Commands!At(r, "exit")
             PROVE  /\ job[r].code \in {1, 2, 5, 6} => ~job[r].wrote
                    /\ Commands!Exited(r, "register", 0) =>
                         Commands!Registered(Commands!Command(r).workflow)
                    /\ Commands!Exited(r, "list", 0) =>
                         job[r].quiet /\ Commands!Command(r).workflow.records
  BY DEF Commands!ExitCodesAreTrue, Commands!Exited
<1>1. Progress(job[r]) /\ job[r].at = "exit" /\ job[r] # Commands!Idle
  BY Begun DEF Commands!At, CommandInv
<1> QED
  BY <1>1 DEF Progress, Commands!Exited, Commands!At, Commands!Command, Commands!Registered, In,
     CommandInv, RegisteredInv, Went

LEMMA CommandCounts == CommandInv => Commands!CountsAreTrue
<1> SUFFICES ASSUME CommandInv, NEW r \in Operator, Commands!Exited(r, "register", 0), job[r].quiet,
                    job[r].before \subseteq Commands!Command(r).workflow.cases
             PROVE  /\ Commands!NewlyRegistered(r) = Cardinality(job[r].stored)
                    /\ Commands!Announced(r) = "already" => job[r].stored = {}
  BY CountsAgree DEF Commands!CountsAreTrue
<1>1. Progress(job[r]) /\ Went(job[r]) /\ job[r].command \in Jobs
  BY Begun DEF Commands!Exited, Commands!At, Commands!Command, CommandInv, Went, Progress
<1>2. /\ job[r].already = Cardinality(job[r].before)
      /\ job[r].stored = job[r].command.workflow.cases \ job[r].before
      /\ IsFiniteSet(job[r].command.workflow.cases)
  BY <1>1, JobsAreTyped DEF Progress
<1>3. /\ Commands!NewlyRegistered(r) = Cardinality(job[r].stored)
      /\ Cardinality(job[r].stored) = 0 => job[r].stored = {}
  <2>1. Commands!NewlyRegistered(r) =
          Commands!Max({0, Cardinality(job[r].command.workflow.cases) - Cardinality(job[r].before)})
    BY <1>2, CountsAgree DEF Commands!NewlyRegistered, Commands!Command
  <2>2. job[r].before \subseteq job[r].command.workflow.cases
    BY DEF Commands!Command
  <2> QED
    BY <1>2, <2>1, <2>2, CountOfNew
<1>4. Commands!Announced(r) = "already" => Commands!NewlyRegistered(r) = 0
  BY DEF Commands!Announced
<1> QED
  BY <1>3, <1>4

LEMMA CommandReports == CommandInv => Commands!PublishedIsRegistered /\ Commands!NothingStagedIsLeft
  BY DEF CommandInv, RegisteredInv, StageInv, In, Commands!Registered,
     Commands!PublishedIsRegistered, Commands!NothingStagedIsLeft

-----------------------------------------------------------------------------
(* The verification of a queue *)

\* A queue as the tables may hold it.
LEMMA QueuesAreTyped ==
  ASSUME NEW q \in Queues
  PROVE  /\ IsFiniteSet(Integrity!CasesOf(q)) /\ IsFiniteSet(Integrity!Decided(q))
         /\ IsFiniteSet(Integrity!Numbered(q))
         /\ IsFiniteSet(Integrity!Resolutions(q))
         /\ Cardinality(Integrity!Decided(q)) \in Nat
         /\ Cardinality(Integrity!Decided(q)) <= Cardinality(DOMAIN q.cases)
         /\ Cardinality(DOMAIN q.cases) \in Nat
         /\ Integrity!CasesOf(q) \subseteq DOMAIN q.cases
         /\ Integrity!Decided(q) \subseteq Integrity!CasesOf(q)
         /\ Integrity!Numbered(q) \subseteq DOMAIN q.events
         /\ Integrity!Resolutions(q) \subseteq DOMAIN q.events
         /\ \A i \in Integrity!Numbered(q) : q.events[i].ordinal \in Nat \ {0}
         /\ q.index \in {"global", "weak", "missing"} /\ q.context \in {"none", "empty", "whole"}
<1>1. /\ IsFiniteSet(DOMAIN q.cases) /\ IsFiniteSet(DOMAIN q.events)
      /\ \A i \in DOMAIN q.events : q.events[i].ordinal \in Nat
      /\ q.index \in {"global", "weak", "missing"} /\ q.context \in {"none", "empty", "whole"}
  BY VerifyAssumption, CountsAgree DEF Integrity!QueueAssumption
<1>2. /\ Integrity!CasesOf(q) \subseteq DOMAIN q.cases
      /\ Integrity!Decided(q) \subseteq Integrity!CasesOf(q)
      /\ Integrity!Numbered(q) \subseteq DOMAIN q.events
      /\ Integrity!Resolutions(q) \subseteq DOMAIN q.events
      /\ \A i \in Integrity!Numbered(q) : q.events[i].ordinal # 0
  BY DEF Integrity!CasesOf, Integrity!Decided, Integrity!Numbered, Integrity!Resolutions
<1>3. /\ IsFiniteSet(Integrity!CasesOf(q)) /\ IsFiniteSet(Integrity!Numbered(q))
      /\ IsFiniteSet(Integrity!Resolutions(q))
  BY <1>1, <1>2, FS_Subset
<1>4. /\ IsFiniteSet(Integrity!Decided(q))
      /\ Cardinality(Integrity!Decided(q)) <= Cardinality(DOMAIN q.cases)
  BY <1>1, <1>2, FS_Subset
<1> QED
  BY <1>1, <1>2, <1>3, <1>4, FS_CardinalityType

LEMMA ResolutionsExist ==
  ASSUME NEW q \in Queues, NEW c \in Integrity!CasesOf(q), NEW n \in 1..Cardinality(DOMAIN q.cases)
  PROVE  [decision |-> q.cases[c].status, ordinal |-> n] # NoResolution
  BY VerifyAssumption, CountsAgree DEF Integrity!QueueAssumption

\* Where events are valid, the ordinals belong to the resolutions.
LEMMA ResolutionsAreNumbered ==
  ASSUME NEW q, \A i \in DOMAIN q.events : Integrity!EventIsValid(q.events[i])
  PROVE  Integrity!Resolutions(q) = Integrity!Numbered(q)
  BY DEF Integrity!Resolutions, Integrity!Numbered, Integrity!EventIsValid

\* A set that is mapped onto and into 1..n has n elements.
LEMMA CountedBy ==
  ASSUME NEW n \in Nat, NEW S, NEW f \in [1..n -> S], IsFiniteSet(S), Cardinality(S) = n,
         \A a, b \in 1..n : f[a] = f[b] => a = b
  PROVE  \A s \in S : \E a \in 1..n : f[a] = s
<1>1. f \in Injection(1..n, S)
  BY DEF Injection, IsInjective
<1>2. IsFiniteSet(1..n) /\ Cardinality(1..n) = n
  BY FS_Interval
<1>3. f \in Surjection(1..n, S)
  BY <1>1, <1>2, FS_Injection
<1> QED
  BY <1>3 DEF Surjection

\* Two finite sets related one to one have as many elements.
LEMMA OneToOne ==
  ASSUME NEW S, NEW T, IsFiniteSet(S), NEW f \in [S -> T],
         \A a, b \in S : f[a] = f[b] => a = b, \A t \in T : \E s \in S : f[s] = t
  PROVE  IsFiniteSet(T) /\ Cardinality(T) = Cardinality(S)
<1>1. f \in Injection(S, T)
  BY DEF Injection, IsInjective
<1>2. f \in Surjection(S, T)
  BY DEF Surjection
<1> QED
  BY <1>1, <1>2, FS_Bijection DEF ExistsBijection, Bijection

LEMMA AtMostOne ==
  ASSUME NEW S, IsFiniteSet(S), Cardinality(S) <= 1
  PROVE  \A a, b \in S : a = b
<1>1. Cardinality(S) \in Nat
  BY FS_CardinalityType
<1>2. CASE Cardinality(S) = 0
  BY <1>2, FS_EmptySet
<1>3. CASE Cardinality(S) = 1
  BY <1>3, FS_Singleton
<1> QED
  BY <1>1, <1>2, <1>3

\* A queue without findings is one that decisions have written.
LEMMA CleanIsWritten ==
  ASSUME NEW q \in Queues, Integrity!Findings(q) = {}
  PROVE  Integrity!WrittenByDecisions(q) /\ Integrity!FileIsSound(q) /\ Integrity!Loadable(q)
<1> DEFINE N == Cardinality(Integrity!Decided(q))
<1>1. \A code, condition : Integrity!If(code, condition) = {} => ~condition
  BY DEF Integrity!If
<1>2. q.supported /\ q.exists
  BY DEF Integrity!Findings
<1>3. /\ Integrity!If("QUEUE_ORGANIZATION_MISSING", ~q.owned) = {} /\ Integrity!IndexFindings(q) = {}
      /\ Integrity!SequenceFindings(q) = {} /\ Integrity!OrphanFindings(q) = {}
      /\ Integrity!HistoryFindings(q) = {}
      /\ Integrity!BundleFindings(q) = {} /\ Integrity!If("DATABASE_STRUCTURE", ~q.sound) = {}
  BY <1>2 DEF Integrity!Findings
<1>4. q.owned /\ q.sound
  BY <1>1, <1>3
<1>5. q.index = "global" /\ q.helpers
  BY <1>1, <1>3, QueuesAreTyped DEF Integrity!IndexFindings
<1>6. /\ ~(Cardinality(Integrity!Ordinals(q)) < Cardinality(Integrity!Numbered(q)))
      /\ Integrity!Ordinals(q) = 1..Cardinality(Integrity!Ordinals(q))
  BY <1>1, <1>3, CountsAgree DEF Integrity!SequenceFindings
<1>7. /\ \A i \in DOMAIN q.events : q.events[i].case \in Integrity!CasesOf(q)
      /\ q.advice \subseteq Integrity!CasesOf(q)
  <2>1. ({q.events[i].case : i \in DOMAIN q.events} \cup q.advice) \ Integrity!CasesOf(q) = {}
    BY <1>1, <1>3 DEF Integrity!OrphanFindings
  <2> QED
    BY <2>1
<1>8. /\ \A c \in DOMAIN q.cases : ~(Cardinality(Integrity!Of(q, Integrity!Numbered(q), c)) > 1)
      /\ \A c \in Integrity!CasesOf(q) \ Integrity!Decided(q) : Integrity!Of(q, Integrity!Numbered(q), c) = {}
      /\ \A c \in Integrity!Decided(q) : Integrity!Of(q, Integrity!Numbered(q), c) # {}
  BY <1>1, <1>3, CountsAgree DEF Integrity!HistoryFindings
<1>9. Integrity!Loadable(q) /\ q.context # "empty"
  BY <1>1, <1>3 DEF Integrity!BundleFindings
<1>10. Integrity!FileIsSound(q)
  BY <1>2, <1>4, <1>5, <1>7, <1>9, QueuesAreTyped DEF Integrity!FileIsSound, Integrity!Loadable
<1>11. /\ \A i \in DOMAIN q.events : Integrity!EventIsValid(q.events[i])
       /\ \A c \in Integrity!CasesOf(q) : Integrity!CaseIsValid(q.cases[c])
       /\ Integrity!Reconstructs(q) /\ Integrity!Resolutions(q) = Integrity!Numbered(q)
  BY <1>9, ResolutionsAreNumbered DEF Integrity!Loadable
<1>12. \A i \in Integrity!Numbered(q) : q.events[i].case \in Integrity!Decided(q)
  BY <1>7, <1>8, QueuesAreTyped DEF Integrity!Of
<1>13. \A i, k \in Integrity!Numbered(q) : q.events[i].case = q.events[k].case => i = k
  <2> SUFFICES ASSUME NEW i \in Integrity!Numbered(q), NEW k \in Integrity!Numbered(q),
                      q.events[i].case = q.events[k].case
               PROVE  i = k
    OBVIOUS
  <2> DEFINE c == q.events[i].case
  <2>1. c \in DOMAIN q.cases
    BY <1>12, QueuesAreTyped
  <2>2. /\ IsFiniteSet(Integrity!Of(q, Integrity!Numbered(q), c))
        /\ Integrity!Of(q, Integrity!Numbered(q), c) \subseteq Integrity!Numbered(q)
    BY QueuesAreTyped, FS_Subset DEF Integrity!Of
  <2>3. Cardinality(Integrity!Of(q, Integrity!Numbered(q), c)) <= 1
    BY <1>8, <2>1, <2>2, FS_CardinalityType
  <2>4. /\ i \in Integrity!Of(q, Integrity!Numbered(q), c)
        /\ k \in Integrity!Of(q, Integrity!Numbered(q), c)
    BY DEF Integrity!Of
  <2> QED
    BY <2>2, <2>3, <2>4, AtMostOne
<1>14. N = Cardinality(Integrity!Numbered(q))
  <2> DEFINE f == [i \in Integrity!Numbered(q) |-> q.events[i].case]
  <2>1. f \in [Integrity!Numbered(q) -> Integrity!Decided(q)]
    BY <1>12
  <2>2. \A a, b \in Integrity!Numbered(q) : f[a] = f[b] => a = b
    BY <1>13
  <2>3. \A c \in Integrity!Decided(q) : \E i \in Integrity!Numbered(q) : f[i] = c
    BY <1>8 DEF Integrity!Of
  <2> HIDE DEF f
  <2> QED
    BY <2>1, <2>2, <2>3, OneToOne, QueuesAreTyped
<1>15. Cardinality(Integrity!Ordinals(q)) = N
  <2> DEFINE f == [i \in Integrity!Numbered(q) |-> q.events[i].ordinal]
  <2>1. f \in Surjection(Integrity!Numbered(q), Integrity!Ordinals(q))
    BY DEF Surjection, Integrity!Ordinals
  <2> HIDE DEF f
  <2>2. /\ Cardinality(Integrity!Ordinals(q)) <= Cardinality(Integrity!Numbered(q))
        /\ IsFiniteSet(Integrity!Ordinals(q))
    BY <2>1, FS_Surjection, QueuesAreTyped
  <2>3. Cardinality(Integrity!Ordinals(q)) \in Nat /\ Cardinality(Integrity!Numbered(q)) \in Nat
    BY <2>2, QueuesAreTyped, FS_CardinalityType
  <2> QED
    BY <1>6, <1>14, <2>2, <2>3
<1>16. \A n \in 1..N : \E i \in Integrity!Numbered(q) : q.events[i].ordinal = n
  BY <1>6, <1>15 DEF Integrity!Ordinals
<1> DEFINE at == [n \in 1..N |-> CHOOSE i \in Integrity!Numbered(q) : q.events[i].ordinal = n]
           order == [n \in 1..N |-> q.events[at[n]].case]
<1>17. \A n \in 1..N : at[n] \in Integrity!Numbered(q) /\ q.events[at[n]].ordinal = n
  BY <1>16
<1>18. \A n \in 1..N : order[n] = q.events[at[n]].case
  OBVIOUS
<1>19. order \in [1..N -> Integrity!Decided(q)]
  BY <1>12, <1>17
<1>20. DOMAIN order = 1..N
  OBVIOUS
<1> HIDE DEF at, order
<1>21. ASSUME NEW n \in 1..N
       PROVE  LET c == order[n]  row == q.cases[c]
              IN /\ row.resolution = [decision |-> row.status, ordinal |-> n]
                 /\ \E i \in Integrity!Resolutions(q) : /\ q.events[i].case = c /\ q.events[i].type = row.status
                                              /\ q.events[i].ordinal = n
  <2> DEFINE row == q.cases[order[n]]
  <2>1. /\ at[n] \in Integrity!Resolutions(q) /\ q.events[at[n]].case = order[n]
        /\ order[n] \in Integrity!CasesOf(q)
    BY <1>11, <1>17, <1>18, <1>19, QueuesAreTyped
  <2>2. Integrity!Agrees(q.events[at[n]], row)
    BY <1>11, <2>1, CountsAgree DEF Integrity!Reconstructs
  <2>3. /\ row.status = q.events[at[n]].type /\ row.resolution # NoResolution
        /\ row.resolution.ordinal = n /\ row.resolution.decision = row.status
    BY <1>17, <2>2 DEF Integrity!Agrees
  <2>4. row.resolution = [decision |-> row.resolution.decision, ordinal |-> row.resolution.ordinal]
    BY <2>1, <2>3, VerifyAssumption, CountsAgree DEF Integrity!QueueAssumption
  <2> QED
    BY <1>17, <2>1, <2>3, <2>4
<1>22. Cardinality(Integrity!Resolutions(q)) = N
  BY <1>11, <1>14
<1>23. Integrity!WrittenByDecisions(q)
  <2>1. \E o \in [1..N -> Integrity!Decided(q)] :
          /\ Cardinality(Integrity!Resolutions(q)) = N
          /\ \A n \in DOMAIN o :
               LET c == o[n]  row == q.cases[c]
               IN /\ row.resolution = [decision |-> row.status, ordinal |-> n]
                  /\ \E i \in Integrity!Resolutions(q) :
                       /\ q.events[i].case = c /\ q.events[i].type = row.status
                                               /\ q.events[i].ordinal = n
    <3>1. \A n \in DOMAIN order :
            LET c == order[n]  row == q.cases[c]
            IN /\ row.resolution = [decision |-> row.status, ordinal |-> n]
               /\ \E i \in Integrity!Resolutions(q) : /\ q.events[i].case = c /\ q.events[i].type = row.status
                                            /\ q.events[i].ordinal = n
      BY <1>20, <1>21
    <3> WITNESS order \in [1..N -> Integrity!Decided(q)]
    <3> QED
      BY <1>22, <3>1
  <2> QED
    BY <1>7, <1>11, <2>1, CountsAgree DEF Integrity!WrittenByDecisions
<1> QED
  BY <1>9, <1>10, <1>23

\* A queue that decisions have written: the n-th decision left the n-th ordinal.
LEMMA WrittenIsClean ==
  ASSUME NEW q \in Queues, Integrity!WrittenByDecisions(q), Integrity!FileIsSound(q)
  PROVE  Integrity!Findings(q) = {}
<1> DEFINE N == Cardinality(Integrity!Decided(q))
<1>1. PICK order \in [1..N -> Integrity!Decided(q)] :
        /\ Cardinality(Integrity!Resolutions(q)) = N
        /\ \A n \in DOMAIN order :
               LET c == order[n]  row == q.cases[c]
               IN /\ row.resolution = [decision |-> row.status, ordinal |-> n]
                  /\ \E i \in Integrity!Resolutions(q) :
                       /\ q.events[i].case = c /\ q.events[i].type = row.status
                                               /\ q.events[i].ordinal = n
  BY CountsAgree DEF Integrity!WrittenByDecisions
<1>2. /\ \A i \in DOMAIN q.events :
           Integrity!EventIsValid(q.events[i]) /\ q.events[i].case \in Integrity!CasesOf(q)
      /\ \A c \in Integrity!CasesOf(q) : Integrity!CaseIsValid(q.cases[c])
  BY CountsAgree DEF Integrity!WrittenByDecisions
<1>3. Integrity!Resolutions(q) = Integrity!Numbered(q)
  BY <1>2, ResolutionsAreNumbered
<1>4. N \in Nat /\ IsFiniteSet(Integrity!Decided(q)) /\ IsFiniteSet(Integrity!Resolutions(q))
  BY QueuesAreTyped
<1>5. \A n \in 1..N :
        /\ q.cases[order[n]].resolution = [decision |-> q.cases[order[n]].status, ordinal |-> n]
        /\ \E i \in Integrity!Resolutions(q) : /\ q.events[i].case = order[n]
                                     /\ q.events[i].type = q.cases[order[n]].status
                                     /\ q.events[i].ordinal = n
  BY <1>1
<1>6. \A n \in 1..N : q.cases[order[n]].resolution.ordinal = n
                      /\ q.cases[order[n]].resolution.decision = q.cases[order[n]].status
                      /\ q.cases[order[n]].resolution # NoResolution
  <2> SUFFICES ASSUME NEW n \in 1..N
               PROVE  /\ q.cases[order[n]].resolution.ordinal = n
                      /\ q.cases[order[n]].resolution.decision = q.cases[order[n]].status
                      /\ q.cases[order[n]].resolution # NoResolution
    OBVIOUS
  <2>1. order[n] \in Integrity!CasesOf(q) /\ n \in 1..Cardinality(DOMAIN q.cases)
    BY <1>1, <1>4, QueuesAreTyped
  <2>2. q.cases[order[n]].resolution = [decision |-> q.cases[order[n]].status, ordinal |-> n]
    BY <1>5
  <2>3. [decision |-> q.cases[order[n]].status, ordinal |-> n] # NoResolution
    BY <2>1, ResolutionsExist
  <2> DEFINE row == q.cases[order[n]]
  <2>4. row.resolution = [decision |-> row.status, ordinal |-> n]
    BY <2>2
  <2> HIDE DEF row
  <2>5. row.resolution.ordinal = n /\ row.resolution.decision = row.status
    BY <2>4
  <2> QED
    BY <2>2, <2>3, <2>5 DEF row
<1>7. \A a, b \in 1..N : order[a] = order[b] => a = b
  BY <1>6
<1>8. \A c \in Integrity!Decided(q) : \E n \in 1..N : order[n] = c
  BY <1>4, <1>7, CountedBy
<1> DEFINE at == [n \in 1..N |-> CHOOSE i \in Integrity!Resolutions(q) : /\ q.events[i].case = order[n]
                                     /\ q.events[i].type = q.cases[order[n]].status
                                     /\ q.events[i].ordinal = n]
<1>9. \A n \in 1..N : /\ at[n] \in Integrity!Resolutions(q) /\ q.events[at[n]].case = order[n]
                      /\ q.events[at[n]].type = q.cases[order[n]].status
                      /\ q.events[at[n]].ordinal = n
  BY <1>5
<1>10. at \in [1..N -> Integrity!Resolutions(q)]
  BY <1>9
<1> HIDE DEF at
<1>11. \A a, b \in 1..N : at[a] = at[b] => a = b
  BY <1>9
<1>12. \A i \in Integrity!Resolutions(q) : \E n \in 1..N : at[n] = i
  BY <1>1, <1>4, <1>10, <1>11, CountedBy
<1>13. \A i \in Integrity!Resolutions(q) :
         \E n \in 1..N : /\ at[n] = i /\ q.events[i].case = order[n] /\ q.events[i].ordinal = n
                         /\ q.events[i].type = q.cases[order[n]].status
  BY <1>9, <1>12
<1>14. \A n \in 1..N : Integrity!Of(q, Integrity!Resolutions(q), order[n]) = {at[n]}
  <2> SUFFICES ASSUME NEW n \in 1..N
               PROVE  Integrity!Of(q, Integrity!Resolutions(q), order[n]) = {at[n]}
    OBVIOUS
  <2>1. ASSUME NEW i \in Integrity!Resolutions(q), q.events[i].case = order[n]
        PROVE  i = at[n]
    BY <1>7, <1>13, <2>1
  <2> QED
    BY <1>9, <2>1 DEF Integrity!Of
<1>15. \A c \in DOMAIN q.cases : c \notin Integrity!Decided(q) =>
         Integrity!Of(q, Integrity!Numbered(q), c) = {}
  BY <1>1, <1>3, <1>13 DEF Integrity!Of
<1>16. Integrity!Ordinals(q) = 1..N
  BY <1>3, <1>9, <1>13 DEF Integrity!Ordinals
<1>17. Cardinality(Integrity!Ordinals(q)) = N /\ Cardinality(Integrity!Numbered(q)) = N
  BY <1>1, <1>3, <1>4, <1>16, FS_Interval
<1>18. Integrity!Reconstructs(q)
  <2>1. ASSUME NEW i \in Integrity!Resolutions(q)
        PROVE  /\ q.events[i].case \in Integrity!CasesOf(q)
               /\ Integrity!Of(q, Integrity!Resolutions(q), q.events[i].case) = {i}
               /\ Integrity!Agrees(q.events[i], q.cases[q.events[i].case])
    <3>1. PICK n \in 1..N : /\ at[n] = i /\ q.events[i].case = order[n] /\ q.events[i].ordinal = n
                            /\ q.events[i].type = q.cases[order[n]].status
      BY <1>13
    <3>2. order[n] \in Integrity!CasesOf(q)
      BY <1>1, QueuesAreTyped
    <3> QED
      BY <1>6, <1>14, <3>1, <3>2 DEF Integrity!Agrees
  <2>2. \A c \in Integrity!Decided(q) : q.cases[c].resolution # NoResolution
    BY <1>6, <1>8
  <2>3. \A n \in 1..N : Integrity!EntryOrdinal(q, order[n]) = n
    BY <1>9, <1>14 DEF Integrity!EntryOrdinal
  <2>4. {Integrity!EntryOrdinal(q, c) : c \in Integrity!Decided(q)} = 1..N
    BY <1>1, <1>8, <2>3
  <2> QED
    BY <2>1, <2>2, <2>4, CountsAgree DEF Integrity!Reconstructs
<1>19. Integrity!Loadable(q)
  BY <1>2, <1>18 DEF Integrity!Loadable, Integrity!FileIsSound
<1>20. \A code, condition : ~condition => Integrity!If(code, condition) = {}
  BY DEF Integrity!If
<1>21. Integrity!IndexFindings(q) = {}
  BY <1>20 DEF Integrity!IndexFindings, Integrity!FileIsSound
<1>22. Integrity!SequenceFindings(q) = {}
  <2>1. ~(Cardinality(Integrity!Ordinals(q)) < Cardinality(Integrity!Numbered(q)))
    BY <1>4, <1>17
  <2>2. ~(Integrity!Ordinals(q) # 1..Cardinality(Integrity!Ordinals(q)))
    BY <1>16, <1>17
  <2> QED
    BY <1>20, <2>1, <2>2, CountsAgree DEF Integrity!SequenceFindings
<1>23. Integrity!OrphanFindings(q) = {}
  <2>1. ({q.events[i].case : i \in DOMAIN q.events} \cup q.advice) \ Integrity!CasesOf(q) = {}
    BY <1>2 DEF Integrity!FileIsSound
  <2> QED
    BY <1>20, <2>1 DEF Integrity!OrphanFindings
<1>24. Integrity!HistoryFindings(q) = {}
  <2>1. \A c \in DOMAIN q.cases : ~(Cardinality(Integrity!Of(q, Integrity!Numbered(q), c)) > 1)
    <3> SUFFICES ASSUME NEW c \in DOMAIN q.cases
                 PROVE  ~(Cardinality(Integrity!Of(q, Integrity!Numbered(q), c)) > 1)
      OBVIOUS
    <3>1. CASE c \in Integrity!Decided(q)
      <4>1. \E i : Integrity!Of(q, Integrity!Numbered(q), c) = {i}
        <5>1. PICK n \in 1..N : order[n] = c
          BY <1>8, <3>1
        <5> QED
          BY <1>3, <1>14, <5>1
      <4>2. Cardinality(Integrity!Of(q, Integrity!Numbered(q), c)) = 1
        BY <4>1, FS_Singleton
      <4> QED
        BY <4>2
    <3>2. CASE c \notin Integrity!Decided(q)
      <4>1. Cardinality(Integrity!Of(q, Integrity!Numbered(q), c)) = 0
        BY <1>15, <3>2, FS_EmptySet
      <4> QED
        BY <4>1
    <3> QED
      BY <3>1, <3>2
  <2>2. \A c \in Integrity!CasesOf(q) \ Integrity!Decided(q) : Integrity!Of(q, Integrity!Numbered(q), c) = {}
    BY <1>15, QueuesAreTyped
  <2>3. \A c \in Integrity!Decided(q) : Integrity!Of(q, Integrity!Numbered(q), c) # {}
    BY <1>3, <1>8, <1>14
  <2> QED
    BY <1>20, <2>1, <2>2, <2>3, CountsAgree DEF Integrity!HistoryFindings
<1>25. Integrity!BundleFindings(q) = {}
  BY <1>19, <1>20 DEF Integrity!BundleFindings, Integrity!FileIsSound
<1> QED
  BY <1>20, <1>21, <1>22, <1>23, <1>24, <1>25 DEF Integrity!Findings, Integrity!FileIsSound

VerifyInv == inspected \in Queues /\ verdict \in {NoReport, Integrity!Findings(inspected)}

LEMMA VerifyInvariant == Integrity!Spec => []VerifyInv
<1>1. Integrity!Init => VerifyInv
  BY DEF Integrity!Init, VerifyInv
<1>2. VerifyInv /\ [Integrity!Next]_(Integrity!vars) => VerifyInv'
  BY DEF VerifyInv, Integrity!Next, Integrity!Verify, Integrity!vars
<1> QED
  BY <1>1, <1>2, PTL DEF Integrity!Spec

LEMMA FindingsAreCodes == \A q : Integrity!Findings(q) \in SUBSET Integrity!Codes
<1> SUFFICES ASSUME NEW q
             PROVE  Integrity!Findings(q) \in SUBSET Integrity!Codes
  OBVIOUS
<1>1. \A code \in Integrity!Codes : \A condition : Integrity!If(code, condition) \subseteq Integrity!Codes
  BY DEF Integrity!If
<1>2. /\ Integrity!IndexFindings(q) \subseteq Integrity!Codes
      /\ Integrity!SequenceFindings(q) \subseteq Integrity!Codes
      /\ Integrity!OrphanFindings(q) \subseteq Integrity!Codes
      /\ Integrity!HistoryFindings(q) \subseteq Integrity!Codes
      /\ Integrity!BundleFindings(q) \subseteq Integrity!Codes
  BY <1>1, CountsAgree DEF Integrity!IndexFindings, Integrity!SequenceFindings,
     Integrity!OrphanFindings, Integrity!HistoryFindings, Integrity!BundleFindings, Integrity!Codes
<1>3. /\ Integrity!If("QUEUE_ORGANIZATION_MISSING", ~q.owned) \subseteq Integrity!Codes
      /\ Integrity!If("DATABASE_STRUCTURE", ~q.sound) \subseteq Integrity!Codes
      /\ {"SCHEMA_UNSUPPORTED"} \subseteq Integrity!Codes
      /\ {"QUEUE_NOT_FOUND"} \subseteq Integrity!Codes
  BY <1>1 DEF Integrity!Codes
<1> QED
  BY <1>2, <1>3 DEF Integrity!Findings

LEMMA VerdictsAreRight == VerifyInv => Integrity!TypeOK /\ Integrity!VerdictIsRight
<1> SUFFICES ASSUME VerifyInv
             PROVE  Integrity!TypeOK /\ Integrity!VerdictIsRight
  OBVIOUS
<1>1. Integrity!Findings(inspected) = {} <=>
        Integrity!WrittenByDecisions(inspected) /\ Integrity!FileIsSound(inspected)
  BY CleanIsWritten, WrittenIsClean DEF VerifyInv
<1>2. Integrity!Findings(inspected) = {} => Integrity!Loadable(inspected)
  BY CleanIsWritten DEF VerifyInv
<1>3. verdict = NoReport \/ verdict = Integrity!Findings(inspected)
  BY DEF VerifyInv
<1> QED
  BY <1>1, <1>2, <1>3, FindingsAreCodes DEF Integrity!TypeOK, Integrity!VerdictIsRight

-----------------------------------------------------------------------------
(* The formulas of the budget *)

LEMMA FormulasAssumed == Formulas!RateAssumption /\ MaxTokens \in Nat
  BY ReviewAssumption, TokenAssumption DEF Two!RateAssumption, Formulas!RateAssumption

LEMMA MonotoneProduct ==
  ASSUME NEW a \in Nat, NEW b \in Nat, NEW k \in Nat, a <= b
  PROVE  a * k <= b * k /\ a * k \in Nat
  BY SMT

\* The cost of a call lies between its tokens at the cached rate and its reservation.
LEMMA CostOf ==
  ASSUME NEW u \in [input : Formulas!Count, cached : Formulas!Count,
                    output : Formulas!Count, reasoning : Formulas!Count]
  PROVE  /\ Formulas!UsageAvailable(u) /\ Formulas!OrZero(u.input) <= MaxInputTokens
           /\ Formulas!BilledOutput(u) <= MaxOutputTokens
              => Formulas!EstimateCost(u) <= Formulas!Reserved
         /\ Formulas!UsageAvailable(u) =>
              Formulas!EstimateCost(u) >= Formulas!OrZero(u.input) * CachedRate
                                   + Formulas!BilledOutput(u) * OutputRate
         /\ Formulas!Reserved \in Nat
<1> DEFINE i == Formulas!OrZero(u.input)
           c == Formulas!CachedTokens(u)
           o == Formulas!BilledOutput(u)
           new == i - c
<1>1. i \in Nat /\ o \in Nat /\ Formulas!OrZero(u.cached) \in Nat
  BY FormulasAssumed DEF Formulas!OrZero, Formulas!BilledOutput, Formulas!Count, Formulas!Unknown
<1>2. c \in Nat /\ c <= i
  BY <1>1 DEF Formulas!CachedTokens
<1>3. Formulas!UsageAvailable(u) =>
        Formulas!EstimateCost(u) = new * InputRate + c * CachedRate + o * OutputRate
  BY DEF Formulas!EstimateCost
<1> HIDE DEF i, c, o
<1>4. new \in Nat /\ new + c = i
  BY <1>1, <1>2
<1> HIDE DEF new
<1>5. /\ InputRate \in Nat /\ CachedRate \in Nat /\ OutputRate \in Nat /\ CachedRate <= InputRate
      /\ MaxInputTokens \in Nat /\ MaxOutputTokens \in Nat
  BY FormulasAssumed DEF Formulas!RateAssumption
<1>6. CachedRate * c <= InputRate * c /\ CachedRate * new <= InputRate * new
  BY <1>2, <1>4, <1>5, MonotoneProduct
<1>7. i <= MaxInputTokens => i * InputRate <= MaxInputTokens * InputRate
  BY <1>1, <1>5, MonotoneProduct
<1>8. o <= MaxOutputTokens => o * OutputRate <= MaxOutputTokens * OutputRate
  BY <1>1, <1>5, MonotoneProduct
<1>9. /\ i * InputRate = new * InputRate + c * InputRate
      /\ i * CachedRate = new * CachedRate + c * CachedRate
  BY <1>2, <1>4, <1>5, SMT
<1>10. /\ new * InputRate \in Nat /\ c * InputRate \in Nat /\ new * CachedRate \in Nat
       /\ c * CachedRate \in Nat
       /\ o * OutputRate \in Nat /\ MaxInputTokens * InputRate \in Nat
       /\ MaxOutputTokens * OutputRate \in Nat
       /\ CachedRate * c = c * CachedRate /\ InputRate * c = c * InputRate
       /\ CachedRate * new = new * CachedRate /\ InputRate * new = new * InputRate
  BY <1>1, <1>2, <1>4, <1>5, SMT
<1>11. Formulas!Reserved = MaxInputTokens * InputRate + MaxOutputTokens * OutputRate
  BY DEF Formulas!Reserved
<1>12. i <= MaxInputTokens /\ o <= MaxOutputTokens =>
         new * InputRate + c * CachedRate + o * OutputRate <= Formulas!Reserved
  BY <1>6, <1>7, <1>8, <1>9, <1>10, <1>11, SMT
<1>13. new * InputRate + c * CachedRate + o * OutputRate >= i * CachedRate + o * OutputRate
  BY <1>6, <1>9, <1>10, SMT
<1>14. Formulas!Reserved \in Nat
  BY <1>10, <1>11
<1>15. i <= MaxInputTokens /\ o <= MaxOutputTokens /\ Formulas!UsageAvailable(u) =>
         Formulas!EstimateCost(u) <= Formulas!Reserved
  BY <1>3, <1>12
<1>16. Formulas!UsageAvailable(u) => Formulas!EstimateCost(u) >= i * CachedRate + o * OutputRate
  BY <1>3, <1>13
<1> QED
  BY <1>14, <1>15, <1>16 DEF i, o

FormulaInv ==
  /\ usage \in [input : Formulas!Count, cached : Formulas!Count,
                output : Formulas!Count, reasoning : Formulas!Count]
  /\ sampled \in [matches : 0..MaxCount, others : 0..MaxCount, max : 0..MaxCount]

LEMMA FormulasHold == FormulaInv => Formulas!CostIsBounded /\ Formulas!ReasoningIsNotBilledTwice
<1> SUFFICES ASSUME FormulaInv
             PROVE  Formulas!CostIsBounded /\ Formulas!ReasoningIsNotBilledTwice
  OBVIOUS
<1>1. ~Formulas!UsageAvailable(usage) => Formulas!EstimateCost(usage) <= Formulas!Reserved
  BY CostOf DEF FormulaInv, Formulas!EstimateCost, Formulas!Unknown
<1>2. Formulas!CostIsBounded
  BY <1>1, CostOf DEF FormulaInv, Formulas!CostIsBounded
<1>3. usage = [input |-> usage.input, cached |-> usage.cached, output |-> usage.output,
               reasoning |-> usage.reasoning]
  BY DEF FormulaInv
<1>4. ASSUME NEW u,
             u = [input |-> u.input, cached |-> u.cached, output |-> u.output, reasoning |-> u.reasoning],
             u.output # Formulas!Unknown
      PROVE  Formulas!EstimateCost(u) = Formulas!EstimateCost([u EXCEPT !.reasoning = Formulas!Unknown])
  <2> DEFINE v == [u EXCEPT !.reasoning = Formulas!Unknown]
  <2>1. v.input = u.input /\ v.cached = u.cached /\ v.output = u.output
    BY <1>4
  <2> HIDE DEF v
  <2>2. /\ Formulas!CachedTokens(v) = Formulas!CachedTokens(u)
        /\ Formulas!BilledOutput(v) = Formulas!BilledOutput(u)
        /\ Formulas!UsageAvailable(u) /\ Formulas!UsageAvailable(v)
    BY <1>4, <2>1 DEF Formulas!CachedTokens, Formulas!BilledOutput, Formulas!UsageAvailable
  <2> QED
    BY <2>1, <2>2 DEF Formulas!EstimateCost, v
<1> QED
  BY <1>2, <1>3, <1>4 DEF Formulas!ReasoningIsNotBilledTwice

LEMMA FormulaInvariant == Formulas!Spec => []FormulaInv
<1>1. Formulas!Init => FormulaInv
  BY DEF Formulas!Init, FormulaInv
<1>2. FormulaInv /\ [Formulas!Next]_<<sampled, usage>> => FormulaInv'
  BY DEF Formulas!Next, FormulaInv
<1> QED
  BY <1>1, <1>2, PTL DEF Formulas!Spec

-----------------------------------------------------------------------------
(* The sample of a live benchmark *)

\* A set of numbers that holds 0, and with every number the next, holds them all.
LEMMA NatInduct ==
  ASSUME NEW G, 0 \in G, \A n \in Nat : n \in G => n + 1 \in G
  PROVE  Nat \subseteq G
<1> SUFFICES ASSUME ~ (Nat \subseteq G) PROVE FALSE
  OBVIOUS
<1> DEFINE T == Nat \ G
           Rel == OpToRel(<, Nat)
<1>1. T # {} /\ T \subseteq Nat
  OBVIOUS
<1>2. \E x \in T : \A y \in T : ~ (<<y, x>> \in Rel)
  <2> HIDE DEF T, Rel
  <2>1. IsWellFoundedOn(OpToRel(<, Nat), Nat)
    BY NatLessThanWellFounded
  <2> QED  BY <2>1, <1>1, WFMin DEF Rel
<1>3. PICK x \in T : \A y \in T : ~ (<<y, x>> \in Rel)
  BY <1>2
<1>4. x # 0 /\ x \in Nat /\ x - 1 \in Nat
  OBVIOUS
<1>5. x - 1 \in G
  <2> SUFFICES ASSUME x - 1 \notin G PROVE FALSE
    OBVIOUS
  <2>1. x - 1 \in T
    BY <1>4
  <2>2. <<x - 1, x>> \in Rel
    BY <1>4 DEF OpToRel
  <2> QED  BY <1>3, <2>1, <2>2
<1>6. (x - 1) + 1 = x
  BY <1>4
<1> QED
  BY <1>4, <1>5, <1>6

\* The counts of the formulas are those of the library: the same definition.
LEMMA FormulaCounts == \A S : Formulas!Cardinality(S) = Cardinality(S)
  BY DEF Formulas!Cardinality, Cardinality, Formulas!IsFiniteSet, IsFiniteSet

\* Of the first k cases of a sample of M matches and N others: those that are matches,
\* and whether the k-th is one.
Fewer(M, N) == IF M < N THEN M ELSE N
MatchesIn(M, N, k) ==
  IF k <= 2 * Fewer(M, N) THEN (k + 1) \div 2 ELSE IF M > Fewer(M, N) THEN k - Fewer(M, N) ELSE Fewer(M, N)
IsMatchTurn(M, N, k) == IF k > 2 * Fewer(M, N) THEN M > Fewer(M, N) ELSE k % 2 = 1

\* The matches and the others of a sample count up by one, each at its turn, and none is
\* ahead by more than a case unless the other is used up.
LEMMA TurnsAreFair ==
  ASSUME NEW M \in Nat, NEW N \in Nat, NEW k \in Nat, k <= M + N
  PROVE  /\ MatchesIn(M, N, k) \in Nat /\ k - MatchesIn(M, N, k) \in Nat
         /\ MatchesIn(M, N, 0) = 0
         /\ MatchesIn(M, N, k + 1) = MatchesIn(M, N, k) + (IF IsMatchTurn(M, N, k + 1) THEN 1 ELSE 0)
         /\ MatchesIn(M, N, k) > k - MatchesIn(M, N, k) + 1 => k - MatchesIn(M, N, k) = N
         /\ MatchesIn(M, N, k) < k - MatchesIn(M, N, k) => MatchesIn(M, N, k) = M
<1> DEFINE s == Fewer(M, N)
<1>1. s \in Nat /\ s <= M /\ s <= N /\ (s = M \/ s = N)
  BY DEF Fewer
<1> HIDE DEF s
<1>2. CASE k + 1 <= 2 * s /\ k % 2 = 0
  BY <1>1, <1>2 DEF MatchesIn, IsMatchTurn, s
<1>3. CASE k + 1 <= 2 * s /\ k % 2 = 1
  BY <1>1, <1>3 DEF MatchesIn, IsMatchTurn, s
<1>4. CASE k = 2 * s
  <2>1. (k + 1) \div 2 = s /\ 1 \div 2 = 0 /\ k + 1 > 2 * s /\ k - s = s /\ (k + 1) - s = s + 1
    BY <1>1, <1>4
  <2>2. MatchesIn(M, N, k) = s
    BY <1>1, <1>4, <2>1 DEF MatchesIn, s
  <2>3. MatchesIn(M, N, 0) = 0
    BY <1>1, <2>1 DEF MatchesIn, s
  <2>4. CASE M > s
    <3>1. MatchesIn(M, N, k + 1) = s + 1 /\ IsMatchTurn(M, N, k + 1)
      BY <1>1, <2>1, <2>4 DEF MatchesIn, IsMatchTurn, s
    <3> QED  BY <1>1, <1>4, <2>1, <2>2, <2>3, <3>1
  <2>5. CASE ~ (M > s)
    <3>1. MatchesIn(M, N, k + 1) = s /\ ~ IsMatchTurn(M, N, k + 1)
      BY <1>1, <2>1, <2>5 DEF MatchesIn, IsMatchTurn, s
    <3> QED  BY <1>1, <1>4, <2>1, <2>2, <2>3, <3>1
  <2> QED  BY <2>4, <2>5
<1>5. CASE k > 2 * s
  BY <1>1, <1>5 DEF MatchesIn, IsMatchTurn, s
<1>6. k % 2 = 0 \/ k % 2 = 1
  OBVIOUS
<1> QED
  BY <1>1, <1>2, <1>3, <1>4, <1>5, <1>6

\* The sample takes one of each class in turn, in the order of the class.
LEMMA AlternatingIs ==
  ASSUME NEW M \in Nat, NEW N \in Nat,
         NEW alt, alt = Formulas!Alternating(Formulas!ClassOf("match", M), Formulas!ClassOf("other", N))
  PROVE  /\ Len(alt) = M + N
         /\ \A k \in 1..(M + N) :
              alt[k] = IF IsMatchTurn(M, N, k) THEN <<"match", MatchesIn(M, N, k)>>
                       ELSE <<"other", k - MatchesIn(M, N, k)>>
<1> DEFINE a == Formulas!ClassOf("match", M)
           b == Formulas!ClassOf("other", N)
           s == Fewer(M, N)
           g(k) == IF k > 2 * s THEN IF M > s THEN a[k - s] ELSE b[k - s]
                   ELSE IF k % 2 = 1 THEN a[(k + 1) \div 2] ELSE b[k \div 2]
<1>1. /\ Len(a) = M /\ Len(b) = N
      /\ \A i \in 1..M : a[i] = <<"match", i>>
      /\ \A i \in 1..N : b[i] = <<"other", i>>
  BY DEF Formulas!ClassOf
<1>2. s \in Nat /\ s <= M /\ s <= N /\ (s = M \/ s = N)
  BY DEF Fewer
<1> HIDE DEF a, b
<1>3. alt = [k \in 1..(M + N) |-> g(k)]
  BY <1>1 DEF Formulas!Alternating, Fewer, a, b
<1> HIDE DEF s
<1>4. ASSUME NEW k \in 1..(M + N)
      PROVE  g(k) = IF IsMatchTurn(M, N, k) THEN <<"match", MatchesIn(M, N, k)>>
                    ELSE <<"other", k - MatchesIn(M, N, k)>>
  <2>1. CASE k > 2 * s /\ M > s
    <3>1. k - s \in 1..M
      BY <1>2, <2>1
    <3>2. IsMatchTurn(M, N, k) /\ MatchesIn(M, N, k) = k - s
      BY <1>2, <2>1 DEF IsMatchTurn, MatchesIn, s
    <3> QED  BY <1>1, <2>1, <3>1, <3>2
  <2>2. CASE k > 2 * s /\ ~ (M > s)
    <3>1. k - s \in 1..N
      BY <1>2, <2>2
    <3>2. ~ IsMatchTurn(M, N, k) /\ MatchesIn(M, N, k) = s
      BY <1>2, <2>2 DEF IsMatchTurn, MatchesIn, s
    <3> QED  BY <1>1, <2>2, <3>1, <3>2
  <2>3. CASE ~ (k > 2 * s) /\ k % 2 = 1
    <3>1. (k + 1) \div 2 \in 1..M
      BY <1>2, <2>3
    <3>2. IsMatchTurn(M, N, k) /\ MatchesIn(M, N, k) = (k + 1) \div 2
      BY <1>2, <2>3 DEF IsMatchTurn, MatchesIn, s
    <3> QED  BY <1>1, <2>3, <3>1, <3>2
  <2>4. CASE ~ (k > 2 * s) /\ k % 2 # 1
    <3>1. k \div 2 \in 1..N
      BY <1>2, <2>4
    <3>2. ~ IsMatchTurn(M, N, k) /\ k - MatchesIn(M, N, k) = k \div 2
      BY <1>2, <2>4 DEF IsMatchTurn, MatchesIn, s
    <3> QED  BY <1>1, <2>4, <3>1, <3>2
  <2> QED  BY <2>1, <2>2, <2>3, <2>4
<1> HIDE DEF g
<1> QED
  BY <1>3, <1>4

\* The places among the first k of q that hold a case of class v.
Places(q, v, k) == {i \in 1..k : q[i][1] = v}

\* Of the cases of q, the first L are a sample of M matches and N others.
TakesTurns(q, M, N, L) ==
  \A k \in 1..L : q[k] = IF IsMatchTurn(M, N, k) THEN <<"match", MatchesIn(M, N, k)>>
                         ELSE <<"other", k - MatchesIn(M, N, k)>>

\* One more is counted when the next is one that counts.
LEMMA OneMoreCounts ==
  ASSUME NEW q, NEW v, NEW k \in Nat, IsFiniteSet(Places(q, v, k))
  PROVE  /\ IsFiniteSet(Places(q, v, k + 1))
         /\ q[k + 1][1] = v => Cardinality(Places(q, v, k + 1)) = Cardinality(Places(q, v, k)) + 1
         /\ q[k + 1][1] # v => Cardinality(Places(q, v, k + 1)) = Cardinality(Places(q, v, k))
<1>1. /\ q[k + 1][1] = v => Places(q, v, k + 1) = Places(q, v, k) \cup {k + 1}
      /\ q[k + 1][1] # v => Places(q, v, k + 1) = Places(q, v, k)
      /\ k + 1 \notin Places(q, v, k)
  BY DEF Places
<1>2. /\ IsFiniteSet(Places(q, v, k) \cup {k + 1})
      /\ Cardinality(Places(q, v, k) \cup {k + 1}) = Cardinality(Places(q, v, k)) + 1
  BY <1>1, FS_AddElement
<1> QED
  BY <1>1, <1>2

\* The cases of each class among the first k of a sample.
LEMMA TakenIs ==
  ASSUME NEW M \in Nat, NEW N \in Nat, NEW L \in Nat, L <= M + N,
         NEW q, TakesTurns(q, M, N, L)
  PROVE  \A k \in 0..L : /\ Cardinality(Places(q, "match", k)) = MatchesIn(M, N, k)
                         /\ Cardinality(Places(q, "other", k)) = k - MatchesIn(M, N, k)
<1> DEFINE Right(k) ==
             /\ IsFiniteSet(Places(q, "match", k)) /\ Cardinality(Places(q, "match", k)) = MatchesIn(M, N, k)
             /\ IsFiniteSet(Places(q, "other", k)) /\ Cardinality(Places(q, "other", k)) = k - MatchesIn(M, N, k)
           G == {k \in Nat : k <= L => Right(k)}
<1>1. 0 \in G
  <2>1. Places(q, "match", 0) = {} /\ Places(q, "other", 0) = {}
    BY DEF Places
  <2>2. MatchesIn(M, N, 0) = 0
    BY TurnsAreFair
  <2> QED  BY <2>1, <2>2, FS_EmptySet
<1>2. ASSUME NEW k \in Nat, k \in G PROVE k + 1 \in G
  <2> SUFFICES ASSUME k + 1 <= L PROVE Right(k + 1)
    OBVIOUS
  <2>1. Right(k) /\ k + 1 \in 1..L /\ k <= M + N
    BY <1>2
  <2>2. /\ MatchesIn(M, N, k) \in Nat /\ k - MatchesIn(M, N, k) \in Nat
        /\ MatchesIn(M, N, k + 1) = MatchesIn(M, N, k) + (IF IsMatchTurn(M, N, k + 1) THEN 1 ELSE 0)
    BY <2>1, TurnsAreFair
  <2>3. /\ IsFiniteSet(Places(q, "match", k + 1)) /\ IsFiniteSet(Places(q, "other", k + 1))
        /\ q[k + 1][1] = "match" =>
             Cardinality(Places(q, "match", k + 1)) = Cardinality(Places(q, "match", k)) + 1
        /\ q[k + 1][1] # "match" =>
             Cardinality(Places(q, "match", k + 1)) = Cardinality(Places(q, "match", k))
        /\ q[k + 1][1] = "other" =>
             Cardinality(Places(q, "other", k + 1)) = Cardinality(Places(q, "other", k)) + 1
        /\ q[k + 1][1] # "other" =>
             Cardinality(Places(q, "other", k + 1)) = Cardinality(Places(q, "other", k))
    BY <2>1, OneMoreCounts
  <2>4. CASE IsMatchTurn(M, N, k + 1)
    <3>1. q[k + 1][1] = "match"
      <4>1. q[k + 1] = <<"match", MatchesIn(M, N, k + 1)>>
        BY <2>1, <2>4 DEF TakesTurns
      <4> QED  BY <4>1
    <3>2. Cardinality(Places(q, "match", k + 1)) = MatchesIn(M, N, k + 1)
      BY <2>1, <2>2, <2>3, <2>4, <3>1
    <3>3. Cardinality(Places(q, "other", k + 1)) = (k + 1) - MatchesIn(M, N, k + 1)
      <4>1. Cardinality(Places(q, "other", k + 1)) = k - MatchesIn(M, N, k)
        BY <2>1, <2>3, <3>1
      <4> QED  BY <2>2, <2>4, <4>1
    <3> QED  BY <2>3, <3>2, <3>3
  <2>5. CASE ~ IsMatchTurn(M, N, k + 1)
    <3>1. q[k + 1][1] = "other"
      <4>1. q[k + 1] = <<"other", (k + 1) - MatchesIn(M, N, k + 1)>>
        BY <2>1, <2>5 DEF TakesTurns
      <4> QED  BY <4>1
    <3>2. Cardinality(Places(q, "match", k + 1)) = MatchesIn(M, N, k + 1)
      <4>1. Cardinality(Places(q, "match", k + 1)) = MatchesIn(M, N, k)
        BY <2>1, <2>3, <3>1
      <4> QED  BY <2>2, <2>5, <4>1
    <3>3. Cardinality(Places(q, "other", k + 1)) = (k + 1) - MatchesIn(M, N, k + 1)
      <4>1. Cardinality(Places(q, "other", k + 1)) = (k - MatchesIn(M, N, k)) + 1
        BY <2>1, <2>3, <3>1
      <4> QED  BY <2>2, <2>5, <4>1
    <3> QED  BY <2>3, <3>2, <3>3
  <2> QED  BY <2>4, <2>5
<1> HIDE DEF G
<1>3. Nat \subseteq G
  BY <1>1, <1>2, NatInduct
<1>4. ASSUME NEW k \in 0..L PROVE Right(k)
  BY <1>3 DEF G
<1> QED
  BY <1>4

\* The sample of a live benchmark takes the classes in turn.
LEMMA SampleTakesTurns ==
  ASSUME sampled \in [matches : 0..MaxCount, others : 0..MaxCount, max : 0..MaxCount]
  PROVE  Formulas!SampleIsBalanced
<1> DEFINE M == sampled.matches
           N == sampled.others
           a == Formulas!ClassOf("match", M)
           b == Formulas!ClassOf("other", N)
           alt == Formulas!Alternating(a, b)
           q == Formulas!Sample
<1>1. M \in Nat /\ N \in Nat /\ sampled.max \in Nat
  BY TokenAssumption
<1>2. (a = <<>>) = (M = 0) /\ (b = <<>>) = (N = 0)
  <2>1. Len(a) = M /\ Len(b) = N
    BY <1>1 DEF Formulas!ClassOf
  <2>2. M = 0 => a = <<>>
    BY DEF Formulas!ClassOf
  <2>3. N = 0 => b = <<>>
    BY DEF Formulas!ClassOf
  <2>4. Len(<<>>) = 0
    OBVIOUS
  <2> HIDE DEF a, b
  <2> QED  BY <2>1, <2>2, <2>3, <2>4
<1>3. CASE M = 0 \/ N = 0
  <2>1. q = <<>>
    BY <1>2, <1>3 DEF Formulas!Sample, Formulas!StratifiedSample
  <2>2. 1..Len(q) = {}
    BY <2>1
  <2>3. ~ (M > 0 /\ N > 0)
    BY <1>3
  <2> HIDE DEF q
  <2> QED  BY <2>2, <2>3 DEF Formulas!SampleIsBalanced, q
<1>4. CASE M # 0 /\ N # 0
  <2> DEFINE L == IF M + N <= sampled.max THEN M + N ELSE sampled.max
  <2>1. q = Formulas!FirstOf(alt, sampled.max)
    BY <1>2, <1>4 DEF Formulas!Sample, Formulas!StratifiedSample
  <2>2. /\ Len(alt) = M + N
        /\ \A k \in 1..(M + N) :
              alt[k] = IF IsMatchTurn(M, N, k) THEN <<"match", MatchesIn(M, N, k)>>
                       ELSE <<"other", k - MatchesIn(M, N, k)>>
    <3>1. alt = Formulas!Alternating(Formulas!ClassOf("match", M), Formulas!ClassOf("other", N))
      OBVIOUS
    <3> HIDE DEF alt, M, N
    <3> QED  BY <1>1, <3>1, AlternatingIs
  <2>3. alt = [k \in 1..(M + N) |-> alt[k]]
    <3>1. Len(a) = M /\ Len(b) = N
      BY <1>1 DEF Formulas!ClassOf
    <3> HIDE DEF a, b
    <3> QED  BY <1>1, <3>1 DEF Formulas!Alternating
  <2> HIDE DEF alt, q, M, N
  <2>4. L \in Nat /\ L <= M + N
    BY <1>1
  <2>5. Len(q) = L /\ \A k \in 1..L : q[k] = alt[k]
    <3>1. CASE M + N <= sampled.max
      BY <2>1, <2>2, <3>1 DEF Formulas!FirstOf
    <3>2. CASE ~ (M + N <= sampled.max)
      <4>1. q = [k \in 1..sampled.max |-> alt[k]]
        <5>1. q = SubSeq(alt, 1, sampled.max)
          BY <2>1, <2>2, <3>2 DEF Formulas!FirstOf
        <5> QED  BY <1>1, <2>2, <2>3, <3>2, <5>1
      <4> QED  BY <1>1, <3>2, <4>1
    <3> QED  BY <3>1, <3>2
  <2> HIDE DEF L
  <2>6. \A k \in 1..L : q[k] = IF IsMatchTurn(M, N, k) THEN <<"match", MatchesIn(M, N, k)>>
                               ELSE <<"other", k - MatchesIn(M, N, k)>>
    <3>1. \A k \in 1..L : k \in 1..(M + N)
      BY <1>1, <2>4
    <3> QED  BY <2>2, <2>5, <3>1
  <2>7. \A k \in 1..L : /\ Formulas!Taken(k, "match") = MatchesIn(M, N, k)
                        /\ Formulas!Taken(k, "other") = k - MatchesIn(M, N, k)
    <3>1. \A k \in 0..L : /\ Cardinality(Places(q, "match", k)) = MatchesIn(M, N, k)
                          /\ Cardinality(Places(q, "other", k)) = k - MatchesIn(M, N, k)
      <4>1. TakesTurns(q, M, N, L)
        BY <2>6 DEF TakesTurns
      <4> QED  BY <1>1, <2>4, <4>1, TakenIs
    <3>2. \A k \in 1..L : k \in 0..L
      BY <2>4
    <3>3. \A k, name : Formulas!Taken(k, name) = Cardinality(Places(q, name, k))
      BY FormulaCounts DEF Formulas!Taken, Places, q
    <3> QED  BY <3>1, <3>2, <3>3
  <2>8. M > 0 /\ N > 0 => Len(q) = Formulas!Smaller(sampled.max, M + N)
    BY <1>1, <2>5 DEF L, Formulas!Smaller
  <2>9. ASSUME NEW k \in 1..L
        PROVE  LET m == Formulas!Taken(k, "match")
                   o == Formulas!Taken(k, "other")
               IN /\ q[k] \in {<<"match", m>>, <<"other", o>>}
                  /\ m > o + 1 => o = N
                  /\ m < o => m = M
    <3>1. k \in Nat /\ k <= M + N
      BY <1>1, <2>4
    <3>2. q[k] \in {<<"match", MatchesIn(M, N, k)>>, <<"other", k - MatchesIn(M, N, k)>>}
      BY <2>6
    <3>3. /\ MatchesIn(M, N, k) > k - MatchesIn(M, N, k) + 1 => k - MatchesIn(M, N, k) = N
          /\ MatchesIn(M, N, k) < k - MatchesIn(M, N, k) => MatchesIn(M, N, k) = M
      BY <1>1, <3>1, TurnsAreFair
    <3>4. /\ Formulas!Taken(k, "match") = MatchesIn(M, N, k)
          /\ Formulas!Taken(k, "other") = k - MatchesIn(M, N, k)
      BY <2>7
    <3> QED  BY <3>2, <3>3, <3>4
  <2> QED  BY <2>5, <2>8, <2>9 DEF Formulas!SampleIsBalanced, q, M, N
<1> QED
  BY <1>3, <1>4

-----------------------------------------------------------------------------
(* Runs of the semantic review *)

\* The proofs of SemanticReview about the two instances that run.
TwoP == INSTANCE SemanticReviewProofs WITH Case <- {1, 2}, Facts <- AllFacts, MaxRuns <- 1,
                                           report <- tally
OneP == INSTANCE SemanticReviewProofs WITH Case <- {1}, Facts <- {Plain}, MaxRuns <- 2,
                                           report <- tally

\* Both instances of SemanticReview are one system: over two cases ...
LEMMA TwoAsProved == Two!Spec => TwoP!Spec
<1>1. \A S : Two!Cardinality(S) = TwoP!Cardinality(S)
  BY DEF Two!Cardinality, TwoP!Cardinality, Two!IsFiniteSet, TwoP!IsFiniteSet
<1>2. \A S : Two!SortedBy(S, <) = TwoP!SortedBy(S, <)
  BY DEF Two!SortedBy, TwoP!SortedBy, Two!Cardinality, TwoP!Cardinality, Two!IsFiniteSet, TwoP!IsFiniteSet
<1>3. \A c, e : Two!EvaluateRouting(c, e) = TwoP!EvaluateRouting(c, e)
  BY DEF Two!EvaluateRouting, TwoP!EvaluateRouting, Two!BuildRequest, TwoP!BuildRequest,
     Two!RequestObstacle, TwoP!RequestObstacle
<1>4. \A f, cs : Two!Eligible(f, cs) = TwoP!Eligible(f, cs)
  <2> TAKE f, cs
  <2>1. {c \in cs : Two!EvaluateRouting(f[c], TRUE) = "eligible"}
          = {c \in cs : TwoP!EvaluateRouting(f[c], TRUE) = "eligible"}
    <3>1. \A c : Two!EvaluateRouting(f[c], TRUE) = TwoP!EvaluateRouting(f[c], TRUE)
      BY <1>3, Zenon
    <3> QED  BY <3>1, Zenon
  <2> QED  BY <1>2, <2>1, Zenon DEF Two!Eligible, TwoP!Eligible
<1>5. \A s, n : Two!FirstOf(s, n) = TwoP!FirstOf(s, n)
  BY DEF Two!FirstOf, TwoP!FirstOf
<1>6. \A a, b : Two!Alternating(a, b) = TwoP!Alternating(a, b)
  BY DEF Two!Alternating, TwoP!Alternating
<1>7. \A a, b, n : Two!StratifiedSample(a, b, n) = TwoP!StratifiedSample(a, b, n)
  BY <1>5, <1>6 DEF Two!StratifiedSample, TwoP!StratifiedSample
<1>8. \A f, o, s, d : Two!SampleOf(f, o, s, d) = TwoP!SampleOf(f, o, s, d)
  BY <1>4, <1>5, <1>7 DEF Two!SampleOf, TwoP!SampleOf
<1>9. /\ Two!Kinds = TwoP!Kinds /\ Two!Advice = TwoP!Advice
      /\ Two!FreshReport = TwoP!FreshReport /\ Two!FreshWire = TwoP!FreshWire
      /\ Two!Current = TwoP!Current
  BY DEF Two!Kinds, TwoP!Kinds, Two!Advice, TwoP!Advice, Two!FreshReport, TwoP!FreshReport,
     Two!FreshWire, TwoP!FreshWire, Two!Current, TwoP!Current
<1>10. \A e, n : Two!FailureOf(e, n) = TwoP!FailureOf(e, n)
  BY DEF Two!FailureOf, TwoP!FailureOf, Two!FailureCode, TwoP!FailureCode, Two!Current,
     TwoP!Current, Two!Unknown, TwoP!Unknown
<1>11. \A u : Two!EstimateCost(u) = TwoP!EstimateCost(u) /\ Two!Real(u) = TwoP!Real(u)
  BY DEF Two!EstimateCost, TwoP!EstimateCost, Two!Real, TwoP!Real, Two!UsageAvailable,
     TwoP!UsageAvailable, Two!BilledOutput, TwoP!BilledOutput, Two!CachedTokens, TwoP!CachedTokens,
     Two!OrZero, TwoP!OrZero, Two!Unknown, TwoP!Unknown
<1>12. Two!CanCall <=> TwoP!CanCall
  BY DEF Two!CanCall, TwoP!CanCall, Two!Reserved, TwoP!Reserved
<1>13. \A x : Two!Charge(x) <=> TwoP!Charge(x)
  BY DEF Two!Charge, TwoP!Charge, Two!Reserved, TwoP!Reserved, Two!Unknown, TwoP!Unknown,
     Two!budget, TwoP!budget
<1>14. \A x : Two!Over(x) <=> TwoP!Over(x)
  BY DEF Two!Over, TwoP!Over
<1>15. \A x, e : Two!Billed(x, e) <=> TwoP!Billed(x, e)
  BY DEF Two!Billed, TwoP!Billed
<1>16. \A e : Two!AfterError(e) <=> TwoP!AfterError(e)
  BY <1>10, <1>13 DEF Two!AfterError, TwoP!AfterError, Two!RETRYABLE, TwoP!RETRYABLE, Two!Unknown,
     TwoP!Unknown, Two!input, TwoP!input
<1>17. /\ Two!Answers = TwoP!Answers /\ Two!Used = TwoP!Used
       /\ Two!NotReported = TwoP!NotReported
  BY DEF Two!Answers, TwoP!Answers, Two!Used, TwoP!Used, Two!NotReported, TwoP!NotReported,
     Two!Unknown, TwoP!Unknown, Two!Advice, TwoP!Advice
<1>18. \A a, c : Two!ParsePayload(a, c) = TwoP!ParsePayload(a, c)
  BY DEF Two!ParsePayload, TwoP!ParsePayload, Two!Advice, TwoP!Advice
<1>19. Two!Start => TwoP!Start
  BY <1>8, <1>9 DEF Two!Start, TwoP!Start
<1>20. Two!Finish => TwoP!Finish
  BY <1>14 DEF Two!Finish, TwoP!Finish, Two!input, TwoP!input, Two!budget, TwoP!budget
<1>21. Two!Route => TwoP!Route
  BY <1>3, <1>9, <1>14 DEF Two!Route, TwoP!Route, Two!input, TwoP!input, Two!budget, TwoP!budget
<1>22. Two!Refused => TwoP!Refused
  BY <1>10, <1>12, <1>14 DEF Two!Refused, TwoP!Refused, Two!input, TwoP!input, Two!budget,
     TwoP!budget
<1>23. Two!Send => TwoP!Send
  BY <1>9, <1>12 DEF Two!Send, TwoP!Send, Two!input, TwoP!input, Two!budget, TwoP!budget
<1>24. Two!CallFails => TwoP!CallFails
  BY <1>15, <1>16 DEF Two!CallFails, TwoP!CallFails, Two!Failures, TwoP!Failures, Two!ErrorOf,
     TwoP!ErrorOf, Two!Reserved, TwoP!Reserved
<1>25. Two!CallAnswers => TwoP!CallAnswers
  BY <1>9, <1>11, <1>13, <1>15, <1>16, <1>17, <1>18 DEF Two!CallAnswers, TwoP!CallAnswers,
     Two!input, TwoP!input
<1>26. Two!File => TwoP!File
  BY <1>9, <1>14 DEF Two!File, TwoP!File, Two!input, TwoP!input, Two!budget, TwoP!budget,
     Two!Others, TwoP!Others, Two!SuggestionId, TwoP!SuggestionId, Two!Counted, TwoP!Counted,
     Two!OrZero, TwoP!OrZero, Two!Unknown, TwoP!Unknown
<1>27. Two!FileFails => TwoP!FileFails
  BY <1>14 DEF Two!FileFails, TwoP!FileFails, Two!input, TwoP!input, Two!budget, TwoP!budget,
     Two!Others, TwoP!Others, Two!SuggestionId, TwoP!SuggestionId
<1>28. Two!Killed => TwoP!Killed
  BY <1>14 DEF Two!Killed, TwoP!Killed, Two!input, TwoP!input, Two!budget, TwoP!budget
<1>29. Two!Next => TwoP!Next
  BY <1>19, <1>20, <1>21, <1>22, <1>23, <1>24, <1>25, <1>26, <1>27, <1>28 DEF Two!Next, TwoP!Next,
     Two!Work, TwoP!Work
<1>30. Two!Init => TwoP!Init
  BY DEF Two!Init, TwoP!Init, Two!AnySuggestion, TwoP!AnySuggestion, Two!Min, TwoP!Min,
     Two!FreshReport, TwoP!FreshReport, Two!FreshWire, TwoP!FreshWire, Two!Kinds, TwoP!Kinds,
     Two!Advice, TwoP!Advice
<1>31. [Two!Next]_(Two!vars) => [TwoP!Next]_(TwoP!vars)
  BY <1>29 DEF Two!vars, TwoP!vars
<1> QED
  BY <1>30, <1>31, PTL DEF Two!Spec, TwoP!Spec

\* ... and in two runs in a row.
LEMMA OneAsProved == One!Spec => OneP!Spec
<1>1. \A S : One!Cardinality(S) = OneP!Cardinality(S)
  BY DEF One!Cardinality, OneP!Cardinality, One!IsFiniteSet, OneP!IsFiniteSet
<1>2. \A S : One!SortedBy(S, <) = OneP!SortedBy(S, <)
  BY DEF One!SortedBy, OneP!SortedBy, One!Cardinality, OneP!Cardinality, One!IsFiniteSet, OneP!IsFiniteSet
<1>3. \A c, e : One!EvaluateRouting(c, e) = OneP!EvaluateRouting(c, e)
  BY DEF One!EvaluateRouting, OneP!EvaluateRouting, One!BuildRequest, OneP!BuildRequest,
     One!RequestObstacle, OneP!RequestObstacle
<1>4. \A f, cs : One!Eligible(f, cs) = OneP!Eligible(f, cs)
  <2> TAKE f, cs
  <2>1. {c \in cs : One!EvaluateRouting(f[c], TRUE) = "eligible"}
          = {c \in cs : OneP!EvaluateRouting(f[c], TRUE) = "eligible"}
    <3>1. \A c : One!EvaluateRouting(f[c], TRUE) = OneP!EvaluateRouting(f[c], TRUE)
      BY <1>3, Zenon
    <3> QED  BY <3>1, Zenon
  <2> QED  BY <1>2, <2>1, Zenon DEF One!Eligible, OneP!Eligible
<1>5. \A s, n : One!FirstOf(s, n) = OneP!FirstOf(s, n)
  BY DEF One!FirstOf, OneP!FirstOf
<1>6. \A a, b : One!Alternating(a, b) = OneP!Alternating(a, b)
  BY DEF One!Alternating, OneP!Alternating
<1>7. \A a, b, n : One!StratifiedSample(a, b, n) = OneP!StratifiedSample(a, b, n)
  BY <1>5, <1>6 DEF One!StratifiedSample, OneP!StratifiedSample
<1>8. \A f, o, s, d : One!SampleOf(f, o, s, d) = OneP!SampleOf(f, o, s, d)
  BY <1>4, <1>5, <1>7 DEF One!SampleOf, OneP!SampleOf
<1>9. /\ One!Kinds = OneP!Kinds /\ One!Advice = OneP!Advice
      /\ One!FreshReport = OneP!FreshReport /\ One!FreshWire = OneP!FreshWire
      /\ One!Current = OneP!Current
  BY DEF One!Kinds, OneP!Kinds, One!Advice, OneP!Advice, One!FreshReport, OneP!FreshReport,
     One!FreshWire, OneP!FreshWire, One!Current, OneP!Current
<1>10. \A e, n : One!FailureOf(e, n) = OneP!FailureOf(e, n)
  BY DEF One!FailureOf, OneP!FailureOf, One!FailureCode, OneP!FailureCode, One!Current,
     OneP!Current, One!Unknown, OneP!Unknown
<1>11. \A u : One!EstimateCost(u) = OneP!EstimateCost(u) /\ One!Real(u) = OneP!Real(u)
  BY DEF One!EstimateCost, OneP!EstimateCost, One!Real, OneP!Real, One!UsageAvailable,
     OneP!UsageAvailable, One!BilledOutput, OneP!BilledOutput, One!CachedTokens, OneP!CachedTokens,
     One!OrZero, OneP!OrZero, One!Unknown, OneP!Unknown
<1>12. One!CanCall <=> OneP!CanCall
  BY DEF One!CanCall, OneP!CanCall, One!Reserved, OneP!Reserved
<1>13. \A x : One!Charge(x) <=> OneP!Charge(x)
  BY DEF One!Charge, OneP!Charge, One!Reserved, OneP!Reserved, One!Unknown, OneP!Unknown,
     One!budget, OneP!budget
<1>14. \A x : One!Over(x) <=> OneP!Over(x)
  BY DEF One!Over, OneP!Over
<1>15. \A x, e : One!Billed(x, e) <=> OneP!Billed(x, e)
  BY DEF One!Billed, OneP!Billed
<1>16. \A e : One!AfterError(e) <=> OneP!AfterError(e)
  BY <1>10, <1>13 DEF One!AfterError, OneP!AfterError, One!RETRYABLE, OneP!RETRYABLE, One!Unknown,
     OneP!Unknown, One!input, OneP!input
<1>17. /\ One!Answers = OneP!Answers /\ One!Used = OneP!Used
       /\ One!NotReported = OneP!NotReported
  BY DEF One!Answers, OneP!Answers, One!Used, OneP!Used, One!NotReported, OneP!NotReported,
     One!Unknown, OneP!Unknown, One!Advice, OneP!Advice
<1>18. \A a, c : One!ParsePayload(a, c) = OneP!ParsePayload(a, c)
  BY DEF One!ParsePayload, OneP!ParsePayload, One!Advice, OneP!Advice
<1>19. One!Start => OneP!Start
  BY <1>8, <1>9 DEF One!Start, OneP!Start
<1>20. One!Finish => OneP!Finish
  BY <1>14 DEF One!Finish, OneP!Finish, One!input, OneP!input, One!budget, OneP!budget
<1>21. One!Route => OneP!Route
  BY <1>3, <1>9, <1>14 DEF One!Route, OneP!Route, One!input, OneP!input, One!budget, OneP!budget
<1>22. One!Refused => OneP!Refused
  BY <1>10, <1>12, <1>14 DEF One!Refused, OneP!Refused, One!input, OneP!input, One!budget,
     OneP!budget
<1>23. One!Send => OneP!Send
  BY <1>9, <1>12 DEF One!Send, OneP!Send, One!input, OneP!input, One!budget, OneP!budget
<1>24. One!CallFails => OneP!CallFails
  BY <1>15, <1>16 DEF One!CallFails, OneP!CallFails, One!Failures, OneP!Failures, One!ErrorOf,
     OneP!ErrorOf, One!Reserved, OneP!Reserved
<1>25. One!CallAnswers => OneP!CallAnswers
  BY <1>9, <1>11, <1>13, <1>15, <1>16, <1>17, <1>18 DEF One!CallAnswers, OneP!CallAnswers,
     One!input, OneP!input
<1>26. One!File => OneP!File
  BY <1>9, <1>14 DEF One!File, OneP!File, One!input, OneP!input, One!budget, OneP!budget,
     One!Others, OneP!Others, One!SuggestionId, OneP!SuggestionId, One!Counted, OneP!Counted,
     One!OrZero, OneP!OrZero, One!Unknown, OneP!Unknown
<1>27. One!FileFails => OneP!FileFails
  BY <1>14 DEF One!FileFails, OneP!FileFails, One!input, OneP!input, One!budget, OneP!budget,
     One!Others, OneP!Others, One!SuggestionId, OneP!SuggestionId
<1>28. One!Killed => OneP!Killed
  BY <1>14 DEF One!Killed, OneP!Killed, One!input, OneP!input, One!budget, OneP!budget
<1>29. One!Next => OneP!Next
  BY <1>19, <1>20, <1>21, <1>22, <1>23, <1>24, <1>25, <1>26, <1>27, <1>28 DEF One!Next, OneP!Next,
     One!Work, OneP!Work
<1>30. One!Init => OneP!Init
  BY DEF One!Init, OneP!Init, One!AnySuggestion, OneP!AnySuggestion, One!Min, OneP!Min,
     One!FreshReport, OneP!FreshReport, One!FreshWire, OneP!FreshWire, One!Kinds, OneP!Kinds,
     One!Advice, OneP!Advice
<1>31. [One!Next]_(One!vars) => [OneP!Next]_(OneP!vars)
  BY <1>29 DEF One!vars, OneP!vars
<1> QED
  BY <1>30, <1>31, PTL DEF One!Spec, OneP!Spec

-----------------------------------------------------------------------------
(* The whole *)

\* A step of the whole is a step of every part, or leaves it as it is.
LEMMA StepsOfTheParts ==
  [MCNext]_<<part, storageVars, lineVars>> =>
    /\ part' = part
    /\ [Next]_vars /\ [Formulas!Next]_<<sampled, usage>> /\ [Commands!Next]_(Commands!vars)
    /\ IF part = "sample" THEN [Two!Next]_(Two!vars) ELSE [One!Next]_(One!vars)
    /\ IF part = "verify" THEN [Integrity!Next]_(Integrity!vars) ELSE UNCHANGED verifyVars
<1> SUFFICES ASSUME [MCNext]_<<part, storageVars, lineVars>>
             PROVE  /\ part' = part
                    /\ [Next]_vars /\ [Formulas!Next]_<<sampled, usage>>
                    /\ [Commands!Next]_(Commands!vars)
                    /\ IF part = "sample" THEN [Two!Next]_(Two!vars) ELSE [One!Next]_(One!vars)
                    /\ IF part = "verify" THEN [Integrity!Next]_(Integrity!vars)
                                          ELSE UNCHANGED verifyVars
  OBVIOUS
<1>1. /\ UNCHANGED semanticVars => UNCHANGED Two!vars /\ UNCHANGED One!vars
      /\ UNCHANGED formulaVars => UNCHANGED <<sampled, usage>>
      /\ UNCHANGED commandVars => UNCHANGED Commands!vars
      /\ UNCHANGED verifyVars => UNCHANGED Integrity!vars
  BY DEF semanticVars, Two!vars, One!vars, formulaVars, commandVars, Commands!vars, verifyVars,
     Integrity!vars
<1>2. part' = part
  BY DEF MCNext
<1>3. [Next]_vars /\ [Formulas!Next]_<<sampled, usage>>
  BY <1>1 DEF MCNext, storageVars
<1>4. [Commands!Next]_(Commands!vars)
  BY <1>1 DEF MCNext, Done, lineVars
<1>5. IF part = "sample" THEN [Two!Next]_(Two!vars) ELSE [One!Next]_(One!vars)
  BY <1>1 DEF MCNext, Rest, storageVars
<1>6. IF part = "verify" THEN [Integrity!Next]_(Integrity!vars) ELSE UNCHANGED verifyVars
  BY <1>1 DEF MCNext, Verified, lineVars
<1> QED
  BY <1>2, <1>3, <1>4, <1>5, <1>6

\* The storage, the formulas and the command line each run as their own module
\* specifies, whichever part moves.
THEOREM PartsRunAsSpecified == MCSpec => Spec /\ Formulas!Spec /\ Commands!Spec
<1>1. MCInit => Init /\ Formulas!Init /\ Commands!Init
  BY DEF MCInit
<1> QED
  BY <1>1, StepsOfTheParts, PTL DEF MCSpec, Spec, Formulas!Spec, Commands!Spec

LEMMA SampleRuns == MCSpec /\ part = "sample" => TwoP!Spec /\ [](part = "sample")
<1>1. MCInit /\ part = "sample" => Two!Init
  BY DEF MCInit
<1>2. part = "sample" /\ [MCNext]_<<part, storageVars, lineVars>>
        => (part = "sample")' /\ [Two!Next]_(Two!vars)
  BY StepsOfTheParts
<1>3. MCSpec /\ part = "sample" => Two!Spec /\ [](part = "sample")
  BY <1>1, <1>2, PTL DEF MCSpec, Two!Spec
<1> QED
  BY <1>3, TwoAsProved, PTL

LEMMA RerunRuns == MCSpec /\ part # "sample" => OneP!Spec /\ [](part # "sample")
<1>1. MCInit /\ part # "sample" => One!Init
  BY DEF MCInit
<1>2. part # "sample" /\ [MCNext]_<<part, storageVars, lineVars>>
        => (part # "sample")' /\ [One!Next]_(One!vars)
  BY StepsOfTheParts
<1>3. MCSpec /\ part # "sample" => One!Spec /\ [](part # "sample")
  BY <1>1, <1>2, PTL DEF MCSpec, One!Spec
<1> QED
  BY <1>3, OneAsProved, PTL

LEMMA VerifyRuns == MCSpec => [](part = "verify" => VerifyInv)
<1>1. MCInit => (part = "verify" => VerifyInv)
  BY DEF MCInit, Integrity!Init, VerifyInv
<1>2. (part = "verify" => VerifyInv) /\ [MCNext]_<<part, storageVars, lineVars>>
        => (part = "verify" => VerifyInv)'
  BY StepsOfTheParts DEF VerifyInv, Integrity!Next, Integrity!Verify, Integrity!vars
<1> QED
  BY <1>1, <1>2, PTL DEF MCSpec

LEMMA LimitsOfTheRuns == TwoP!Configured /\ OneP!Configured
  BY ReviewAssumption, TokenAssumption
  DEF TwoP!Configured, OneP!Configured, TwoP!RateAssumption, OneP!RateAssumption,
     Two!RateAssumption,
      TwoP!LimitAssumption, OneP!LimitAssumption, Two!LimitAssumption, One!LimitAssumption

\* The facts that are explored are those of a case.
LEMMA FactsOfTheRuns == AllFacts \subseteq Two!CaseFacts
<1>1. Plain \in Two!CaseFacts
  BY DEF Plain, Two!CaseFacts
<1>2. /\ [Plain EXCEPT !.known = FALSE] \in Two!CaseFacts
      /\ [Plain EXCEPT !.decision = "AUTO_MATCH"] \in Two!CaseFacts
      /\ [Plain EXCEPT !.status = "DEFERRED"] \in Two!CaseFacts
      /\ [Plain EXCEPT !.status = "MATCH"] \in Two!CaseFacts
      /\ [Plain EXCEPT !.evidence = FALSE] \in Two!CaseFacts
  BY DEF Plain, Two!CaseFacts
<1>3. /\ [Plain EXCEPT !.authorized = FALSE] \in Two!CaseFacts
      /\ [Plain EXCEPT !.records = FALSE] \in Two!CaseFacts
      /\ [Plain EXCEPT !.leaks = TRUE] \in Two!CaseFacts
      /\ [Plain EXCEPT !.tokens = "large"] \in Two!CaseFacts
  BY DEF Plain, Two!CaseFacts
<1> QED
  BY <1>1, <1>2, <1>3 DEF AllFacts

\* Both instances run over finitely many cases, whose facts are those of a case.
LEMMA CasesOfTheRuns == TwoP!Populated /\ OneP!Populated
<1>1. TwoP!LimitAssumption /\ OneP!LimitAssumption
  BY LimitsOfTheRuns DEF TwoP!Configured, OneP!Configured
<1>2. IsFiniteSet({1, 2}) /\ IsFiniteSet({1})
  <2>1. IsFiniteSet({1}) /\ {1, 2} = {1} \cup {2}
    BY FS_Singleton
  <2> QED  BY <2>1, FS_AddElement
<1>3. TwoP!IsFiniteSet({1, 2}) /\ OneP!IsFiniteSet({1})
  BY <1>2 DEF IsFiniteSet, TwoP!IsFiniteSet, OneP!IsFiniteSet
<1>4. AllFacts \subseteq TwoP!CaseFacts /\ {Plain} \subseteq OneP!CaseFacts
  BY FactsOfTheRuns DEF Two!CaseFacts, TwoP!CaseFacts, OneP!CaseFacts, AllFacts
<1> QED
  BY <1>1, <1>3, <1>4 DEF TwoP!Populated, OneP!Populated

-----------------------------------------------------------------------------
(* The theorems of the whole *)

\* Every request is charged, at no less than it is billed and no more than its
\* reservation, the caps hold for what left the process, and what was paid for has its
\* suggestion (budget.py, cost.py, suggest_for_case).
THEOREM BudgetsHoldThroughout == MCSpec => []BudgetHolds
<1>1. TwoP!Spec => [](TwoP!NothingIsFree /\ TwoP!CapsHold /\ TwoP!PaidCasesAreAnswered)
  BY LimitsOfTheRuns, TwoP!BudgetsHold, TwoP!PaidCasesHaveSuggestions, PTL
<1>2. OneP!Spec => [](OneP!NothingIsFree /\ OneP!CapsHold)
  BY LimitsOfTheRuns, OneP!BudgetsHold, PTL
<1>3. /\ TwoP!NothingIsFree => Two!NothingIsFree
      /\ OneP!NothingIsFree => Two!NothingIsFree
  BY DEF TwoP!NothingIsFree, OneP!NothingIsFree, Two!NothingIsFree, TwoP!Waiting, OneP!Waiting,
     Two!Waiting
<1>4. /\ TwoP!CapsHold => Two!CapsHold
      /\ OneP!CapsHold => Two!CapsHold
  BY DEF TwoP!CapsHold, OneP!CapsHold, Two!CapsHold
<1>5. TwoP!PaidCasesAreAnswered => Two!PaidCasesAreAnswered
  BY DEF TwoP!PaidCasesAreAnswered, Two!PaidCasesAreAnswered, TwoP!Stopped, Two!Stopped
<1>6. MCSpec => [](Formulas!CostIsBounded /\ Formulas!ReasoningIsNotBilledTwice)
  BY PartsRunAsSpecified, FormulaInvariant, FormulasHold, PTL
<1>7. /\ TwoP!NothingIsFree /\ TwoP!CapsHold /\ TwoP!PaidCasesAreAnswered
         /\ Formulas!CostIsBounded /\ Formulas!ReasoningIsNotBilledTwice => BudgetHolds
      /\ OneP!NothingIsFree /\ OneP!CapsHold /\ part # "sample"
         /\ Formulas!CostIsBounded /\ Formulas!ReasoningIsNotBilledTwice => BudgetHolds
  BY <1>3, <1>4, <1>5 DEF BudgetHolds
<1>8. part = "sample" \/ part # "sample"
  OBVIOUS
<1> QED
  BY <1>1, <1>2, <1>6, <1>7, <1>8, SampleRuns, RerunRuns, PTL

\* The fields of a run have their types; what is filed as advice is about its own case,
\* only a case whose request can be built is sent, the benchmark's counters add up, and
\* its sample takes the classes in turn (schema.py, policy.py,
\* semantic_review_benchmark.py).
THEOREM SuggestionsStaySound == MCSpec => []SuggestionsAreSound
<1>1. TwoP!Spec => [](TwoP!TypeOK /\ TwoP!AdviceIsForItsCase /\ TwoP!ReportAddsUp /\ TwoP!SentWasSendable)
  BY LimitsOfTheRuns, CasesOfTheRuns, TwoP!RunsAreTyped, TwoP!AdviceStaysAdvice, TwoP!ReportsAddUp,
     TwoP!SendableCasesAreSent, PTL
<1>2. OneP!Spec => [](OneP!TypeOK /\ OneP!AdviceIsForItsCase /\ OneP!ReportAddsUp)
  BY LimitsOfTheRuns, CasesOfTheRuns, OneP!RunsAreTyped, OneP!AdviceStaysAdvice, OneP!ReportsAddUp, PTL
<1>3. /\ TwoP!AdviceIsForItsCase => Two!AdviceIsForItsCase
      /\ OneP!AdviceIsForItsCase => Two!AdviceIsForItsCase
  BY DEF TwoP!AdviceIsForItsCase, OneP!AdviceIsForItsCase, Two!AdviceIsForItsCase,
     TwoP!HumanDecisions, OneP!HumanDecisions, Two!HumanDecisions
<1>4. /\ TwoP!ReportAddsUp => Two!ReportAddsUp
      /\ OneP!ReportAddsUp => Two!ReportAddsUp
  BY DEF TwoP!ReportAddsUp, OneP!ReportAddsUp, Two!ReportAddsUp
<1>5. TwoP!SentWasSendable => Two!SentWasSendable
  <2>1. TwoP!Current = Two!Current
    BY DEF TwoP!Current, Two!Current
  <2>2. \A c : TwoP!BuildRequest(c) = Two!BuildRequest(c)
    BY DEF TwoP!BuildRequest, Two!BuildRequest
  <2> QED
    BY <2>1, <2>2 DEF TwoP!SentWasSendable, Two!SentWasSendable
<1>6. /\ TwoP!TypeOK => Two!TypeOK
      /\ OneP!TypeOK => One!TypeOK
  <2>1. /\ TwoP!Suggestion = Two!Suggestion /\ TwoP!Kinds = Two!Kinds /\ TwoP!CaseFacts = Two!CaseFacts
        /\ OneP!Suggestion = One!Suggestion /\ OneP!Kinds = One!Kinds /\ OneP!CaseFacts = One!CaseFacts
    BY DEF TwoP!Suggestion, Two!Suggestion, TwoP!Kinds, Two!Kinds, TwoP!CaseFacts, Two!CaseFacts,
       OneP!Suggestion, One!Suggestion, OneP!Kinds, One!Kinds, OneP!CaseFacts, One!CaseFacts,
       TwoP!Advice, Two!Advice, OneP!Advice, One!Advice, TwoP!SemanticFailureCode,
       Two!SemanticFailureCode, OneP!SemanticFailureCode, One!SemanticFailureCode
  <2>2. TwoP!TypeOK => Two!TypeOK
    BY <2>1 DEF TwoP!TypeOK, Two!TypeOK
  <2>3. OneP!TypeOK => One!TypeOK
    BY <2>1 DEF OneP!TypeOK, One!TypeOK
  <2> QED
    BY <2>2, <2>3
<1>7. MCSpec => []Formulas!SampleIsBalanced
  <2>1. FormulaInv => Formulas!SampleIsBalanced
    BY SampleTakesTurns DEF FormulaInv
  <2> QED
    BY <2>1, PartsRunAsSpecified, FormulaInvariant, PTL
<1>8. /\ part = "sample" /\ TwoP!TypeOK /\ TwoP!AdviceIsForItsCase /\ TwoP!ReportAddsUp
         /\ TwoP!SentWasSendable /\ Formulas!SampleIsBalanced => SuggestionsAreSound
      /\ part # "sample" /\ OneP!TypeOK /\ OneP!AdviceIsForItsCase /\ OneP!ReportAddsUp
         /\ Formulas!SampleIsBalanced => SuggestionsAreSound
  BY <1>3, <1>4, <1>5, <1>6 DEF SuggestionsAreSound
<1>9. part = "sample" \/ part # "sample"
  OBVIOUS
<1> QED
  BY <1>1, <1>2, <1>7, <1>8, <1>9, SampleRuns, RerunRuns, PTL

\* No second request goes out for a case after an answer, a refusal (401, 403 or another
\* 4xx but 429) or an exception that is not the SDK's; an exception of the SDK without
\* an error status may be retried (service.RETRYABLE, _map_openai_error).
THEOREM TransientFailuresAreRetried == MCSpec => OnlyTransientIsRetried
<1> DEFINE R == phase = "attempt" /\ phase' = "sent" =>
                  wire.event \in {"none", "timeout", "connection", "rate_limit", "status_5xx", "sdk"}
<1>1. TwoP!Spec => [][R]_(Two!vars)
  BY TwoP!RetriesAreTransient DEF TwoP!OnlyTransientIsRetried, TwoP!vars, Two!vars
<1>2. OneP!Spec => [][R]_(Two!vars)
  BY OneP!RetriesAreTransient DEF OneP!OnlyTransientIsRetried, OneP!vars, Two!vars
<1>3. part = "sample" \/ part # "sample"
  OBVIOUS
<1>4. MCSpec => [][R]_(Two!vars)
  BY <1>1, <1>2, <1>3, SampleRuns, RerunRuns, PTL
<1> QED
  BY <1>4 DEF OnlyTransientIsRetried, Two!OnlyTransientIsRetried

\* The command line tells the truth: what a registering run published is registered, the
\* exit codes and the counts say what was stored, nothing staged is left behind, and a
\* queue is reported clean exactly when only decisions have written it
\* (manage_human_review.py, bootstrap.py, reporting.py, integrity.py).
THEOREM CommandLineIsHonest == MCSpec => []CommandsAreHonest
<1>1. MCSpec => []CommandInv
  BY PartsRunAsSpecified, CommandInvariant, PTL
<1>2. CommandInv /\ (part = "verify" => VerifyInv) => CommandsAreHonest
  BY CommandTypes, CommandExits, CommandCounts, CommandReports, VerdictsAreRight
     DEF CommandsAreHonest
<1> QED
  BY <1>1, <1>2, VerifyRuns, PTL
=============================================================================
