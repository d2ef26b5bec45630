--------------------------- MODULE OperatorCommands ---------------------------
(***************************************************************************)
(* The command line of an operator (scripts/manage_human_review.py): the   *)
(* commands that provision rows, generate a workflow, register it in a     *)
(* review queue, verify the queue and read a report.  Processes run one    *)
(* command each over one database and one directory of reports, while a    *)
(* reviewer decides cases and the organization may be suspended.           *)
(*                                                                         *)
(* A step is one SELECT, one write transaction or one file operation; a    *)
(* process may die before each of them.  A workflow is its context and the *)
(* cases that it offers.  An operator commented "Broken variant" is a      *)
(* plausible bug of the one that follows it; no specification uses it.     *)
(***************************************************************************)
EXTENDS Integers, Sequences, FiniteSets, FiniteSetsExt

CONSTANTS
  Operator,   \* processes of the command line
  Jobs,       \* the commands that they may be given
  Stores,     \* the stores that they may find
  NoFile,     \* no file of a name
  NoContext   \* a queue in which nothing is registered

VARIABLES
  schema,     \* "none", "current", "old": the tables of the database file
  rows,       \* the provisioned rows, by kind
  active,     \* the status of the organization
  queue,      \* the context, the cases and the decided cases of the review queue
  staged,     \* .human_review_report.json.tmp
  final,      \* human_review_report.json
  job,        \* what each process is doing
  crowded,    \* history: two runs have staged a report at the same time
  littered    \* history: a process died, or could not unlink its file

vars == <<schema, rows, active, queue, staged, final, job, crowded, littered>>
storeVars == <<schema, rows, active, queue>>
fileVars == <<staged, final>>

\* The rows that a command names and never creates, in the order of the lookups ...
Lookups(kind) ==
  CASE kind \in {"register", "verify-queue"} -> <<"organization", "queue">>
    [] kind = "create-review-queue"          -> <<"organization">>
    [] kind = "add-membership"               -> <<"organization", "user">>
    [] OTHER                                 -> <<>>

\* ... and the one that it creates.
Creates ==
  [kind \in {"create-organization", "create-user", "create-review-queue", "add-membership"} |->
     CASE kind = "create-organization" -> "organization" [] kind = "create-user" -> "user"
       [] kind = "create-review-queue" -> "queue"        [] kind = "add-membership" -> "membership"]

Kinds == DOMAIN Creates \cup {"list-organizations", "verify-queue", "generate", "register",
                              "list", "inspect", "resolve"}

Report(w, whole, by) == [workflow |-> w, whole |-> whole, by |-> by]

Idle == [at |-> "idle"]
Ended == {"idle", "exit", "dead"}
Working(r) == job[r].at \notin Ended
At(r, step) == job[r].at = step
Command(r) == job[r].command
Staging(r) == Working(r) /\ Command(r).kind = "register"

\* The staging file is this run's: written, and neither published nor unlinked.
HoldsStage(r) == Staging(r) /\ ~At(r, "stage")

Started(command, step) ==
  [at |-> step, command |-> command, todo |-> Lookups(command.kind), already |-> 0,
   wrote |-> FALSE, quiet |-> TRUE, before |-> {}, stored |-> {}, pending |-> 0, code |-> 0]

\* The commands and the stores: a workflow is stored under a context of its own, and a
\* report that a registering run left is whole and of a registered workflow.
JobAssumption ==
  /\ Jobs \subseteq [kind : Kinds, workflow : {c.workflow : c \in Jobs}, usable : BOOLEAN,
                     readable : BOOLEAN, case : {c.case : c \in Jobs}]
  /\ \A c \in Jobs : /\ IsFiniteSet(c.workflow.cases) /\ c.workflow.context # NoContext
                     /\ \A whole \in BOOLEAN : Report(c.workflow, whole, c.kind) # NoFile

StoreAssumption ==
  \A s \in Stores :
    /\ s.schema \in {"none", "current", "old"} /\ s.active \in BOOLEAN
    /\ s.rows \subseteq {Creates[k] : k \in DOMAIN Creates}
    /\ s.queue = [context |-> s.queue.context, cases |-> s.queue.cases, decided |-> s.queue.decided]
    /\ IsFiniteSet(s.queue.cases) /\ s.queue.decided \subseteq s.queue.cases
    /\ s.final # NoFile /\ s.final.by = "register" =>
         /\ s.final.whole /\ s.final.workflow.context = s.queue.context
         /\ s.final.workflow.cases \subseteq s.queue.cases /\ s.queue.context # NoContext

TypeOK ==
  /\ schema \in {"none", "current", "old"}
  /\ rows \subseteq {Creates[k] : k \in DOMAIN Creates}
  /\ active \in BOOLEAN
  /\ queue.decided \subseteq queue.cases
  /\ \A r \in Operator : job[r] = Idle \/
       (/\ Command(r).kind \in Kinds /\ job[r].code \in 0..7 /\ job[r].wrote \in BOOLEAN
        /\ job[r].at \in {"resolve", "stage", "open", "create", "find", "insert", "count", "register",
                          "publish", "check", "load", "exit", "dead"})
  /\ {crowded, littered} \subseteq BOOLEAN

Init ==
  /\ \E s \in Stores : /\ schema = s.schema /\ rows = s.rows /\ active = s.active
                       /\ queue = s.queue /\ final = s.final
  /\ staged = NoFile
  /\ job = [r \in Operator |-> Idle]
  /\ crowded = FALSE
  /\ littered = FALSE

Exit(r, code) == job' = [job EXCEPT ![r].at = "exit", ![r].code = code]
Goto(r, step) == job' = [job EXCEPT ![r].at = step]

----------------------------------------------------------------------------
\* main: what the arguments and the input file alone decide.
FirstStep(c) ==
  CASE c.kind = "resolve"                 -> "resolve"
    [] c.kind # "resolve" /\ ~c.usable    -> "exit"
    [] c.usable /\ c.kind \in {"list", "inspect"} -> "load"
    [] c.usable /\ c.kind \in {"generate", "register"} -> IF c.readable THEN "stage" ELSE "exit"
    [] OTHER                              -> "open"

Begin(r, c) ==
  /\ job[r] = Idle
  /\ job' = [job EXCEPT ![r] =
       [Started(c, FirstStep(c)) EXCEPT !.code = IF FirstStep(c) # "exit" THEN 0
                                                 ELSE IF ~c.usable THEN 1 ELSE 2]]
  /\ UNCHANGED <<storeVars, fileVars, crowded, littered>>

\* resolve is refused whatever its arguments are: a report is no place for a decision.
RefuseReportResolution(r) ==
  /\ At(r, "resolve")
  /\ Exit(r, 1)
  /\ UNCHANGED <<storeVars, fileVars, crowded, littered>>

\* write_text truncates and writes: what fails or dies in it leaves part of a report.
Torn(r, file) == {file, Report(Command(r).workflow, FALSE, Command(r).kind)}

\* Broken variant: the report is written under its final name, then registered.
WriteReportInPlace(r) ==
  LET report == Report(Command(r).workflow, TRUE, Command(r).kind)
  IN /\ At(r, "stage")
     /\ final' = report
     /\ IF Command(r).kind = "generate"
          THEN Exit(r, 0) /\ UNCHANGED <<staged, crowded>>
          ELSE /\ staged' = report
               /\ Goto(r, "open")
               /\ crowded' = (crowded \/ \E q \in Operator \ {r} : HoldsStage(q))
     /\ UNCHANGED <<storeVars, littered>>

\* generate writes the report; with --register-review-queue it is only staged.
WriteReport(r) ==
  LET report == Report(Command(r).workflow, TRUE, Command(r).kind)
  IN /\ At(r, "stage")
     /\ IF Command(r).kind = "generate"
          THEN final' = report /\ Exit(r, 0) /\ UNCHANGED <<staged, crowded>>
          ELSE /\ staged' = report
               /\ Goto(r, "open")
               /\ crowded' = (crowded \/ \E q \in Operator \ {r} : HoldsStage(q))
               /\ UNCHANGED final
     /\ UNCHANGED <<storeVars, littered>>

\* _unlink_quietly: the file goes, or its removal fails too.
UnlinkQuietly ==
  \/ staged' = NoFile /\ UNCHANGED littered
  \/ littered' = TRUE /\ UNCHANGED staged

\* The disk is full, or the directory cannot be made.
WriteReportFails(r) ==
  /\ At(r, "stage")
  /\ IF Command(r).kind = "generate"
       THEN final' \in Torn(r, final) /\ UNCHANGED <<staged, littered>>
       ELSE /\ \/ staged' = NoFile /\ UNCHANGED littered
               \/ staged' \in Torn(r, staged) /\ littered' = TRUE
            /\ UNCHANGED final
  /\ crowded' = (crowded \/ (Staging(r) /\ \E q \in Operator \ {r} : HoldsStage(q)))
  /\ Exit(r, 3)
  /\ UNCHANGED storeVars

\* Broken variant: the staged report of a refused registration is left behind.
RefusedLeaving(r, code) ==
  /\ UNCHANGED <<staged, littered>>
  /\ Exit(r, code)
  /\ UNCHANGED <<storeVars, final, crowded>>

\* What is raised while a report is staged removes it on its way out.
Refused(r, code) ==
  /\ IF Staging(r) THEN UnlinkQuietly ELSE UNCHANGED <<staged, littered>>
  /\ Exit(r, code)
  /\ UNCHANGED <<storeVars, final, crowded>>

----------------------------------------------------------------------------
\* open_review_database: the tables are looked for outside any transaction ...
AfterOpen(kind) ==
  CASE kind = "list-organizations" -> "exit" [] kind = "create-organization" -> "insert"
    [] kind = "create-user" -> "insert"      [] OTHER -> "find"

OpenDatabase(r) ==
  /\ At(r, "open")
  /\ CASE schema = "none"    -> Goto(r, "create") /\ UNCHANGED <<storeVars, fileVars, crowded, littered>>
       [] schema = "current" -> /\ Goto(r, AfterOpen(Command(r).kind))
                                /\ UNCHANGED <<storeVars, fileVars, crowded, littered>>
       [] schema = "old"     -> Refused(r, 5)

\* ... and created in one: whoever comes second fails on the version row, and nothing
\* handles the error of the driver.
CreateSchema(r) ==
  /\ At(r, "create")
  /\ IF schema = "none"
       THEN /\ schema' = "current"
            /\ Goto(r, AfterOpen(Command(r).kind))
            /\ UNCHANGED <<rows, active, queue, fileVars, crowded, littered>>
       ELSE Refused(r, 1)

\* _require_organization, _require_review_queue and the user of a membership: a name
\* that is not stored is refused, never created.
AfterFind(kind) ==
  CASE kind = "register" -> "count" [] kind = "verify-queue" -> "check" [] OTHER -> "insert"

Found(name) == name \in rows

LookUp(r) ==
  /\ At(r, "find")
  /\ IF job[r].todo = <<>>
       THEN Goto(r, AfterFind(Command(r).kind)) /\ UNCHANGED <<storeVars, fileVars, crowded, littered>>
     ELSE IF Found(Head(job[r].todo))
       THEN /\ job' = [job EXCEPT ![r].todo = Tail(@)]
            /\ UNCHANGED <<storeVars, fileVars, crowded, littered>>
     ELSE Refused(r, 6)

\* _assert_organization_active: a tenant that is suspended does not grow.
Suspended(new) == new \in {"queue", "membership"} /\ ~active

\* One transaction; a duplicate (UNIQUE) is refused, and nothing is updated.
Insert(r, kind) ==
  LET new == Creates[kind]
  IN /\ At(r, "insert")
     /\ Command(r).kind = kind
     /\ IF new \in rows \/ Suspended(new)
          THEN Refused(r, 6)
          ELSE /\ rows' = rows \cup {new}
               /\ job' = [job EXCEPT ![r].wrote = TRUE, ![r].at = "exit"]
               /\ UNCHANGED <<schema, active, queue, fileVars, crowded, littered>>

CreateOrganization(r) == Insert(r, "create-organization")
CreateUser(r) == Insert(r, "create-user")
AddMembership(r) == Insert(r, "add-membership")
CreateReviewQueue(r) == Insert(r, "create-review-queue")

----------------------------------------------------------------------------
\* register_review_workflow: the cases are counted before the transaction ...
CountCases(r) ==
  /\ At(r, "count")
  /\ job' = [job EXCEPT ![r].already = Cardinality(queue.cases), ![r].before = queue.cases,
                        ![r].at = "register"]
  /\ UNCHANGED <<storeVars, fileVars, crowded, littered>>

\* ... which refuses another context and stores what is missing, never a case twice.
RegisterWorkflow(r) ==
  LET w == Command(r).workflow
  IN /\ At(r, "register")
     /\ CASE ~w.covered                                  -> Refused(r, 5)
          [] w.covered /\ ~active                        -> Refused(r, 6)
          [] w.covered /\ active /\ queue.context \notin {NoContext, w.context} -> Refused(r, 5)
          [] OTHER ->
               /\ queue' = [queue EXCEPT !.context = w.context, !.cases = @ \cup w.cases]
               /\ job' = [job EXCEPT ![r].wrote = TRUE,
                                     ![r].quiet = (job[r].before = queue.cases),
                                     ![r].stored = w.cases \ queue.cases,
                                     ![r].pending = Cardinality(w.cases \ queue.decided),
                                     ![r].at = "publish"]
               /\ UNCHANGED <<schema, rows, active, fileVars, crowded, littered>>

\* The lock is not to be had within busy_timeout, or COMMIT fails: the error of the
\* driver is none that main answers.
StorageFails(r) == job[r].at \in {"create", "insert", "register"} /\ Refused(r, 1)

\* temp_path.replace(final_path); without the staged file it is an OSError.
Publish(r) ==
  /\ At(r, "publish")
  /\ staged # NoFile
  /\ final' = staged
  /\ staged' = NoFile
  /\ Exit(r, 0)
  /\ UNCHANGED <<storeVars, crowded, littered>>

PublishFails(r) == At(r, "publish") /\ Refused(r, 3)

----------------------------------------------------------------------------
\* verify-queue: a queue without a context has no bundle to load.
VerifyQueue(r) ==
  /\ At(r, "check")
  /\ Exit(r, IF queue.context = NoContext THEN 7 ELSE 0)
  /\ UNCHANGED <<storeVars, fileVars, crowded, littered>>

\* Broken variant: only the existence of the file is asked.
LoadableWhenPresent(file) == file # NoFile

\* load_human_review_report: a whole document with records and a snapshot.
Loadable(file) == file # NoFile /\ file.whole /\ file.workflow.records

LoadReport(r) ==
  /\ At(r, "load")
  /\ CASE ~Loadable(final) -> Exit(r, 3)
       [] Loadable(final) /\ Command(r).kind = "inspect"
                         /\ Command(r).case \notin final.workflow.cases -> Exit(r, 4)
       [] OTHER          -> job' = [job EXCEPT ![r].at = "exit", ![r].command.workflow = final.workflow,
                                               ![r].quiet = final.whole]
  /\ UNCHANGED <<storeVars, fileVars, crowded, littered>>

----------------------------------------------------------------------------
\* A process is killed: in the middle of a file, or between two steps.
Crash(r) ==
  /\ Working(r)
  /\ IF At(r, "stage")
       THEN IF Command(r).kind = "generate"
              THEN final' \in Torn(r, final) /\ UNCHANGED staged
              ELSE staged' \in Torn(r, staged) /\ UNCHANGED final
       ELSE UNCHANGED fileVars
  /\ crowded' = (crowded \/ (At(r, "stage") /\ Staging(r) /\ \E q \in Operator \ {r} : HoldsStage(q)))
  /\ littered' = TRUE
  /\ Goto(r, "dead")
  /\ UNCHANGED storeVars

\* The server, meanwhile: a reviewer decides a case, the organization changes status.
Decide(c) ==
  /\ c \in queue.cases \ queue.decided
  /\ queue' = [queue EXCEPT !.decided = @ \cup {c}]
  /\ UNCHANGED <<schema, rows, active, fileVars, job, crowded, littered>>

SetStatus ==
  /\ "organization" \in rows
  /\ active' = ~active
  /\ UNCHANGED <<schema, rows, queue, fileVars, job, crowded, littered>>

Next ==
  \/ \E r \in Operator :
       \/ \E c \in Jobs : Begin(r, c)
       \/ WriteReport(r) \/ WriteReportFails(r) \/ OpenDatabase(r) \/ CreateSchema(r) \/ LookUp(r)
       \/ RefuseReportResolution(r) \/ CreateOrganization(r) \/ CreateUser(r) \/ AddMembership(r)
       \/ CreateReviewQueue(r) \/ CountCases(r) \/ RegisterWorkflow(r) \/ StorageFails(r)
       \/ Publish(r) \/ PublishFails(r) \/ VerifyQueue(r) \/ LoadReport(r) \/ Crash(r)
  \/ \E c \in queue.cases : Decide(c)
  \/ SetStatus

Spec == Init /\ [][Next]_vars

----------------------------------------------------------------------------
Exited(r, kind, code) == At(r, "exit") /\ Command(r).kind = kind /\ job[r].code = code

Registered(w) == queue.context = w.context /\ w.cases \subseteq queue.cases

\* "A final human_review_report.json must not exist unless registration succeeded": the
\* report of a registering run is whole and its workflow is in the queue, whatever died,
\* as long as two such runs did not share the staging file.
PublishedIsRegistered ==
  ~crowded /\ final # NoFile /\ final.by = "register" => final.whole /\ Registered(final.workflow)

\* The exit codes say what happened: 1, 2, 5 and 6 that this run stored nothing, 0 that
\* the workflow is registered or the report was read as a whole one.
ExitCodesAreTrue ==
  \A r \in Operator :
    /\ At(r, "exit") /\ job[r].code \in {1, 2, 5, 6} => ~job[r].wrote
    /\ Exited(r, "register", 0) => Registered(Command(r).workflow)
    /\ Exited(r, "list", 0) => job[r].quiet /\ Command(r).workflow.records

\* No staged report outlives its run, unless a process died or could not unlink it.
NothingStagedIsLeft ==
  ~crowded /\ ~littered /\ staged # NoFile => \E r \in Operator : HoldsStage(r)

\* Broken variant: every row that the registration returned counts as a new one.
NewlyRegisteredAll(r) == Cardinality(Command(r).workflow.cases)

\* _summarize
NewlyRegistered(r) == Max({0, Cardinality(Command(r).workflow.cases) - job[r].already})

\* _print_registration: "Registered n new review case(s)", "already registered; no case
\* was written", or neither for a workflow without cases.
Announced(r) ==
  CASE NewlyRegistered(r) > 0                                      -> "registered"
    [] NewlyRegistered(r) = 0 /\ Command(r).workflow.cases # {}    -> "already"
    [] OTHER                                                       -> "neither"

\* The operator is told how many cases the run stored, and that none was written only
\* when that is so, when no other run stored any in between and the queue held only
\* cases that the workflow offers.
CountsAreTrue ==
  \A r \in Operator :
    Exited(r, "register", 0) /\ job[r].quiet /\ job[r].before \subseteq Command(r).workflow.cases
      => /\ NewlyRegistered(r) = Cardinality(job[r].stored)
         /\ Announced(r) = "already" => job[r].stored = {}
=============================================================================
