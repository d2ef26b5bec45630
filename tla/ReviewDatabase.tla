--------------------------- MODULE ReviewDatabase ---------------------------
(***************************************************************************)
(* The transaction manager of one process: ReviewDatabase hands out nested *)
(* units of work over the one SQLite connection that review, tenant,       *)
(* credential and session storage share.  Only the outermost `with` block  *)
(* begins and ends a transaction; a failure inside is latched, so that a   *)
(* caller who swallows the exception cannot commit half of the work.       *)
(*                                                                         *)
(* blocks is the nesting of `with` statements in the running program;      *)
(* depth, writable and failed are what the object remembers of it.         *)
(*                                                                         *)
(* An operator commented "Broken variant" is a plausible bug of the one    *)
(* that follows it; no specification uses it.                              *)
(***************************************************************************)
EXTENDS Naturals, SequencesExt

CONSTANTS
  Writes,      \* the statements a program may issue, each at most once
  MaxNesting   \* bound on the depth of nested blocks, none in the code

VARIABLES
  connection,  \* self._connection: "none" or "open"
  inTx,        \* is the engine inside a transaction on that connection?
  depth,       \* self._depth
  writable,    \* self._writable
  failed,      \* self._failed
  blocks,      \* the open `with` blocks, outermost first: "read" or "write"
  control,     \* "running"; "raising" inside a block; "escaped" out of a nested one
  unit,        \* the writes issued since the last BEGIN
  broken,      \* history: a nested block of this unit ended with an exception
  work,        \* what the engine would make durable at COMMIT
  stored,      \* what is durable
  report       \* how the last outermost block ended

vars == <<connection, inTx, depth, writable, failed, blocks, control, unit, work, stored, report, broken>>

Init == /\ connection = "none" /\ inTx = FALSE
        /\ depth = 0 /\ writable = FALSE /\ failed = FALSE
        /\ blocks = <<>> /\ control = "running"
        /\ unit = {} /\ broken = FALSE /\ work = {} /\ stored = {}
        /\ report = "none"

-----------------------------------------------------------------------------
(* Opening a block *)

\* BEGIN fails: the file is busy, or the connection is inside a transaction.
BeginFails == /\ control = "running" /\ depth = 0
              /\ connection' = "open"
              /\ report' = "raised"
              /\ unit' = {}
              /\ UNCHANGED <<inTx, depth, writable, failed, blocks, control, work, stored, broken>>

\* The outermost block: connect() and BEGIN IMMEDIATE or BEGIN DEFERRED.
Begin(kind) == /\ control = "running" /\ depth = 0 /\ ~inTx
               /\ connection' = "open"
               /\ inTx' = TRUE
               /\ depth' = 1
               /\ writable' = (kind = "write")
               /\ failed' = FALSE
               /\ blocks' = <<kind>>
               /\ unit' = {} /\ broken' = FALSE
               /\ report' = "none"
               /\ UNCHANGED <<control, work, stored>>

\* Broken variant: any block may join any transaction.
JoinUnchecked(kind) == /\ control = "running" /\ depth > 0
                       /\ depth < MaxNesting
                       /\ depth' = depth + 1
                       /\ blocks' = Append(blocks, kind)
                       /\ UNCHANGED <<connection, inTx, writable, failed, control, unit, work,
                                      stored, report, broken>>

\* A nested block joins the transaction, unless it wants to write in a snapshot.
Join(kind) == /\ control = "running" /\ depth > 0
              /\ depth < MaxNesting
              /\ IF kind = "write" /\ ~writable
                   THEN control' = "escaped" /\ UNCHANGED <<depth, blocks>>
                   ELSE /\ depth' = depth + 1
                        /\ blocks' = Append(blocks, kind)
                        /\ UNCHANGED control
              /\ UNCHANGED <<connection, inTx, writable, failed, unit, work, stored, report, broken>>

-----------------------------------------------------------------------------
(* Inside a block *)

\* A statement of a program that holds a write block.  Bound: after a failure it
\* swallowed a program writes no more (no caller in the code swallows one).
Write(x) == /\ control = "running" /\ "write" \in ToSet(blocks) /\ ~failed
            /\ x \notin unit \cup stored
            /\ unit' = unit \cup {x}
            /\ IF inTx THEN work' = work \cup {x} /\ UNCHANGED stored
                       ELSE stored' = stored \cup {x} /\ UNCHANGED work
            /\ UNCHANGED <<connection, inTx, depth, writable, failed, blocks, control, report, broken>>

\* A statement or the domain raises; the engine may have unwound the transaction
\* by itself (disk full, I/O error).
Raise == /\ control = "running" /\ depth > 0
         /\ control' = "raising"
         /\ \/ UNCHANGED <<inTx, work>>
            \/ inTx' = FALSE /\ work' = {}
         /\ UNCHANGED <<connection, depth, writable, failed, blocks, unit, stored, report, broken>>

\* The outer block catches what escaped from a nested one and goes on.
Swallow == /\ control = "escaped" /\ depth > 0
           /\ control' = "running"
           /\ UNCHANGED <<connection, inTx, depth, writable, failed, blocks, unit, work, stored, report, broken>>

-----------------------------------------------------------------------------
(* Leaving a block *)

\* Broken variant: the failure is not latched.
EscapeUnlatched == /\ control # "running" /\ depth > 1
                   /\ depth' = depth - 1
                   /\ blocks' = Front(blocks)
                   /\ control' = "escaped"
                   /\ broken' = TRUE
                   /\ UNCHANGED <<connection, inTx, writable, failed, unit, work, stored, report>>

\* An exception leaves a nested block.
Escape == /\ control # "running" /\ depth > 1
          /\ failed' = TRUE
          /\ depth' = depth - 1
          /\ blocks' = Front(blocks)
          /\ control' = "escaped"
          /\ broken' = TRUE
          /\ UNCHANGED <<connection, inTx, writable, unit, work, stored, report>>

\* Broken variant: a nested block commits what it wrote.
LeaveCommitting == /\ control = "running" /\ depth > 1
                   /\ depth' = depth - 1
                   /\ blocks' = Front(blocks)
                   /\ stored' = stored \cup work
                   /\ UNCHANGED <<connection, inTx, writable, failed, control, unit, work, report, broken>>

\* A nested block ends well.
Leave == /\ control = "running" /\ depth > 1
         /\ depth' = depth - 1
         /\ blocks' = Front(blocks)
         /\ UNCHANGED <<connection, inTx, writable, failed, control, unit, work, stored, report, broken>>

\* The object is as before the outermost block.
Close(how) == /\ depth' = 0 /\ writable' = FALSE /\ failed' = FALSE
              /\ blocks' = <<>> /\ control' = "running"
              /\ report' = how

\* Broken variant: a connection whose ROLLBACK failed is kept.
AbortKeeping == /\ \/ inTx' = FALSE /\ work' = {}
                   \/ UNCHANGED <<inTx, work>>
                /\ UNCHANGED <<connection, stored>>

\* ROLLBACK works, or has nothing left to undo; or it fails and the connection,
\* still inside its transaction, is closed, which undoes the work as well.
Abort == /\ \/ UNCHANGED connection
            \/ inTx /\ connection' = "none"
         /\ inTx' = FALSE /\ work' = {}
         /\ UNCHANGED stored

\* The outermost block ends with an exception, or with one latched and swallowed.
EndAborted == /\ depth = 1
              /\ control # "running" \/ failed
              /\ Abort
              /\ Close("raised")
              /\ UNCHANGED <<unit, broken>>

Commit == /\ depth = 1 /\ control = "running" /\ ~failed
          /\ inTx
          /\ inTx' = FALSE
          /\ stored' = stored \cup work
          /\ work' = {}
          /\ Close("committed")
          /\ UNCHANGED <<connection, unit, broken>>

\* COMMIT itself raises: busy, disk full, or no transaction left to commit.
CommitFails == /\ depth = 1 /\ control = "running" /\ ~failed
               /\ Abort
               /\ Close("raised")
               /\ UNCHANGED <<unit, broken>>

Next ==
  \/ BeginFails \/ \E kind \in {"read", "write"} : Begin(kind) \/ Join(kind)
  \/ \E x \in Writes : Write(x)
  \/ Raise \/ Swallow \/ Escape \/ Leave
  \/ EndAborted \/ Commit \/ CommitFails

Spec == Init /\ [][Next]_vars

-----------------------------------------------------------------------------
(* Properties *)

\* What the object remembers is the nesting of the program's blocks, on every
\* way out of one.
TypeOK ==
  /\ connection \in {"none", "open"} /\ inTx \in BOOLEAN
  /\ depth = Len(blocks) /\ depth <= MaxNesting
  /\ blocks \in Seq({"read", "write"})
  /\ writable = (depth > 0 /\ blocks[1] = "write") /\ failed \in BOOLEAN
  /\ control \in {"running", "raising", "escaped"}
  /\ unit \subseteq Writes /\ work \subseteq unit /\ stored \subseteq Writes
  /\ report \in {"none", "committed", "raised"} /\ broken \in BOOLEAN

\* A unit of work is durable as a whole, and no part of it has failed, when its
\* outermost block returned; it leaves no trace when that block raised, whatever
\* was swallowed inside it.
AllOrNothing ==
  depth = 0 =>
    /\ report = "committed" => unit \subseteq stored /\ ~broken
    /\ report = "raised" => unit \cap stored = {}

\* Between units of work the shared connection is never inside a transaction:
\* no failed COMMIT or ROLLBACK makes the next BEGIN fail.
NextUnitCanBegin == depth = 0 => ~inTx /\ work = {}

\* A read snapshot is never turned into a writing transaction.
SnapshotStaysSnapshot == unit # {} => depth = 0 \/ blocks[1] = "write"

\* Nothing becomes durable before the outermost block has ended well.
DurableOnlyAtTheEnd == [][stored' # stored => depth' = 0 /\ report' = "committed"]_vars
=============================================================================
