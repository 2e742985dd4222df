--------------------------- MODULE TaskLifecycle ---------------------------
(***************************************************************************)
(* The managed life of one task: create_and_start, start, trash, restore,  *)
(* restart, stop and delete (server/project-task-lifecycle-service.ts),    *)
(* the durable journal that admits one pending operation per task and      *)
(* replays it after a crash (state/project-task-lifecycle-operation-       *)
(* store.ts), and what the operations act on: the card, the process of its *)
(* session and its worktree, whose branch Trash releases and Restore       *)
(* reattaches.                                                             *)
(*                                                                         *)
(* An operation runs through stages.  Every board step is a command with   *)
(* a receipt of its own, so a step that is tried again is answered from    *)
(* the receipt.  A failure after the first step is compensated by another  *)
(* move.  A crash ends the runtime, its processes and the stages of the    *)
(* operations, never the journal, the board, the receipts or the worktree. *)
(***************************************************************************)
EXTENDS Integers, FiniteSets

CONSTANTS
    Operations,     \* operation ids, taken in order
    MaxRebases,     \* MAX_SEMANTIC_REBASE_RETRIES
    MaxEdits,       \* bound: board commits that are not the operations' own
    MaxFaults,      \* bound: stops, launches, Git steps and writes that fail
    MaxCrashes      \* bound: exits of the runtime

ASSUME OperationsAssumption == Operations \subseteq Nat /\ 0 \notin Operations
ASSUME BoundsAssumption == {MaxRebases, MaxEdits, MaxFaults, MaxCrashes} \subseteq Nat

Kinds == {"create_and_start", "start", "trash", "restore", "restart", "stop", "delete"}
Starts == {"create_and_start", "start"}
Nobody == 0
Columns == {"none", "review", "in_progress", "trash"}
Steps == {"create", "move", "compensate", "delete"}
Succeeded == {"completed", "completed_with_warning", "already_applied"}
Outcomes == Succeeded \cup {"", "stale_task", "invalid_transition", "superseded",
    "revision_conflict", "stop_failed", "worktree_failed", "session_start_failed",
    "compensation_failed", "internal_error"}
Stages == {"idle", "validate", "create", "move", "accepted", "stop", "save_branch",
    "detach", "reattach", "consume", "ensure", "launch", "failed", "look",
    "compensate", "stop_again", "purge", "mark_deleting", "delete", "finish"}

VARIABLES
    board,      \* the durable card and the revision of its board
    receipts,   \* per operation and step: "none", "accepted" or "rejected"
    journal,    \* lifecycle-operations.json
    exec,       \* the running operations
    session,    \* the process (by the operation that launched it), its summary
                \* in memory and its saved summary
    tree,       \* the worktree's HEAD and the branch saved by Trash
    server,     \* whether requests are served, and what is left to recover
    spent,      \* how much of the bounds has been used
    launches    \* per operation: processes it has launched

vars == <<board, receipts, journal, exec, session, tree, server, spent, launches>>

Idle == [at |-> "idle", base |-> 0, rebases |-> 0, replayed |-> FALSE,
         outcome |-> "", warned |-> FALSE]
Absent == [status |-> "absent", kind |-> "stop", expected |-> 0, source |-> "review",
           deleting |-> FALSE, outcome |-> "", warned |-> FALSE]

Pending(o) == journal[o].status = "pending"
Kind(o) == journal[o].kind
At(o, stage) == exec[o].at = stage

(* isSuccessfulLaunch of getMatchingLaunchSummary: the live summary first,
   then the saved one. *)
Launched(o) == session.live = o \/ session.saved = o

TypeOK ==
    /\ board \in [column: Columns, unstarted: BOOLEAN, pinned: BOOLEAN, revision: Nat]
    /\ receipts \in [Operations -> [Steps -> {"none", "accepted", "rejected"}]]
    /\ journal \in [Operations -> [status: {"absent", "pending", "done"}, kind: Kinds,
          expected: Nat, source: Columns, deleting: BOOLEAN, outcome: Outcomes,
          warned: BOOLEAN]]
    /\ exec \in [Operations -> [at: Stages, base: Nat, rebases: 0 .. MaxRebases,
          replayed: BOOLEAN, outcome: Outcomes, warned: BOOLEAN]]
    /\ session \in [process: Operations \cup {Nobody}, live: Operations \cup {Nobody},
          saved: Operations \cup {Nobody}]
    /\ tree \in [head: {"absent", "attached", "detached"}, marker: BOOLEAN]
    /\ server \in [serving: BOOLEAN, recovering: SUBSET Operations]
    /\ spent \in [edits: 0 .. MaxEdits, faults: 0 .. MaxFaults, crashes: 0 .. MaxCrashes]
    /\ launches \in [Operations -> Nat]

(* A board with no card, an unstarted card, a started card in Review whose
   worktree holds its branch, or one in Trash whose branch was released. *)
Init ==
    /\ \E card \in {<<"none", FALSE, "absent">>, <<"review", TRUE, "absent">>,
                    <<"review", FALSE, "attached">>, <<"trash", FALSE, "detached">>} :
          /\ board = [column |-> card[1], unstarted |-> card[2], pinned |-> FALSE,
                      revision |-> 1]
          /\ tree = [head |-> card[3], marker |-> card[1] = "trash"]
    /\ receipts = [o \in Operations |-> [s \in Steps |-> "none"]]
    /\ journal = [o \in Operations |-> Absent]
    /\ exec = [o \in Operations |-> Idle]
    /\ session = [process |-> Nobody, live |-> Nobody, saved |-> Nobody]
    /\ server = [serving |-> TRUE, recovering |-> {}]
    /\ spent = [edits |-> 0, faults |-> 0, crashes |-> 0]
    /\ launches = [o \in Operations |-> 0]

-----------------------------------------------------------------------------
(* Moving between stages.  A failure spends the bound on faults. *)

Go(o, stage) == exec' = [exec EXCEPT ![o].at = stage]
GoWarned(o, stage) == exec' = [exec EXCEPT ![o].at = stage, ![o].warned = TRUE]
End(o, outcome) ==
    exec' = [exec EXCEPT ![o] = [Idle EXCEPT !.at = "finish", !.outcome = outcome,
                                             !.warned = exec[o].warned /\ outcome \in Succeeded]]

Fault ==
    /\ spent.faults < MaxFaults
    /\ spent' = [spent EXCEPT !.faults = @ + 1]

(* The move of an operation and the move that compensates it. *)
Source(o) == CASE Kind(o) \in Starts -> "review"
               [] Kind(o) = "restore" -> "trash"
               [] OTHER -> journal[o].source
Target(o) == CASE Kind(o) \in Starts -> "in_progress"
               [] Kind(o) = "restore" -> "review"
               [] OTHER -> "trash"

-----------------------------------------------------------------------------
(* Board steps: executeBoard and the receipts of the board command service. *)

(* What the reducer does with a step, and whether it changes the board. *)
Card(o, step) ==
    CASE step = "create" -> [board EXCEPT !.column = "review", !.unstarted = TRUE]
      [] step = "move" -> [board EXCEPT !.column = Target(o),
                                        !.unstarted = @ /\ Kind(o) \notin Starts]
      [] step = "compensate" -> [board EXCEPT !.column = Source(o),
                                              !.unstarted = @ \/ Kind(o) \in Starts]
      [] step = "delete" -> [board EXCEPT !.column = "none", !.unstarted = FALSE,
                                          !.pinned = FALSE]

Changes(o, step) ==
    CASE step = "create" -> board.column = "none"
      [] step = "move" -> /\ board.column = Source(o)
                          /\ Kind(o) \in Starts => board.unstarted
      [] step = "compensate" -> board.column = Target(o)
      [] step = "delete" -> /\ board.column # "none"
                            /\ ~(board.column = "trash" /\ board.pinned)

Replayed(o, step) == receipts[o][step] # "none"
Conflicts(o, step) == ~Replayed(o, step) /\ exec[o].base # board.revision
MutantAccepted(o, step) == Replayed(o, step) \/ Changes(o, step)
Accepted(o, step) ==
    IF Replayed(o, step) THEN receipts[o][step] = "accepted" ELSE Changes(o, step)

(* A first-seen command takes a revision even when it changes nothing. *)
Commit(o, step) ==
    IF Replayed(o, step) THEN UNCHANGED <<board, receipts>>
    ELSE /\ board' = [(IF Changes(o, step) THEN Card(o, step) ELSE board)
                        EXCEPT !.revision = @ + 1]
         /\ receipts' = [receipts EXCEPT ![o][step] =
                           IF Changes(o, step) THEN "accepted" ELSE "rejected"]

(* What executeBoardWithSemanticRebase demands of the loaded board before it
   tries a step again.  The identity of an operation's card never changes. *)
MutantMayRebase(o, step) ==
    /\ Kind(o) # "trash"
    /\ IF step = "delete" THEN board.column = "trash" ELSE Changes(o, step)
MayRebase(o, step) ==
    /\ Kind(o) # "trash"
    /\ exec[o].rebases < MaxRebases
    /\ IF step = "delete" THEN board.column = "trash" ELSE Changes(o, step)

-----------------------------------------------------------------------------
(* Admission: one pending operation per task.  Operations are begun from the
   revision the client last saw. *)

Start(o, j) ==
    exec' = [exec EXCEPT ![o] = [Idle EXCEPT !.base = j.expected,
        !.at = IF j.kind = "create_and_start" THEN "create" ELSE "validate"]]

Begin(o, kind, source, expected) ==
    LET j == [Absent EXCEPT !.status = "pending", !.kind = kind, !.source = source,
                            !.expected = expected] IN
    /\ server.serving
    /\ journal[o].status = "absent"
    /\ \A p \in Operations : p < o => journal[p].status # "absent"
    /\ \A p \in Operations : ~Pending(p)               \* ProjectTaskLifecycleBusyError
    /\ source # "review" => kind = "trash"
    /\ kind = "create_and_start" => board.column = "none" /\ board.revision = 1
    /\ expected \in {board.revision, board.revision - 1} \cap Nat
    /\ journal' = [journal EXCEPT ![o] = j]
    /\ Start(o, j)
    /\ UNCHANGED <<board, receipts, session, tree, server, spent, launches>>

(* The client repeats an operation whose finish could not be written. *)
Resubmit(o) ==
    /\ server.serving
    /\ Pending(o)
    /\ At(o, "idle")
    /\ Start(o, journal[o])
    /\ UNCHANGED <<board, receipts, journal, session, tree, server, spent, launches>>

-----------------------------------------------------------------------------
(* Stages up to the board transition. *)

(* The answer of validateTaskIdentity or validateTask, and the next stage.
   A delete that was at its last step when the runtime exited looks for its
   receipt instead of the card. *)
Validated(o) ==
    IF board.column = "none"
    THEN IF journal[o].deleting THEN "delete" ELSE "stale_task"
    ELSE CASE Kind(o) \in {"start", "trash", "restore"} -> "move"
           [] Kind(o) \in {"restart", "stop"} ->
                IF board.column = "trash" \/ board.unstarted
                THEN "invalid_transition" ELSE "stop"
           [] Kind(o) = "delete" ->
                IF board.column # "trash" \/ board.pinned
                THEN "invalid_transition" ELSE "stop"

Validate(o) ==
    /\ At(o, "validate")
    /\ IF Validated(o) \in Outcomes THEN End(o, Validated(o)) ELSE Go(o, Validated(o))
    /\ UNCHANGED <<board, receipts, journal, session, tree, server, spent, launches>>

(* ProjectStateConflictError: reload and try again, or give up. *)
Conflict(o, step) ==
    /\ At(o, step)
    /\ Conflicts(o, step)
    /\ IF MayRebase(o, step)
       THEN exec' = [exec EXCEPT ![o].base = board.revision, ![o].rebases = @ + 1]
       ELSE End(o, "revision_conflict")
    /\ UNCHANGED <<board, receipts, journal, session, tree, server, spent, launches>>

(* The move that follows is expected at the revision the creation left. *)
CreateCard(o) ==
    /\ At(o, "create")
    /\ ~Conflicts(o, "create")
    /\ Commit(o, "create")
    /\ IF Accepted(o, "create")
       THEN exec' = [exec EXCEPT ![o].at = "move", ![o].base = board'.revision,
                                 ![o].rebases = 0]
       ELSE End(o, "invalid_transition")
    /\ UNCHANGED <<journal, session, tree, server, spent, launches>>

MoveCard(o) ==
    /\ At(o, "move")
    /\ ~Conflicts(o, "move")
    /\ Commit(o, "move")
    /\ IF Accepted(o, "move")
       THEN exec' = [exec EXCEPT ![o] = [Idle EXCEPT !.at = "accepted",
                                            !.replayed = Replayed(o, "move")]]
       ELSE End(o, "invalid_transition")
    /\ UNCHANGED <<journal, session, tree, server, spent, launches>>

-----------------------------------------------------------------------------
(* Stages after the board transition. *)

(* completeWithSummary: a restore first consumes the branch Trash saved. *)
Succeed(o, outcome) ==
    IF Kind(o) = "restore"
    THEN exec' = [exec EXCEPT ![o].at = "consume", ![o].outcome = outcome]
    ELSE End(o, IF exec[o].warned THEN "completed_with_warning" ELSE outcome)

MutantInterrupted(o) == FALSE

(* A start whose move is only replayed was interrupted before its launch: it
   is taken back, never launched again. *)
Interrupted(o) == exec[o].replayed

AfterMove(o) ==
    /\ At(o, "accepted")
    /\ CASE Kind(o) = "trash" -> exec' = [exec EXCEPT ![o] = [Idle EXCEPT !.at = "stop"]]
         [] Kind(o) # "trash" /\ Launched(o) -> Succeed(o, "already_applied")
         [] Kind(o) = "restore" /\ ~Launched(o) ->
              exec' = [exec EXCEPT ![o] = [Idle EXCEPT !.at = "stop"]]
         [] Kind(o) \in Starts /\ ~Launched(o) ->
              exec' = [exec EXCEPT ![o] = IF Interrupted(o)
                  THEN [Idle EXCEPT !.at = "look", !.outcome = "superseded"]
                  ELSE [Idle EXCEPT !.at = "ensure"]]
    /\ UNCHANGED <<board, receipts, journal, session, tree, server, spent, launches>>

AfterStop(o) ==
    CASE Kind(o) = "trash" -> "save_branch"
      [] Kind(o) = "restore" -> "reattach"
      [] Kind(o) = "restart" -> "ensure"
      [] Kind(o) = "stop" -> "finish"
      [] Kind(o) = "delete" -> "purge"

(* stopTaskAndDetailShell, and the phase written before it. *)
Stop(o) ==
    /\ At(o, "stop")
    /\ session' = [session EXCEPT !.process = Nobody]
    /\ IF Kind(o) = "stop" THEN End(o, "completed") ELSE Go(o, AfterStop(o))
    /\ journal' = [journal EXCEPT ![o].deleting = FALSE]
    /\ UNCHANGED <<board, receipts, tree, server, spent, launches>>

(* The agent does not stop, or the agent does and its detail shell does not. *)
StopFails(o) ==
    /\ At(o, "stop")
    /\ Fault
    /\ \E survivor \in {session.process, Nobody} :
          session' = [session EXCEPT !.process = survivor]
    /\ exec' = [exec EXCEPT ![o].outcome = "stop_failed",
                   ![o].at = IF Kind(o) \in {"trash", "restore"} THEN "look" ELSE "finish"]
    /\ journal' = [journal EXCEPT ![o].deleting = FALSE]
    /\ UNCHANGED <<board, receipts, tree, server, launches>>

(* The worktree is created if it is missing.  A restore also reattaches the
   branch that Trash saved, or warns; the restore of an unstarted card ends
   there. *)
Reattach(o) ==
    /\ At(o, "reattach")
    /\ \/ /\ tree' = [tree EXCEPT !.head =
                         IF tree.head = "absent"
                         THEN IF board.unstarted THEN "absent" ELSE "attached"
                         ELSE IF tree.marker THEN "attached" ELSE @]
          /\ UNCHANGED spent
          /\ exec' = [exec EXCEPT ![o].at = IF board.unstarted THEN "consume" ELSE "launch",
                                  ![o].outcome = "completed"]
       \/ /\ tree.head = "detached" /\ tree.marker
          /\ Fault
          /\ exec' = [exec EXCEPT ![o].at = IF board.unstarted THEN "consume" ELSE "launch",
                                  ![o].outcome = "completed", ![o].warned = TRUE]
          /\ UNCHANGED tree
       \/ /\ ~board.unstarted
          /\ Fault
          /\ exec' = [exec EXCEPT ![o].at = "look", ![o].outcome = "worktree_failed"]
          /\ UNCHANGED tree
    /\ UNCHANGED <<board, receipts, journal, session, server, launches>>

(* consumeRestoreOrigin *)
Consume(o) ==
    /\ At(o, "consume")
    /\ \/ /\ tree' = [tree EXCEPT !.marker = FALSE]
          /\ End(o, IF exec[o].warned THEN "completed_with_warning" ELSE exec[o].outcome)
          /\ UNCHANGED spent
       \/ /\ tree.marker
          /\ Fault
          /\ exec' = [exec EXCEPT ![o].at = "finish", ![o].warned = TRUE,
                                  ![o].outcome = "completed_with_warning"]
          /\ UNCHANGED tree
    /\ UNCHANGED <<board, receipts, journal, session, server, launches>>

(* ensureTaskWorktree of launchOrCompensate: no branch is reattached here. *)
Ensure(o) ==
    /\ At(o, "ensure")
    /\ \/ /\ tree' = [tree EXCEPT !.head = IF @ = "absent" THEN "attached" ELSE @]
          /\ Go(o, "launch")
          /\ UNCHANGED spent
       \/ /\ Fault
          /\ Go(o, "failed")
          /\ UNCHANGED tree
    /\ UNCHANGED <<board, receipts, journal, session, server, launches>>

(* prepareTaskSessionStart reads the durable board again under the task's
   lock. *)
MayLaunch == board.column \in {"review", "in_progress"} /\ ~board.unstarted

Refuse(o) ==
    /\ At(o, "launch")
    /\ ~MayLaunch
    /\ Go(o, "failed")
    /\ UNCHANGED <<board, receipts, journal, session, tree, server, spent, launches>>

(* The process runs; its answer may still be lost. *)
Launch(o) ==
    /\ At(o, "launch")
    /\ MayLaunch
    /\ session' = [session EXCEPT !.process = o, !.live = o]
    /\ launches' = [launches EXCEPT ![o] = @ + 1]
    /\ \/ Succeed(o, "completed") /\ UNCHANGED spent
       \/ Go(o, "failed") /\ Fault
    /\ UNCHANGED <<board, receipts, journal, tree, server>>

LaunchFails(o) ==
    /\ At(o, "launch")
    /\ MayLaunch
    /\ Fault
    /\ Go(o, "failed")
    /\ UNCHANGED <<board, receipts, journal, session, tree, server, launches>>

(* The catch of launchOrCompensate, and handleLaunchFailure. *)
AfterFailure(o) ==
    /\ At(o, "failed")
    /\ CASE Launched(o) -> Succeed(o, "already_applied")
         [] ~Launched(o) /\ Kind(o) = "restart" -> End(o, "session_start_failed")
         [] ~Launched(o) /\ Kind(o) # "restart" ->
              exec' = [exec EXCEPT ![o] =
                         [Idle EXCEPT !.at = "look", !.outcome = "session_start_failed"]]
    /\ UNCHANGED <<board, receipts, journal, session, tree, server, spent, launches>>

-----------------------------------------------------------------------------
(* Compensation: compensateMove looks, then commits at the revision it saw. *)

MayCompensate(o) == board.column = Target(o) /\ ~Launched(o)

Uncompensated(o) ==
    End(o, IF exec[o].outcome = "stop_failed" THEN "stop_failed" ELSE "compensation_failed")

Look(o) ==
    /\ At(o, "look")
    /\ IF MayCompensate(o)
       THEN exec' = [exec EXCEPT ![o].at = "compensate", ![o].base = board.revision]
       ELSE Uncompensated(o)
    /\ UNCHANGED <<board, receipts, journal, session, tree, server, spent, launches>>

Compensate(o) ==
    /\ At(o, "compensate")
    /\ IF Conflicts(o, "compensate") THEN Uncompensated(o) /\ UNCHANGED <<board, receipts>>
       ELSE /\ Commit(o, "compensate")
            /\ IF ~Accepted(o, "compensate") THEN Uncompensated(o)
               ELSE IF Kind(o) = "restore" /\ exec[o].outcome = "session_start_failed"
               THEN Go(o, "stop_again")
               ELSE Go(o, "finish")
    /\ UNCHANGED <<journal, session, tree, server, spent, launches>>

(* A restore that is back in Trash stops the task and releases its branch. *)
StopAgain(o) ==
    /\ At(o, "stop_again")
    /\ \/ /\ session' = [session EXCEPT !.process = Nobody]
          /\ Go(o, "save_branch")
          /\ UNCHANGED spent
       \/ /\ Fault
          /\ GoWarned(o, "finish")
          /\ UNCHANGED session
    /\ UNCHANGED <<board, receipts, journal, tree, server, launches>>

(* archiveTaskWorktreeForTrash: the branch is saved durably, then HEAD is
   detached.  A detached or missing worktree has nothing to release. *)
Released(o) == IF Kind(o) = "trash" THEN End(o, "completed") ELSE Go(o, "finish")
ReleaseFails(o) ==
    /\ Fault
    /\ exec' = [exec EXCEPT ![o].at = "finish", ![o].warned = TRUE,
           ![o].outcome = IF Kind(o) = "trash" THEN "completed_with_warning" ELSE @]
    /\ UNCHANGED tree

SaveBranch(o) ==
    /\ At(o, "save_branch")
    /\ \/ /\ tree.head = "attached"
          /\ tree' = [tree EXCEPT !.marker = TRUE]
          /\ Go(o, "detach")
          /\ UNCHANGED spent
       \/ /\ tree.head # "attached"
          /\ Released(o)
          /\ UNCHANGED <<tree, spent>>
       \/ tree.head = "attached" /\ ReleaseFails(o)
    /\ UNCHANGED <<board, receipts, journal, session, server, launches>>

Detach(o) ==
    /\ At(o, "detach")
    /\ \/ /\ tree' = [tree EXCEPT !.head = "detached"]
          /\ Released(o)
          /\ UNCHANGED spent
       \/ ReleaseFails(o)
    /\ UNCHANGED <<board, receipts, journal, session, server, launches>>

-----------------------------------------------------------------------------
(* Permanent deletion. *)

Purge(o) ==
    /\ At(o, "purge")
    /\ \/ /\ tree' = [head |-> "absent", marker |-> FALSE]
          /\ Go(o, "mark_deleting")
          /\ UNCHANGED spent
       \/ /\ Fault
          /\ End(o, "worktree_failed")
          /\ UNCHANGED tree
    /\ UNCHANGED <<board, receipts, journal, session, server, launches>>

MutantMarkDeleting(o) ==
    /\ At(o, "mark_deleting")
    /\ Go(o, "delete")
    /\ UNCHANGED <<board, receipts, journal, session, tree, server, spent, launches>>

MarkDeleting(o) ==
    /\ At(o, "mark_deleting")
    /\ journal' = [journal EXCEPT ![o].deleting = TRUE]
    /\ Go(o, "delete")
    /\ UNCHANGED <<board, receipts, session, tree, server, spent, launches>>

DeleteCard(o) ==
    /\ At(o, "delete")
    /\ ~Conflicts(o, "delete")
    /\ Commit(o, "delete")
    /\ End(o, IF Accepted(o, "delete") \/ board'.column = "none"
              THEN IF Replayed(o, "delete") THEN "already_applied" ELSE "completed"
              ELSE "invalid_transition")
    /\ UNCHANGED <<journal, session, tree, server, spent, launches>>

-----------------------------------------------------------------------------
(* The end of an operation, and writes of the journal that fail. *)

Finish(o) ==
    /\ At(o, "finish")
    /\ journal' = [journal EXCEPT ![o].status = "done", ![o].outcome = exec[o].outcome,
                                  ![o].warned = exec[o].warned, ![o].deleting = FALSE,
                                  ![o].expected = 0, ![o].source = "review"]
    /\ exec' = [exec EXCEPT ![o] = Idle]
    /\ UNCHANGED <<board, receipts, session, tree, server, spent, launches>>

(* setPhase, recordBoardAccepted or finish throws: executeOnce ends the
   operation with internal_error and leaves what it did in place. *)
PhaseWriteFails(o) ==
    /\ exec[o].at \in {"create", "move", "accepted", "stop", "reattach", "look", "purge",
                       "mark_deleting", "finish"}
    /\ exec[o].outcome # "internal_error"
    /\ At(o, "reattach") => ~board.unstarted
    /\ Fault
    /\ End(o, "internal_error")
    /\ UNCHANGED <<board, receipts, journal, session, tree, server, launches>>

(* Neither the outcome nor internal_error can be written: the operation stays
   pending with nobody running it. *)
FinishWriteFails(o) ==
    /\ At(o, "finish")
    /\ Fault
    /\ exec' = [exec EXCEPT ![o] = Idle]
    /\ UNCHANGED <<board, receipts, journal, session, tree, server, launches>>

-----------------------------------------------------------------------------
(* Clients and the runtime around the operations. *)

Edit ==
    /\ spent.edits < MaxEdits
    /\ spent' = [spent EXCEPT !.edits = @ + 1]

(* A commit about another task. *)
UnrelatedCommit ==
    /\ Edit
    /\ board' = [board EXCEPT !.revision = @ + 1]
    /\ UNCHANGED <<receipts, journal, exec, session, tree, server, launches>>

(* update_task: assertTaskPinsAllowedUnderLock refuses a pin while a deletion
   is pending. *)
MutantPinAllowed == TRUE
PinAllowed == \A o \in Operations : ~(Pending(o) /\ Kind(o) = "delete")
TogglePin ==
    /\ server.serving
    /\ board.column # "none"
    /\ ~board.pinned => PinAllowed
    /\ Edit
    /\ board' = [board EXCEPT !.pinned = ~@, !.revision = @ + 1]
    /\ UNCHANGED <<receipts, journal, exec, session, tree, server, launches>>

(* The board move a client may still make itself: In Progress to Review. *)
ClientMove ==
    /\ server.serving
    /\ board.column = "in_progress"
    /\ Edit
    /\ board' = [board EXCEPT !.column = "review", !.revision = @ + 1]
    /\ UNCHANGED <<receipts, journal, exec, session, tree, server, launches>>

(* reconcileRuntimeSessions: the summaries are saved, and a started card
   follows its session between the two work columns. *)
PersistSessions ==
    /\ session.live # Nobody
    /\ session' = [session EXCEPT !.saved = session.live]
    /\ \/ session.saved # session.live /\ UNCHANGED <<board, spent>>
       \/ /\ board.column \in {"review", "in_progress"} /\ ~board.unstarted
          /\ Edit
          /\ board' = [board EXCEPT !.revision = @ + 1,
                  !.column = IF @ = "review" THEN "in_progress" ELSE "review"]
    /\ UNCHANGED <<receipts, journal, exec, tree, server, launches>>

ProcessExits ==
    /\ session.process # Nobody
    /\ session' = [session EXCEPT !.process = Nobody]
    /\ UNCHANGED <<board, receipts, journal, exec, tree, server, spent, launches>>

Crash ==
    /\ spent.crashes < MaxCrashes
    /\ spent' = [spent EXCEPT !.crashes = @ + 1]
    /\ exec' = [o \in Operations |-> Idle]
    /\ session' = [session EXCEPT !.process = Nobody, !.live = session.saved]
    /\ server' = [serving |-> FALSE, recovering |-> {o \in Operations : Pending(o)}]
    /\ UNCHANGED <<board, receipts, journal, tree, launches>>

(* recover: each pending operation is executed once before requests are
   served. *)
Recover(o) ==
    /\ ~server.serving
    /\ o \in server.recovering
    /\ \A p \in Operations : At(p, "idle")
    /\ server' = [server EXCEPT !.recovering = @ \ {o}]
    /\ Start(o, journal[o])
    /\ UNCHANGED <<board, receipts, journal, session, tree, spent, launches>>

(* A project whose folder is unavailable is not recovered, nor is an operation
   whose attempt cannot be counted; at most one is pending. *)
SkipRecovery ==
    /\ server.recovering # {}
    /\ Fault
    /\ server' = [server EXCEPT !.recovering = {}]
    /\ UNCHANGED <<board, receipts, journal, exec, session, tree, launches>>

MutantServe ==
    /\ ~server.serving
    /\ \A o \in Operations : ~Pending(o)
    /\ server' = [server EXCEPT !.serving = TRUE]
    /\ UNCHANGED <<board, receipts, journal, exec, session, tree, spent, launches>>

Serve ==
    /\ ~server.serving
    /\ server.recovering = {}
    /\ \A o \in Operations : At(o, "idle")
    /\ server' = [server EXCEPT !.serving = TRUE]
    /\ UNCHANGED <<board, receipts, journal, exec, session, tree, spent, launches>>

-----------------------------------------------------------------------------
Run(o) ==
    \/ Validate(o) \/ CreateCard(o) \/ MoveCard(o) \/ AfterMove(o)
    \/ \E step \in {"create", "move", "delete"} : Conflict(o, step)
    \/ Stop(o) \/ Reattach(o) \/ Consume(o) \/ Ensure(o)
    \/ Refuse(o) \/ Launch(o) \/ AfterFailure(o)
    \/ Look(o) \/ Compensate(o) \/ StopAgain(o) \/ SaveBranch(o) \/ Detach(o)
    \/ Purge(o) \/ MarkDeleting(o) \/ DeleteCard(o) \/ Finish(o)

Faults(o) == StopFails(o) \/ LaunchFails(o) \/ PhaseWriteFails(o) \/ FinishWriteFails(o)

Request(o) ==
    \/ Resubmit(o)
    \/ \E kind \in Kinds, source \in {"review", "in_progress"}, expected \in 0 .. board.revision :
          Begin(o, kind, source, expected)

Around ==
    \/ UnrelatedCommit \/ TogglePin \/ ClientMove \/ PersistSessions \/ ProcessExits
    \/ Crash \/ SkipRecovery \/ Serve

Next == Around \/ \E o \in Operations : Run(o) \/ Faults(o) \/ Request(o) \/ Recover(o)

Spec == Init /\ [][Next]_vars

(* The runtime takes the steps of what it started, and its start-up goes on;
   nothing is promised of clients, faults or crashes. *)
FairSpec ==
    /\ Spec
    /\ \A o \in Operations : WF_vars(Run(o)) /\ WF_vars(Recover(o))
    /\ WF_vars(Serve)

-----------------------------------------------------------------------------
(* Properties. *)

Done(o) == journal[o].status = "done"

(* No later operation has begun. *)
Latest(o) == Done(o) /\ \A p \in Operations : p > o => journal[p].status = "absent"

(* An operation that starts a task launches at most one process, whatever is
   lost, crashed, replayed or submitted again; and however a start is
   interrupted, answered late or taken back, a card that is marked unstarted
   has no process. *)
StartsLaunchOnce ==
    /\ \A o \in Operations : Kind(o) \in Starts => launches[o] <= 1
    /\ board.unstarted => session.process = Nobody

SuccessIsReal ==
    \A o \in Operations :
        Latest(o) /\ journal[o].outcome \in Succeeded /\ receipts[o]["compensate"] = "none" =>
            CASE Kind(o) = "trash" -> /\ board.column = "trash"
                                      /\ session.process = Nobody
                                      /\ tree.head = "attached" => journal[o].warned
              [] Kind(o) = "restore" -> board.column \in {"review", "in_progress"}
              [] Kind(o) = "delete" -> /\ board.column = "none"
                                       /\ tree.head = "absent"
                                       /\ session.process = Nobody
              [] Kind(o) = "stop" -> session.process = Nobody
              [] OTHER -> board.column # "trash" /\ ~board.unstarted

FailedStartIsTakenBack ==
    \A o \in Operations :
        Latest(o) /\ Kind(o) \in Starts
            /\ journal[o].outcome \in {"superseded", "session_start_failed"} =>
                board.column = "review" /\ board.unstarted

(* What an operation reported is still what the board, the process and the
   worktree say, until another operation begins; a start that it reports as
   taken back left an unstarted card in Review.  (A trash or restore that was
   compensated before a restart is the subject of a run of its own.) *)
OutcomeIsReal == SuccessIsReal /\ FailedStartIsTakenBack

(* A deletion that happened is not denied after a restart. *)
DeletionIsConfirmed ==
    \A o \in Operations :
        Done(o) /\ receipts[o]["delete"] = "accepted" =>
            journal[o].outcome \in Succeeded \cup {"internal_error"}

(* A workspace is removed only when its card is in Trash, not pinned, and
   nothing runs in it; the card is removed only after its workspace. *)
DeletionIsOrderly ==
    [][/\ tree.head # "absent" /\ tree'.head = "absent" =>
            board.column = "trash" /\ ~board.pinned /\ session.process = Nobody
       /\ board.column # "none" /\ board'.column = "none" =>
            tree.head = "absent" /\ ~board.pinned]_vars

(* Operations end and start-up ends: the runtime always comes back to serving
   with nothing running, whatever recovery finds. *)
RuntimeSettles == []<>(server.serving /\ \A o \in Operations : At(o, "idle"))

(* A branch is released only for a card that is in Trash. *)
BranchReleasedInTrash ==
    [][tree.head = "attached" /\ tree'.head = "detached" => board.column = "trash"]_vars
=============================================================================
