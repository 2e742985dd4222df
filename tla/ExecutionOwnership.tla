------------------------- MODULE ExecutionOwnership -------------------------
(***************************************************************************)
(* Who may write to one task's provider session: the native terminal or    *)
(* the structured runner (execution/task-execution-ownership-service.ts,   *)
(* state/project-execution-ownership-store.ts), over the terminal manager  *)
(* (terminal/) and the registry of structured owners.                      *)
(*                                                                         *)
(* The operations of a task run one at a time, a step per await; the       *)
(* events of structured owners join the same queue in the order they were  *)
(* raised.  Processes exit, native turns are reported, native owners are   *)
(* observed and the terminal restarts a crashed agent outside that queue.  *)
(* The journal survives a crash of the runtime; the rest does not.         *)
(***************************************************************************)
EXTENDS Integers, Sequences, FiniteSets

CONSTANTS
    Handoffs,       \* operation identities of handoffs
    Survivors,      \* which structured processes may outlive their runtime
    MaxInstances,   \* bound: processes launched
    MaxCrashes,     \* bound: crashes of the runtime
    MaxRestarts,    \* bound: automatic restarts of a crashed native agent
    MaxEvents       \* bound: queued events beyond which no turn starts

ASSUME BoundAssumption ==
    /\ {MaxInstances, MaxCrashes, MaxRestarts, MaxEvents} \subseteq Nat
    /\ MaxCrashes <= MaxInstances   \* every recovery may launch a process
ASSUME SurvivorsAssumption == Survivors \in {"none", "recorded"}
ASSUME HandoffsAssumption == {"none", "restart"} \cap Handoffs = {}

VARIABLES
    own,        \* the task's record in execution-ownership.json
    receipts,   \* per handoff: its receipt in the same file
    native,     \* the terminal manager's active process for the task
    restart,    \* whether an automatic restart is on its way
    owner,      \* the structured owner in the registry
    turn,       \* that owner's turn: "no", "starting" or "yes"
    alive,      \* structured processes that can write
    planned,    \* structured stops that were asked for and timed out
    events,     \* owner events queued behind the running operation
    op,         \* the operation that holds the task's queue
    observer,   \* a native observation between its read and its write
    launched, crashes, restarts   \* spent bounds

journal == <<own, receipts>>
processes == <<native, restart, owner, turn, alive, planned, launched>>
rest == <<crashes, restarts>>
vars == <<journal, processes, events, op, observer, rest>>

NoProcess == [kind |-> "none", inst |-> 0]
Pty(i) == [kind |-> "pty", inst |-> i]
Structured(i) == [kind |-> "structured", inst |-> i]
NoOwner == [inst |-> 0, gen |-> 0]
NoNative == [inst |-> 0, turn |-> "none", stopping |-> FALSE]
Native(i) == [NoNative EXCEPT !.inst = i]
Absent == [state |-> "absent", gen |-> 0, inst |-> 0, proc |-> NoProcess,
           turn |-> FALSE, pending |-> "none", failure |-> "none"]
NoReceipt == [status |-> "none", target |-> "none", gen |-> 0]
Receipt(status, target, gen) == [status |-> status, target |-> target, gen |-> gen]
Idle == [kind |-> "none", at |-> "done", id |-> "none", gen |-> 0, inst |-> 0,
         new |-> 0, running |-> FALSE, unknown |-> FALSE]
NoObservation == [inst |-> 0, existing |-> Absent]

PendingStates == {"handoff_to_structured_pending", "handoff_to_native_pending"}
Free == op.kind = "none"
NativeAllowed == own.state \in {"absent", "native_tui"} /\ owner.inst = 0

\* Instances left when every operation and recovery to come has its own.
Spare == MaxInstances - launched - (MaxCrashes - crashes) - (IF Free THEN 0 ELSE 1)

Init ==
    /\ own = Absent /\ receipts = [h \in Handoffs |-> NoReceipt]
    /\ native = NoNative /\ restart = FALSE
    /\ owner = NoOwner /\ turn = "no" /\ alive = {} /\ planned = {}
    /\ events = <<>> /\ op = Idle /\ observer = NoObservation
    /\ launched = 0 /\ crashes = 0 /\ restarts = 0

-----------------------------------------------------------------------------
(* The native terminal, outside the queue unless a client asks for it.     *)

LaunchInstance == launched' = launched + 1

\* A client starts the native agent: refused unless the record allows it.
StartNative ==
    /\ Free /\ NativeAllowed /\ native.inst = 0 /\ Spare > 0
    /\ LaunchInstance /\ native' = Native(launched')
    /\ UNCHANGED <<journal, restart, owner, turn, alive, planned, events, op, observer, rest>>

\* Input reaches the terminal from the queue, and only while it owns the task.
NativePrompt ==
    /\ Free /\ NativeAllowed /\ native.inst # 0 /\ native.turn = "none"
    /\ native' = [native EXCEPT !.turn = "submitted"]
    /\ UNCHANGED <<journal, restart, owner, turn, alive, planned, launched, events, op, observer, rest>>

\* Hooks report the turn: the session runs, then waits for review.
NativeReports ==
    /\ \/ native.turn = "submitted" /\ native' = [native EXCEPT !.turn = "reported"]
       \/ native.turn # "none" /\ native' = [native EXCEPT !.turn = "none"]
    /\ UNCHANGED <<journal, restart, owner, turn, alive, planned, launched, events, op, observer, rest>>

\* The process exits by itself; a running session may be restarted.
NativeExits ==
    /\ native.inst # 0
    /\ native' = NoNative
    /\ \/ UNCHANGED <<restart, restarts>>
       \/ /\ native.turn = "reported" /\ ~native.stopping /\ ~restart
          /\ restarts < MaxRestarts
          /\ restart' = TRUE /\ restarts' = restarts + 1
    /\ UNCHANGED <<journal, owner, turn, alive, planned, launched, events, op, observer, crashes>>

\* The restart waits for project admission, not for the task's queue; it asks
\* neither the journal nor the registry.
AutoRestart ==
    /\ restart /\ restart' = FALSE
    /\ IF native.inst = 0 /\ Spare > 0
       THEN LaunchInstance /\ native' = Native(launched')
       ELSE UNCHANGED <<launched, native>>
    /\ UNCHANGED <<journal, owner, turn, alive, planned, events, op, observer, rest>>

Recorded == own.proc = Pty(native.inst) /\ own.inst = native.inst

\* What an observation of native process i makes of record o.
ObservedRecord(o, i) ==
    [state |-> "native_tui", gen |-> IF o.state = "absent" THEN 0 ELSE o.gen + 1,
     inst |-> i, proc |-> Pty(i), turn |-> FALSE, pending |-> "none", failure |-> "none"]

ObserveBegins ==
    /\ observer = NoObservation /\ native.inst # 0
    /\ own.state \in {"absent", "native_tui"} /\ ~Recorded
    /\ observer' = [inst |-> native.inst, existing |-> own]
    /\ UNCHANGED <<journal, processes, events, op, rest>>

\* putOwnershipIfCurrent: written only if the process is still the same and
\* the record is the one that was read.
ObserveEnds ==
    /\ observer # NoObservation /\ observer' = NoObservation
    /\ own' = IF native.inst = observer.inst /\ own = observer.existing
              THEN ObservedRecord(own, observer.inst) ELSE own
    /\ UNCHANGED <<receipts, processes, events, op, rest>>

-----------------------------------------------------------------------------
(* Steps shared by the operations.                                         *)

Begin(kind, at, id) ==
    op' = [Idle EXCEPT !.kind = kind, !.at = at, !.id = id, !.gen = own.gen,
                       !.inst = own.inst, !.unknown = (own.failure = "unknown")]

Go(at) == op' = [op EXCEPT !.at = at]
Finish == op' = Idle

\* finishKnown: settles the receipt of the handoff, when there is one.
Settle(id, status) ==
    receipts' = [h \in Handoffs |->
        IF h = id /\ receipts[h].status # "none"
        THEN [receipts[h] EXCEPT !.status = status] ELSE receipts[h]]

\* The operation fails: its handoff is settled, the record keeps its state.
FailOperation ==
    /\ op.at = "failing"
    /\ own' = [own EXCEPT !.failure = "start_failed"]
    /\ Settle(op.id, "failed") /\ Finish
    /\ UNCHANGED <<processes, events, observer, rest>>

\* A process is gone; the registry's owner raises its exit, and whether it was
\* asked for is settled then.
OwnerExits(i, intended) ==
    /\ alive' = alive \ {i}
    /\ IF owner.inst = i
       THEN /\ owner' = NoOwner /\ turn' = "no" /\ planned' = planned \ {i}
            /\ events' = Append(events, [type |-> "exit", inst |-> i, gen |-> owner.gen,
                                         unknown |-> turn # "no", intended |-> intended])
       ELSE UNCHANGED <<owner, turn, planned, events>>

\* A structured process exits by itself.
StructuredExits ==
    /\ \E i \in alive : OwnerExits(i, i \in planned)
    /\ UNCHANGED <<journal, native, restart, launched, op, observer, rest>>

TurnEvent(type) ==
    [type |-> type, inst |-> owner.inst, gen |-> owner.gen, unknown |-> FALSE, intended |-> FALSE]

-----------------------------------------------------------------------------
(* Handoff to the structured runner.                                       *)

Expected == {own.gen, own.gen + 1}   \* what the client thinks the generation is

\* The first look: the native process and whether its session runs.
BeginToStructured(h) ==
    /\ Free /\ receipts[h].status = "none" /\ Spare > 0
    /\ \E g \in Expected :
          op' = [Idle EXCEPT !.kind = "to_structured", !.at = "checking", !.id = h, !.gen = g,
                             !.inst = native.inst, !.running = (native.turn = "reported")]
    /\ UNCHANGED <<journal, processes, events, observer, rest>>

\* The record the checks are made against: observed first, if it is native.
Observed ==
    IF own.state \in {"absent", "native_tui"} /\ op.inst # 0 /\ native.inst # 0 /\ ~Recorded
    THEN ObservedRecord(own, native.inst) ELSE own

MayHandOver(o) ==
    /\ o.gen = op.gen /\ o.state = "native_tui"
    /\ ~op.running /\ ~o.turn
    /\ op.inst # 0 /\ op.inst = o.inst
    /\ \A h \in Handoffs : receipts[h].status # "pending"

\* The checks, beginHandoff and the record's move to pending; or a refusal,
\* which leaves at most the observation and an "already applied" receipt.
RecordToStructured ==
    /\ op.kind = "to_structured" /\ op.at = "checking"
    /\ \/ /\ MayHandOver(Observed)
          /\ own' = [Observed EXCEPT !.state = "handoff_to_structured_pending", !.pending = op.id]
          /\ receipts' = [receipts EXCEPT ![op.id] = Receipt("pending", "structured", op.gen)]
          /\ Go("stopping")
       \/ /\ own' = Observed /\ Finish
          /\ IF own.state = "structured" /\ own.gen = op.gen /\ \A h \in Handoffs : receipts[h].status # "pending"
             THEN receipts' = [receipts EXCEPT ![op.id] = Receipt("completed", "structured", op.gen)]
             ELSE UNCHANGED receipts
    /\ UNCHANGED <<processes, events, observer, rest>>

\* Mutant: a stop that timed out counts as an exit.
MutantStopNative ==
    /\ op.kind = "to_structured" /\ op.at = "stopping"
    /\ native' = [native EXCEPT !.stopping = TRUE] /\ Go("clearing") /\ UNCHANGED journal
    /\ UNCHANGED <<restart, owner, turn, alive, planned, launched, events, observer, rest>>

\* The native process is stopped, by instance; a terminal without an active
\* process answers that it is not running.
StopNative ==
    /\ op.kind = "to_structured" /\ op.at = "stopping"
    /\ \/ /\ native.inst \in {0, op.inst}
          /\ native' = NoNative /\ Go("clearing") /\ UNCHANGED journal
       \/ /\ native.inst # 0
          /\ native' = [native EXCEPT !.stopping = @ \/ native.inst = op.inst]
          /\ own' = [own EXCEPT !.state = "native_tui", !.pending = "none", !.failure = "stop_failed"]
          /\ Settle(op.id, "failed") /\ Finish
    /\ UNCHANGED <<restart, owner, turn, alive, planned, launched, events, observer, rest>>

\* The old owner is gone: its process leaves the record.
ClearOwner ==
    /\ op.at = "clearing"
    /\ own' = [own EXCEPT !.proc = NoProcess, !.turn = @ /\ op.kind # "restart"]
    /\ op' = [op EXCEPT !.at = IF op.kind = "to_native" THEN "launching" ELSE "spawning",
                        !.gen = own.gen, !.inst = own.inst]
    /\ UNCHANGED <<receipts, processes, events, observer, rest>>

-----------------------------------------------------------------------------
(* startStructuredReplacement, for handoffs, restarts and recovery.        *)

\* The process starts, or is refused: incompatible, or an owner is active.
SpawnReplacement ==
    /\ op.at = "spawning"
    /\ \/ Go("failing") /\ UNCHANGED <<alive, launched>>
       \/ /\ owner.inst = 0
          /\ LaunchInstance /\ alive' = alive \cup {launched'}
          /\ op' = [op EXCEPT !.at = "recording", !.new = launched']
    /\ UNCHANGED <<journal, native, restart, owner, turn, planned, events, observer, rest>>

\* onProcessStarted: the process is in the record before it is spoken to.
RecordReplacement ==
    /\ op.at = "recording"
    /\ IF own.gen = op.gen /\ own.inst = op.inst
       THEN own' = [own EXCEPT !.gen = @ + 1, !.inst = op.new, !.proc = Structured(op.new)] /\ Go("verifying")
       ELSE Go("unwinding") /\ UNCHANGED own
    /\ UNCHANGED <<receipts, processes, events, observer, rest>>

\* The provider confirms the exact session, and the owner is registered.
VerifyReplacement ==
    /\ op.at = "verifying"
    /\ \/ Go("unwinding") /\ UNCHANGED <<owner, turn>>
       \/ /\ op.new \in alive
          /\ owner' = [inst |-> op.new, gen |-> op.gen + 1] /\ turn' = "no"
          /\ Go("committing")
    /\ UNCHANGED <<journal, native, restart, alive, planned, launched, events, observer, rest>>

\* Mutant: the process leaves the record although its exit is unconfirmed.
MutantUnwind ==
    /\ op.at = "unwinding" /\ own.inst = op.new
    /\ \E gone \in SUBSET {op.new} : alive' = alive \ gone
    /\ own' = [own EXCEPT !.proc = NoProcess] /\ Go("failing")
    /\ UNCHANGED <<receipts, native, restart, owner, turn, planned, launched, events, observer, rest>>

\* A replacement that failed is stopped; it stays in the record unless its
\* exit was confirmed.
UnwindReplacement ==
    /\ op.at = "unwinding" /\ Go("failing")
    /\ \/ /\ alive' = alive \ {op.new}
          /\ own' = IF own.inst = op.new THEN [own EXCEPT !.proc = NoProcess] ELSE own
       \/ op.new \in alive /\ UNCHANGED <<alive, own>>
    /\ UNCHANGED <<receipts, native, restart, owner, turn, planned, launched, events, observer, rest>>

\* What the replacement makes of the last failure: a restart keeps an unknown
\* outcome; recovery looks the lost turn up in the provider's history.
CommitFailures ==
    IF op.kind = "to_structured" THEN {"none"}
    ELSE IF op.kind = "recover" /\ own.turn THEN {"none", "unknown"}
    ELSE {IF op.unknown THEN "unknown" ELSE "none"}

\* Written only for a replacement that the record still names.
CommitReplacement ==
    /\ op.at = "committing"
    /\ own.inst = op.new /\ own.proc.inst = op.new
    /\ \E failure \in CommitFailures :
          own' = [own EXCEPT !.state = "structured", !.pending = "none", !.failure = failure,
                             !.turn = @ /\ op.kind = "restart"]
    /\ Settle(op.id, "completed") /\ Finish
    /\ UNCHANGED <<processes, events, observer, rest>>

\* Recovery could not read the history of the turn, or lost the replacement to
\* an exit it heard of before its commit: what is left of it is stopped.
RetireReplacement ==
    /\ op.at = "committing" /\ op.kind = "recover"
    /\ own.turn \/ own.proc.inst # op.new
    /\ Go("failing")
    /\ \/ /\ OwnerExits(op.new, TRUE)
          /\ own' = [own EXCEPT !.proc = NoProcess, !.turn = FALSE]
       \/ /\ owner.inst = op.new /\ planned' = planned \cup {op.new}
          /\ UNCHANGED <<own, alive, owner, turn, events>>
    /\ UNCHANGED <<receipts, native, restart, launched, observer, rest>>

-----------------------------------------------------------------------------
(* Stopping the structured owner, for handoffs, restarts and stops.        *)

Interrupted == turn = "yes" /\ op.kind # "to_native"

\* stopStructuredOwnerPlanned, after a turn in progress is interrupted: done
\* when the owner exits, or when there is none and no recorded process lives.
OwnerStops ==
    \/ /\ owner.inst # 0 /\ owner.inst = op.inst /\ owner.gen = op.gen
       /\ alive' = alive \ {owner.inst} /\ owner' = NoOwner /\ turn' = "no"
       /\ planned' = planned \ {owner.inst}
       /\ events' = events \o (IF Interrupted THEN <<TurnEvent("completed")>> ELSE <<>>)
                           \o <<[TurnEvent("exit") EXCEPT !.intended = TRUE]>>
    \/ /\ owner.inst = 0 /\ own.proc.inst \notin alive
       /\ UNCHANGED <<alive, owner, turn, planned, events>>

\* The owner does not stop: it timed out, its turn could not be interrupted,
\* or another one is there.  A stop that timed out is remembered as planned.
OwnerRemains ==
    /\ \/ owner.inst # 0 /\ owner.inst = op.inst /\ planned' = planned \cup {owner.inst}
       \/ owner.inst # 0 /\ (Interrupted \/ owner.inst # op.inst) /\ UNCHANGED planned
       \/ owner.inst = 0 /\ own.proc.inst \in alive /\ UNCHANGED planned
    /\ UNCHANGED <<alive, owner, turn, events>>

\* After a failed stop a handoff or a restart gives the task back as it was.
StopStructured ==
    /\ op.at = "stopping" /\ op.kind \in {"to_native", "restart", "stop"}
    /\ \/ /\ OwnerStops /\ UNCHANGED journal
          /\ Go(IF op.kind = "stop" THEN "committing_stop" ELSE "clearing")
       \/ /\ OwnerRemains /\ Finish
          /\ IF op.kind = "stop" THEN UNCHANGED journal
             ELSE /\ own' = [own EXCEPT !.state = "structured", !.pending = "none", !.failure = "stop_failed"]
                  /\ Settle(op.id, "failed")
    /\ UNCHANGED <<native, restart, launched, observer, rest>>

-----------------------------------------------------------------------------
(* Handoff to the native terminal.                                         *)

Unowned == own.proc = NoProcess /\ owner.inst = 0

\* Mutant: a turn in progress does not matter.
MutantMayHandBack ==
    /\ own.state \in PendingStates \cup {"structured"}
    /\ Unowned \/ (own.state = "structured" /\ owner.inst # 0 /\ own.proc # NoProcess)
    /\ \A h \in Handoffs : receipts[h].status # "pending"

\* From the structured owner between turns, or from any state that has lost
\* its owner.
MayHandBack ==
    /\ own.state \in PendingStates \cup {"structured"}
    /\ Unowned \/ (/\ own.state = "structured" /\ owner.inst # 0 /\ own.proc # NoProcess
                   /\ turn = "no" /\ ~own.turn)
    /\ \A h \in Handoffs : receipts[h].status # "pending"

RecordToNative(h) ==
    /\ Free /\ receipts[h].status = "none" /\ Spare > 0
    /\ \/ /\ MayHandBack
          /\ own' = [own EXCEPT !.state = "handoff_to_native_pending", !.pending = h]
          /\ receipts' = [receipts EXCEPT ![h] = Receipt("pending", "native_tui", own.gen)]
          /\ Begin("to_native", IF Unowned THEN "clearing" ELSE "stopping", h)
       \/ /\ own.state = "native_tui" /\ \A k \in Handoffs : receipts[k].status # "pending"
          /\ receipts' = [receipts EXCEPT ![h] = Receipt("completed", "native_tui", own.gen)]
          /\ UNCHANGED <<own, op>>
    /\ UNCHANGED <<processes, events, observer, rest>>

\* The terminal launches the exact session, or cannot: another process is
\* active, or the launch failed.
LaunchNative ==
    /\ op.at = "launching"
    /\ \/ Go("failing") /\ UNCHANGED <<native, launched>>
       \/ /\ native.inst = 0
          /\ LaunchInstance /\ native' = Native(launched')
          /\ op' = [op EXCEPT !.at = "identifying", !.new = launched']
    /\ UNCHANGED <<journal, restart, owner, turn, alive, planned, events, observer, rest>>

\* The process identity is recorded under a new generation.
IdentifyNative ==
    /\ op.at = "identifying"
    /\ IF native.inst = 0 THEN Go("abandoning") /\ UNCHANGED own
       ELSE /\ own' = [own EXCEPT !.gen = @ + 1, !.inst = native.inst, !.proc = Pty(native.inst)]
            /\ op' = [op EXCEPT !.at = "verifying_native", !.new = native.inst]
    /\ UNCHANGED <<receipts, processes, events, observer, rest>>

\* The session is confirmed by the launch, or the replacement is abandoned.
VerifyNative ==
    /\ op.at = "verifying_native"
    /\ \/ Go("abandoning") /\ UNCHANGED journal
       \/ /\ native.inst = op.new
          /\ own' = [own EXCEPT !.state = "native_tui", !.turn = FALSE, !.pending = "none", !.failure = "none"]
          /\ Settle(op.id, "completed") /\ Finish
    /\ UNCHANGED <<processes, events, observer, rest>>

\* An unconfirmed replacement is stopped; it stays in the record unless it
\* exited.
AbandonNative ==
    /\ op.at = "abandoning"
    /\ \/ /\ native.inst \in {0, op.new} /\ native' = NoNative
          /\ own' = [own EXCEPT !.proc = NoProcess, !.failure = "start_failed"]
       \/ /\ native.inst # 0
          /\ native' = [native EXCEPT !.stopping = @ \/ native.inst = op.new]
          /\ own' = [own EXCEPT !.failure = "stop_failed"]
    /\ Settle(op.id, "failed") /\ Finish
    /\ UNCHANGED <<restart, owner, turn, alive, planned, launched, events, observer, rest>>

-----------------------------------------------------------------------------
(* Restarts and stops.                                                     *)

\* restartStructuredOwner: pending without a receipt, through a stop of the
\* owner, or directly when neither an owner nor its process is left.
BeginRestart ==
    /\ Free /\ Spare > 0
    /\ \/ own.state = "structured" /\ owner.inst # 0
       \/ own.state \in {"structured", "handoff_to_structured_pending"} /\ Unowned
    /\ own' = [own EXCEPT !.state = "handoff_to_structured_pending", !.pending = "restart"]
    /\ Begin("restart", IF Unowned THEN "spawning" ELSE "stopping", "restart")
    /\ UNCHANGED <<receipts, processes, events, observer, rest>>

StopsNative == own.proc.kind = "pty" \/ (Unowned /\ native.inst # 0)
Ambiguous == owner.inst # 0 /\ (own.proc.kind = "pty" \/ native.inst # 0)

\* stopCurrentOwner.  Without a record, or with a native owner, it stops the
\* terminal's process; the record is committed once it is gone.
BeginStop ==
    /\ Free /\ own.state # "absent" /\ ~Ambiguous
    /\ \/ /\ StopsNative /\ native' = NoNative
          /\ Begin("stop", "committing_stop", own.pending)
       \/ /\ StopsNative /\ native.inst # 0 /\ native' = [native EXCEPT !.stopping = TRUE]
          /\ UNCHANGED op
       \/ /\ ~StopsNative /\ Unowned /\ own.state # "native_tui"
          /\ Begin("stop", "committing_stop", own.pending) /\ UNCHANGED native
       \/ /\ ~StopsNative /\ ~Unowned
          /\ Begin("stop", "stopping", own.pending) /\ UNCHANGED native
    /\ UNCHANGED <<journal, restart, owner, turn, alive, planned, launched, events, observer, rest>>

StopWithoutRecord ==
    /\ Free /\ own.state = "absent" /\ native.inst # 0
    /\ native' \in {NoNative, [native EXCEPT !.stopping = TRUE]}
    /\ UNCHANGED <<journal, restart, owner, turn, alive, planned, launched, events, op, observer, rest>>

\* Mutant: the stopped process stays in the record.
MutantCommitStop ==
    /\ op.at = "committing_stop"
    /\ own' = IF own.gen # op.gen \/ own.inst # op.inst THEN own
              ELSE [own EXCEPT !.state = "native_tui", !.gen = @ + 1, !.inst = 0, !.turn = FALSE,
                               !.pending = "none", !.failure = "none"]
    /\ Settle(op.id, "failed") /\ Finish
    /\ UNCHANGED <<processes, events, observer, rest>>

\* commitStoppedOwner: the task is native, under a generation and an instance
\* (0 here) that no process has, unless the record changed meanwhile.
CommitStop ==
    /\ op.at = "committing_stop"
    /\ own' = IF own.gen # op.gen \/ own.inst # op.inst THEN own
              ELSE [Absent EXCEPT !.state = "native_tui", !.gen = own.gen + 1]
    /\ Settle(op.id, "failed") /\ Finish
    /\ UNCHANGED <<processes, events, observer, rest>>

-----------------------------------------------------------------------------
(* Turns of the structured owner, and its events.                          *)

\* A message is dispatched from the queue to the owner the record names.
SendMessage ==
    /\ Free /\ own.state = "structured" /\ owner.inst # 0 /\ owner.gen = own.gen
    /\ turn = "no" /\ Len(events) < MaxEvents
    /\ turn' = "starting" /\ Begin("send", "sending", "none")
    /\ UNCHANGED <<journal, native, restart, owner, alive, planned, launched, events, observer, rest>>

\* The provider takes the turn, refuses it, or is gone.
MessageSent ==
    /\ op.at = "sending" /\ Finish
    /\ \/ turn = "starting" /\ turn' = "yes" /\ events' = Append(events, TurnEvent("started"))
       \/ turn' = "no" /\ UNCHANGED events
    /\ UNCHANGED <<journal, native, restart, owner, alive, planned, launched, observer, rest>>

TurnEnds ==
    /\ turn = "yes" /\ turn' = "no" /\ events' = Append(events, TurnEvent("completed"))
    /\ UNCHANGED <<journal, native, restart, owner, alive, planned, launched, op, observer, rest>>

\* Mutant: any instance's event is in scope.
MutantInScope(e) ==
    own.state = "structured" \/ (e.type = "exit" /\ own.state \in PendingStates)

\* resolveEventScope: only the recorded generation and instance is heard.
InScope(e) ==
    /\ own.gen = e.gen /\ own.inst = e.inst
    /\ own.state = "structured" \/ (e.type = "exit" /\ own.state \in PendingStates)

\* An exit that was asked for is a failure only to a task still structured.
AfterExit(e) ==
    LET expected == own.state = "handoff_to_native_pending" \/ e.intended
        failed == IF e.unknown THEN "unknown" ELSE "crashed"
    IN  [own EXCEPT !.proc = NoProcess, !.turn = FALSE,
                    !.failure = IF expected /\ own.state # "structured" THEN @ ELSE failed]

\* Events run in the queue, in order, when no operation does.  Recovery is
\* outside the queue: nobody else is served yet, but events are.
DeliverEvent ==
    /\ Free \/ op.kind = "recover"
    /\ events # <<>> /\ events' = Tail(events)
    /\ own' = LET e == Head(events) IN
              IF ~InScope(e) THEN own
              ELSE IF e.type = "exit" THEN AfterExit(e)
              ELSE [own EXCEPT !.turn = (e.type = "started")]
    /\ UNCHANGED <<receipts, processes, op, observer, rest>>

-----------------------------------------------------------------------------
(* A crash of the runtime, and the recovery the next one begins with.      *)

\* Terminals die with the runtime; a structured process may outlive it, once
\* it is in the record.
MayOutlive == IF Survivors = "recorded" THEN alive \cap {own.proc.inst} ELSE {}

Crash ==
    /\ crashes < MaxCrashes /\ crashes' = crashes + 1
    /\ alive' \in SUBSET MayOutlive
    /\ native' = NoNative /\ restart' = FALSE /\ owner' = NoOwner /\ turn' = "no"
    /\ planned' = {} /\ events' = <<>> /\ observer' = NoObservation
    /\ op' = [Idle EXCEPT !.kind = "recover", !.at = "deciding"]
    /\ UNCHANGED <<journal, launched, restarts>>

\* Mutant: recovery takes the ownership up without its handoff's identity.
MutantRecover ==
    /\ op.at = "deciding"
    /\ IF own.state \in {"absent", "native_tui"} \/ (own.proc # NoProcess /\ own.proc.inst \in alive)
       THEN Finish /\ UNCHANGED own
       ELSE /\ own' = [own EXCEPT !.proc = NoProcess]
            /\ Begin("recover", IF own.state = "handoff_to_native_pending" THEN "launching" ELSE "spawning",
                     "none")
    /\ UNCHANGED <<receipts, processes, events, observer, rest>>

\* recoverProject: nothing to do for a native task, nor while the recorded
\* process still lives; otherwise the interrupted ownership is taken up.
Recover ==
    /\ op.at = "deciding"
    /\ IF own.state \in {"absent", "native_tui"} \/ (own.proc # NoProcess /\ own.proc.inst \in alive)
       THEN Finish /\ UNCHANGED own
       ELSE /\ own' = [own EXCEPT !.proc = NoProcess]
            /\ Begin("recover", IF own.state = "handoff_to_native_pending" THEN "launching" ELSE "spawning",
                     own.pending)
    /\ UNCHANGED <<receipts, processes, events, observer, rest>>

-----------------------------------------------------------------------------

Step ==
    \/ RecordToStructured \/ StopNative \/ StopStructured \/ ClearOwner
    \/ SpawnReplacement \/ RecordReplacement \/ VerifyReplacement
    \/ UnwindReplacement \/ CommitReplacement \/ RetireReplacement
    \/ LaunchNative \/ IdentifyNative \/ VerifyNative \/ AbandonNative
    \/ FailOperation \/ CommitStop \/ MessageSent \/ Recover

Next ==
    \/ StartNative \/ NativePrompt \/ NativeReports \/ NativeExits \/ AutoRestart
    \/ ObserveBegins \/ ObserveEnds
    \/ \E h \in Handoffs : BeginToStructured(h) \/ RecordToNative(h)
    \/ BeginRestart \/ BeginStop \/ StopWithoutRecord \/ SendMessage
    \/ TurnEnds \/ StructuredExits \/ DeliverEvent \/ Crash
    \/ Step

Spec == Init /\ [][Next]_vars

\* Every step of an operation ends: awaits are answered or time out, and the
\* queue moves on.
FairSpec == Spec /\ WF_vars(Step) /\ WF_vars(DeliverEvent)

-----------------------------------------------------------------------------
(* What ownership promises.                                                *)

Instances == 0..MaxInstances
Processes == [kind : {"none", "pty", "structured"}, inst : Instances]
States == PendingStates \cup {"absent", "native_tui", "structured"}

\* Every write of the journal is one its reader accepts: a process of another
\* instance, or of the other kind of owner, or a pending state without its
\* handoff, makes the whole project's journal unreadable (assertJournalScope).
JournalCoherent ==
    /\ own.proc # NoProcess => own.proc.inst = own.inst
    /\ own.state = "native_tui" => own.proc.kind # "structured"
    /\ own.state = "structured" => own.proc.kind # "pty"
    /\ own.state \in PendingStates <=> own.pending # "none"

\* The type of every variable; the queue and the journal are the code's.
TypeOK ==
    /\ own \in [state : States, gen : Nat, inst : Instances, proc : Processes, turn : BOOLEAN,
                pending : Handoffs \cup {"none", "restart"},
                failure : {"none", "unknown", "crashed", "stop_failed", "start_failed"}]
    /\ receipts \in [Handoffs -> [status : {"none", "pending", "completed", "failed"},
                                  target : {"none", "structured", "native_tui"}, gen : Nat]]
    /\ native \in [inst : Instances, turn : {"none", "submitted", "reported"}, stopping : BOOLEAN]
    /\ owner \in [inst : Instances, gen : Nat] /\ turn \in {"no", "starting", "yes"}
    /\ alive \subseteq Instances \ {0} /\ planned \subseteq alive
    /\ restart \in BOOLEAN /\ launched \in Instances
    /\ JournalCoherent

Writers == alive \cup ({native.inst} \ {0})

\* Whatever is stopped, refused, lost in a crash or left unconfirmed, at most
\* one process can write to the provider's session.
SingleWriter == Cardinality(Writers) <= 1

\* Between operations, a registered structured owner is the one the journal
\* names, so that its events are heard and its messages reach it.
AuthorityIsRecorded ==
    Free /\ owner.inst # 0 =>
        own.inst = owner.inst /\ own.gen = owner.gen /\ own.proc = Structured(owner.inst)

\* A live structured process is never forgotten by the journal of a running
\* runtime: recovery finds it there and does not start a second one.
LiveOwnerIsRecorded ==
    op.at # "recording" => \A i \in alive : own.proc.inst = i

\* A handoff that names the structured runner's turn as over is never followed
\* by a stop of a turn that started since.
HandBackBetweenTurns ==
    op.kind = "to_native" /\ op.at = "stopping" /\ owner.inst # 0 => turn = "no"

\* Every handoff is settled, even when the runtime crashes in the middle.
HandoffsEnd ==
    \A h \in Handoffs : receipts[h].status = "pending" ~> receipts[h].status # "pending"

=============================================================================
