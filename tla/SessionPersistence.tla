------------------------- MODULE SessionPersistence -------------------------
(***************************************************************************)
(* The writer of a project's session map (server/runtime-session-          *)
(* persistence.ts), the hook deliveries that wait for it (trpc/hooks-      *)
(* api.ts) and the board commands that write the same file (state/project- *)
(* board-command-service.ts).                                              *)
(*                                                                         *)
(* The session store is a counter of the durable changes made to it, and   *)
(* sessions.json the value the counter had when its contents were          *)
(* captured.  Changes mark a generation dirty; one write at a time captures *)
(* the store and lands in the file; a barrier waits until the generation   *)
(* that was dirty when it started has been written.                        *)
(***************************************************************************)
EXTENDS Integers, FiniteSets

CONSTANTS
    Barriers,       \* concurrent hook deliveries waiting for durability
    Closer,         \* the shutdown, which flushes as the deliveries do
    MaxChanges,     \* bound: changes to the session store
    MaxFailures     \* bound: writes that fail

ASSUME BoundAssumption == MaxChanges \in Nat /\ MaxFailures \in Nat
ASSUME CloserAssumption == Closer \notin Barriers

Flushers == Barriers \cup {Closer}
FinalAttempts == 2   \* SESSION_PERSISTENCE_FINAL_ATTEMPTS

VARIABLES
    store,       \* changes made to the authoritative session store
    file,        \* changes contained in sessions.json
    dirty, persisted,   \* the writer's generations
    timer,       \* whether the debounce or retry timer is armed
    write,       \* the write in flight
    tracked,     \* whether the store's listener is attached
    writer,      \* "live", or "disposed" when the writer is retired
    closed,      \* whether new barriers are refused
    shutdown,    \* how far the shutdown is
    pc,          \* per flusher: where its flush stands
    required,    \* per flusher: the generation it waits for
    attempts,    \* per flusher: attempts used
    need,        \* per flusher: the changes it vouches for
    replaced,    \* whether a board command has put back an older map since the last write
    failures     \* spent bound

flushVars == <<pc, required, attempts, need>>
writerVars == <<dirty, persisted, timer, write>>
closeVars == <<tracked, writer, closed, shutdown>>
vars == <<store, file, writerVars, closeVars, flushVars, replaced, failures>>

NoWrite == [stage |-> "none", target |-> 0, captured |-> 0, by |-> "nobody"]
StartWrite(by) == [stage |-> "started", target |-> dirty, captured |-> 0, by |-> by]
InFlight == write.stage # "none"

Init ==
    /\ store = 0 /\ file = 0
    /\ dirty = 0 /\ persisted = 0 /\ timer = FALSE /\ write = NoWrite
    /\ tracked = TRUE /\ writer = "live" /\ closed = FALSE /\ shutdown = "no"
    /\ pc = [f \in Flushers |-> "idle"]
    /\ required = [f \in Flushers |-> 0]
    /\ attempts = [f \in Flushers |-> 0]
    /\ need = [f \in Flushers |-> 0]
    /\ replaced = FALSE
    /\ failures = 0

-----------------------------------------------------------------------------
(* Changes to the store.  Scheduling marks a generation and arms the timer *)
(* unless a write is in flight: its end looks at the generations again.    *)

ArmTimer == timer' = (timer \/ (writer = "live" /\ ~InFlight))

\* A change that no delivery waits for: activity, receipts, a terminal's exit.
Change ==
    /\ store < MaxChanges /\ shutdown # "done"
    /\ store' = store + 1
    /\ IF tracked /\ ~closed
       THEN dirty' = dirty + 1 /\ ArmTimer
       ELSE UNCHANGED <<dirty, timer>>
    /\ UNCHANGED <<file, persisted, write, closeVars, flushVars, replaced, failures>>

-----------------------------------------------------------------------------
(* A flush takes over the timer, waits for the write in flight, then makes *)
(* up to two attempts, each joining the write in flight if there is one.   *)

BeginFlush(f, generation) ==
    /\ timer' = FALSE
    /\ required' = [required EXCEPT ![f] = generation]
    /\ attempts' = [attempts EXCEPT ![f] = 0]
    /\ pc' = [pc EXCEPT ![f] = IF InFlight THEN "joined" ELSE "attempting"]

RefuseFlush(f) ==
    /\ pc' = [pc EXCEPT ![f] = "failed"]
    /\ UNCHANGED <<timer, required, attempts>>

\* A hook that changed the meaning of a session: applied and forced at once.
ForcingHook(b) ==
    /\ pc[b] = "idle" /\ store < MaxChanges /\ shutdown # "done"
    /\ store' = store + 1
    /\ need' = [need EXCEPT ![b] = store + 1]
    /\ IF closed
       THEN RefuseFlush(b) /\ UNCHANGED dirty
       ELSE /\ dirty' = dirty + (IF tracked THEN 2 ELSE 1)
            /\ BeginFlush(b, dirty')
    /\ UNCHANGED <<file, persisted, write, closeVars, replaced, failures>>

\* A duplicate of a hook that another delivery applied: it changes nothing and
\* waits for what is already dirty.
DuplicateHook(b) ==
    /\ pc[b] = "idle" /\ shutdown # "done"
    /\ \E original \in Barriers \ {b} :
          /\ pc[original] # "idle"
          /\ need' = [need EXCEPT ![b] = need[original]]
    /\ IF closed THEN RefuseFlush(b) ELSE BeginFlush(b, dirty)
    /\ UNCHANGED <<store, file, dirty, persisted, write, closeVars, replaced, failures>>


Reached(f) == persisted >= required[f]
\* Mutant: one attempt too many.
MutantThirdAttempt(f) ==
    pc[f] = "attempting" /\ attempts[f] <= FinalAttempts /\ persisted < required[f] /\ writer = "live"

MayAttempt(f) ==
    pc[f] = "attempting" /\ attempts[f] < FinalAttempts /\ ~Reached(f) /\ writer = "live"

\* The attempt writes, or waits for the write already in flight.
Attempt(f) ==
    /\ MayAttempt(f)
    /\ write' = IF InFlight THEN write ELSE StartWrite("flush")
    /\ pc' = [pc EXCEPT ![f] = "joined"]
    /\ attempts' = [attempts EXCEPT ![f] = @ + 1]
    /\ UNCHANGED <<store, file, dirty, persisted, timer, closeVars, required, need, replaced, failures>>

\* Mutant: what is still dirty is not handed back to the timer.
MutantEndWithoutArming(f) ==
    /\ pc[f] = "attempting" /\ ~MayAttempt(f)
    /\ pc' = [pc EXCEPT ![f] = IF Reached(f) THEN "resolved" ELSE "failed"]
    /\ UNCHANGED <<store, file, writerVars, closeVars, required, attempts, need, replaced, failures>>

\* Out of attempts, done, or retired; newer or failed generations go back to
\* the timer.
EndFlush(f) ==
    /\ pc[f] = "attempting" /\ ~MayAttempt(f)
    /\ IF persisted < dirty THEN ArmTimer ELSE UNCHANGED timer
    /\ pc' = [pc EXCEPT ![f] = IF Reached(f) THEN "resolved" ELSE "failed"]
    /\ UNCHANGED <<store, file, dirty, persisted, write, closeVars, required, attempts, need,
                   replaced, failures>>

-----------------------------------------------------------------------------
(* The write: reconcileRuntimeSessions captures the store, and its commit  *)
(* lands under the project lock.                                           *)

TimerFires ==
    /\ timer /\ timer' = FALSE
    /\ write' = IF writer = "live" /\ persisted < dirty /\ ~InFlight THEN StartWrite("timer") ELSE write
    /\ UNCHANGED <<store, file, dirty, persisted, closeVars, flushVars, replaced, failures>>

WriteCaptures ==
    /\ write.stage = "started"
    /\ write' = [write EXCEPT !.stage = "captured", !.captured = store]
    /\ UNCHANGED <<store, file, dirty, persisted, timer, closeVars, flushVars, replaced, failures>>

WriteLands ==
    /\ write.stage = "captured"
    /\ file' = write.captured
    /\ replaced' = FALSE
    /\ write' = [write EXCEPT !.stage = "landed"]
    /\ UNCHANGED <<store, dirty, persisted, timer, closeVars, flushVars, failures>>

\* The write is over: whoever joined it goes on to its next attempt, and the
\* timer's own write arms the timer for what is still dirty.
EndWrite ==
    /\ write' = NoWrite
    /\ timer' = (timer \/ (writer = "live" /\ write.by = "timer" /\ persisted' < dirty))
    /\ pc' = [f \in Flushers |-> IF pc[f] = "joined" THEN "attempting" ELSE pc[f]]
    /\ UNCHANGED <<store, file, dirty, closeVars, required, attempts, need, replaced>>

\* Mutant: the generation that is dirty at the end counts as written.
MutantPersistsLatest ==
    /\ write.stage = "landed"
    /\ persisted' = dirty
    /\ EndWrite
    /\ UNCHANGED failures

WriteSucceeds ==
    /\ write.stage = "landed"
    /\ persisted' = IF write.target > persisted THEN write.target ELSE persisted
    /\ EndWrite
    /\ UNCHANGED failures

\* Mutant: a failed write leaves those who joined it waiting.
MutantFailureWakesNobody ==
    /\ InFlight /\ failures < MaxFailures
    /\ failures' = failures + 1
    /\ write' = NoWrite
    /\ timer' = (timer \/ (writer = "live" /\ persisted < dirty))
    /\ UNCHANGED <<store, file, dirty, persisted, closeVars, flushVars, replaced>>

\* The write may fail before it lands or, its outcome unknown, after.
WriteFails ==
    /\ InFlight /\ failures < MaxFailures
    /\ failures' = failures + 1
    /\ UNCHANGED persisted
    /\ EndWrite

-----------------------------------------------------------------------------
(* Board commands write the session map they captured before they asked    *)
(* for the project lock.  Any number of them may be under way, so a commit  *)
(* may carry the store as it was at any earlier time.                       *)

CommandCommits ==
    \E captured \in 0 .. store :
        /\ captured # file
        /\ file' = captured
        /\ replaced' = (captured < file \/ (replaced /\ captured < store))
        /\ UNCHANGED <<store, writerVars, closeVars, flushVars, failures>>

-----------------------------------------------------------------------------
(* Shutdown.  close() drains before it refuses barriers, stopForShutdown() *)
(* refuses them at once; with persistence skipped the writer is retired    *)
(* without a last write.                                                   *)

Active(f) == pc[f] \in {"joined", "attempting"}
NoActiveBarrier == \A b \in Barriers : ~Active(b)

BeginDraining(refuse) ==
    /\ shutdown = "no"
    /\ shutdown' = "draining" /\ tracked' = FALSE /\ closed' = refuse
    /\ need' = [need EXCEPT ![Closer] = store]
    /\ BeginFlush(Closer, dirty)
    /\ UNCHANGED <<store, file, dirty, persisted, write, writer, replaced, failures>>

Close == BeginDraining(FALSE)
StopForShutdown == BeginDraining(TRUE)

Dispose == closed' = TRUE /\ tracked' = FALSE /\ writer' = "disposed" /\ timer' = FALSE
              /\ shutdown' = "disposing"

StopSkippingPersistence ==
    /\ shutdown = "no"
    /\ Dispose
    /\ UNCHANGED <<store, file, dirty, persisted, write, flushVars, replaced, failures>>

\* Mutant: a last flush that failed keeps the writer from being retired.
MutantDisposeOnlyIfFlushed ==
    /\ shutdown = "draining" /\ pc[Closer] = "resolved" /\ NoActiveBarrier
    /\ Dispose
    /\ UNCHANGED <<store, file, dirty, persisted, write, flushVars, replaced, failures>>

\* Mutant: the writer is retired without waiting for the last flush.
MutantDisposeDuringFlush ==
    /\ shutdown = "draining" /\ NoActiveBarrier
    /\ Dispose
    /\ UNCHANGED <<store, file, dirty, persisted, write, flushVars, replaced, failures>>

DisposeDrained ==
    /\ shutdown = "draining" /\ ~Active(Closer) /\ NoActiveBarrier
    /\ Dispose
    /\ UNCHANGED <<store, file, dirty, persisted, write, flushVars, replaced, failures>>

FinishShutdown ==
    /\ shutdown = "disposing" /\ ~InFlight /\ NoActiveBarrier
    /\ shutdown' = "done"
    /\ UNCHANGED <<store, file, writerVars, tracked, writer, closed, flushVars, replaced, failures>>

-----------------------------------------------------------------------------
FlushStep(f) == Attempt(f) \/ EndFlush(f)
WriteEnds == WriteSucceeds \/ WriteFails

Next ==
    \/ Change
    \/ \E b \in Barriers : ForcingHook(b) \/ DuplicateHook(b)
    \/ \E f \in Flushers : FlushStep(f)
    \/ TimerFires \/ WriteCaptures \/ WriteLands \/ WriteEnds
    \/ CommandCommits
    \/ Close \/ StopForShutdown \/ StopSkippingPersistence \/ DisposeDrained \/ FinishShutdown

Spec == Init /\ [][Next]_vars

\* The event loop runs every armed timer, I/O ends, and a started shutdown
\* goes on; nothing makes a hook arrive or a shutdown begin.
FairSpec ==
    /\ Spec
    /\ \A f \in Flushers : WF_vars(FlushStep(f))
    /\ WF_vars(TimerFires) /\ WF_vars(WriteCaptures) /\ WF_vars(WriteLands) /\ WF_vars(WriteEnds)
    /\ WF_vars(DisposeDrained) /\ WF_vars(FinishShutdown)

-----------------------------------------------------------------------------
(* Properties *)

\* The variables have their types, and a write in flight or a flush under way
\* never waits for a generation that was not marked (lines 222 and 261).
TypeOK ==
    /\ store \in 0..MaxChanges /\ file \in 0..store
    /\ dirty \in Nat /\ persisted \in 0..dirty
    /\ timer \in BOOLEAN /\ tracked \in BOOLEAN /\ closed \in BOOLEAN
    /\ write \in [stage : {"none", "started", "captured", "landed"}, target : 0..dirty,
                  captured : 0..store, by : {"nobody", "timer", "flush"}]
    /\ writer \in {"live", "disposed"}
    /\ shutdown \in {"no", "draining", "disposing", "done"}
    /\ pc \in [Flushers -> {"idle", "joined", "attempting", "resolved", "failed"}]
    /\ required \in [Flushers -> 0..dirty]
    /\ attempts \in [Flushers -> 0..FinalAttempts]
    /\ need \in [Flushers -> 0..store]
    /\ replaced \in BOOLEAN
    /\ failures \in 0..MaxFailures

\* A dirty generation always has someone who will look at it again: the timer,
\* the timer's own write or a flush under way.  Arming is skipped during a write
\* and a flush clears the timer, so every end must hand the rest back.
NoLostWakeup ==
    writer = "live" /\ persisted < dirty =>
        timer \/ write.by = "timer" \/ \E f \in Flushers : Active(f)

\* What a hook delivery acknowledged as durable, or a shutdown reported as
\* saved, is in sessions.json (hooks-api.ts 131: "Resolves only after the
\* latest session-store generation is durable").
AcknowledgedStaysDurable ==
    \A f \in Flushers : pc[f] = "resolved" => file >= need[f]

\* Nothing but a board command that puts an older session map back takes from
\* sessions.json what a delivery or a shutdown was told is there: no failed write,
\* shared write, duplicate or shutdown acknowledges more than it has written.
AcknowledgedUnlessReplaced == replaced \/ AcknowledgedStaysDurable

\* When the shutdown is over nothing of the writer is left that could still
\* write or acknowledge: no write, no timer, no delivery waiting.  And no dirty
\* generation is dropped in silence: unless persistence was skipped, the flush of
\* somebody who waited for the last one has failed.
ShutdownLeavesNothing ==
    shutdown = "done" =>
        /\ ~InFlight /\ ~timer /\ \A f \in Flushers : ~Active(f)
        /\ persisted < dirty =>
              pc[Closer] = "idle" \/ \E f \in Flushers : pc[f] = "failed" /\ required[f] = dirty

\* Every delivery that waits is answered, however many writes fail under it.
BarriersSettle == \A b \in Barriers : Active(b) ~> ~Active(b)

\* A shutdown that has begun ends.
ShutdownEnds == shutdown # "no" ~> shutdown = "done"
=============================================================================
