----------------------- MODULE ExecutionOwnershipProofs -----------------------
(***************************************************************************)
(* Theorems about ExecutionOwnership, for any number of handoffs, crashes,  *)
(* launched processes and queued events.                                   *)
(*                                                                         *)
(* The argument is about the journal.  A structured process that can write  *)
(* is the one the record names, except while its launch is being recorded;  *)
(* so a record that names none, or a native process, is proof that no       *)
(* structured process is left, and that is what every operation consults    *)
(* before it launches the other kind of owner.                             *)
(***************************************************************************)
EXTENDS ExecutionOwnership, SequenceTheorems, FiniteSetTheorems, TLAPS

Ids == Handoffs \cup {"none", "restart"}
Records == [state : States, gen : Nat, inst : Instances, proc : Processes, turn : BOOLEAN,
            pending : Ids,
            failure : {"none", "unknown", "crashed", "stop_failed", "start_failed"}]
Receipts == [status : {"none", "pending", "completed", "failed"},
             target : {"none", "structured", "native_tui"}, gen : Nat]
Natives == [inst : Instances, turn : {"none", "submitted", "reported"}, stopping : BOOLEAN]
Owners == [inst : Instances, gen : Nat]
Events == [type : {"exit", "started", "completed"}, inst : Instances, gen : Nat,
           unknown : BOOLEAN, intended : BOOLEAN]
Kinds == {"none", "to_structured", "to_native", "restart", "stop", "send", "recover"}
Stages == {"done", "checking", "stopping", "clearing", "spawning", "recording", "verifying",
           "unwinding", "committing", "failing", "launching", "identifying",
           "verifying_native", "abandoning", "committing_stop", "sending", "deciding"}
Operations == [kind : Kinds, at : Stages, id : Ids, gen : Nat, inst : Instances,
               new : Instances, running : BOOLEAN, unknown : BOOLEAN]
Observations == [inst : Instances, existing : Records]

Types ==
    /\ own \in Records /\ receipts \in [Handoffs -> Receipts]
    /\ native \in Natives /\ restart \in BOOLEAN
    /\ owner \in Owners /\ turn \in {"no", "starting", "yes"}
    /\ alive \subseteq Instances \ {0} /\ planned \subseteq alive \cap {owner.inst}
    /\ events \in Seq(Events) /\ op \in Operations /\ observer \in Observations
    /\ launched \in Instances /\ crashes \in 0..MaxCrashes /\ restarts \in Nat

(* Every operation that may still launch a process has one left for it, and  *)
(* so has every recovery to come.                                           *)
MayLaunch ==
    \/ op.at \in {"deciding", "checking", "clearing", "spawning", "launching"}
    \/ op.at = "stopping" /\ op.kind # "stop"
BudgetInv ==
    /\ launched + (MaxCrashes - crashes) + (IF MayLaunch THEN 1 ELSE 0) <= MaxInstances
    /\ op.kind = "none" => op.at = "done"
    /\ \A i \in alive : i <= launched

(* The record is one that its reader accepts.                               *)
RecordInv ==
    /\ JournalCoherent
    /\ own.proc.kind = "none" => own.proc = NoProcess
    /\ own.state = "absent" => own.proc = NoProcess
    /\ observer # NoObservation => observer.existing.state \in {"absent", "native_tui"}

(* Who can write is in the record; a registered owner is alive.             *)
OwnerInv ==
    /\ op.at # "recording" => \A i \in alive : own.proc = Structured(i)
    /\ op.at = "recording" => alive \subseteq {op.new}
    /\ owner.inst # 0 => owner.inst \in alive /\ owner.gen = own.gen

(* What an operation relies on at each of its stages.                       *)
ToStructured == {"spawning", "recording", "verifying", "unwinding", "committing"}
ToNative == {"launching", "identifying", "verifying_native", "abandoning"}
StageInv ==
    /\ op.at \in ToStructured => own.state \in {"structured", "handoff_to_structured_pending"}
    /\ op.at \in ToNative => own.state = "handoff_to_native_pending"
    /\ op.at \in {"failing", "committing_stop"} => own.state # "absent"
    /\ op.at \in {"clearing", "committing_stop"} => alive = {}
    /\ op.at = "clearing" =>
          own.state = IF op.kind = "to_native" THEN "handoff_to_native_pending"
                      ELSE "handoff_to_structured_pending"
    /\ op.at \in {"spawning", "recording", "launching", "identifying"} => own.proc = NoProcess
    /\ op.at \in {"verifying_native", "abandoning"} => own.proc.kind # "structured"
    /\ op.at \in {"spawning", "recording"} => own.gen = op.gen /\ own.inst = op.inst
    /\ op.at \in {"verifying", "unwinding", "committing"} =>
          own.inst = op.new /\ own.gen = op.gen + 1 /\ own.proc \in {NoProcess, Structured(op.new)}
    /\ op.at \in {"recording", "verifying", "unwinding"} => owner.inst = 0
    /\ op.at \in {"recording", "verifying", "unwinding", "committing"} => op.new # 0
    /\ op.at = "checking" => op.id \in Handoffs
StopInv ==
    op.at = "stopping" =>
        /\ op.kind \in {"to_structured", "to_native", "restart", "stop"}
        /\ own.state \in PendingStates \cup {"structured"}
        /\ op.kind \in {"to_structured", "restart"} =>
              own.state = "handoff_to_structured_pending"
        /\ op.kind = "to_native" => own.state = "handoff_to_native_pending" /\ turn = "no"
        /\ op.kind = "to_structured" => own.proc.kind # "structured"
        /\ op.kind # "to_structured" => op.inst = own.inst
        /\ op.kind \in {"to_native", "restart"} => own.proc.kind # "pty"

(* An exit that is still to be heard of is the exit of a process that is gone. *)
EventInv ==
    \A k \in 1..Len(events) :
        events[k].inst <= launched /\ (events[k].type = "exit" => events[k].inst \notin alive)

(* Unless the terminal restarts a crashed agent by itself, a native process   *)
(* runs only for a native task, or for one whose handoff is about to stop it, *)
(* and never beside a structured one.                                       *)
NativeInv ==
    MaxRestarts = 0 =>
        /\ ~restart
        /\ native.inst # 0 =>
              \/ own.state \in {"absent", "native_tui", "handoff_to_native_pending"}
              \/ op.kind = "to_structured" /\ op.at = "stopping"
        /\ op.at = "stopping" /\ op.kind \in {"to_native", "restart"} => native.inst = 0
        /\ native.inst # 0 => alive = {}

Inv ==
    /\ Types /\ BudgetInv /\ RecordInv /\ OwnerInv /\ StageInv /\ StopInv /\ EventInv
    /\ NativeInv

(* What a step makes of the record and of the operation.                    *)
OwnIs(state, gen, inst, proc, pending) ==
    /\ own' \in Records
    /\ own'.state = state /\ own'.gen = gen /\ own'.inst = inst /\ own'.proc = proc
    /\ own'.pending = pending
OpIs(kind, at, gen, inst, new) ==
    /\ op' \in Operations
    /\ op'.kind = kind /\ op'.at = at /\ op'.gen = gen /\ op'.inst = inst /\ op'.new = new

-----------------------------------------------------------------------------
(* Helpers. *)

(* Bounds are numbers, and no instance is numbered 0.                        *)
LEMMA NatBounds ==
    /\ MaxInstances \in Nat /\ MaxCrashes \in Nat /\ MaxRestarts \in Nat /\ MaxEvents \in Nat
    /\ MaxCrashes <= MaxInstances /\ 0 \in Instances
BY BoundAssumption DEF Instances

(* The fields of the record, of the processes and of the operation.          *)
LEMMA Fields ==
    ASSUME Types
    PROVE  /\ own.state \in States /\ own.gen \in Nat /\ own.inst \in Instances
           /\ own.proc \in Processes /\ own.pending \in Ids /\ own.turn \in BOOLEAN
           /\ native.inst \in Instances /\ owner.inst \in Instances /\ owner.gen \in Nat
           /\ op.kind \in Kinds /\ op.at \in Stages /\ op.id \in Ids /\ op.gen \in Nat
           /\ op.inst \in Instances /\ op.new \in Instances
           /\ observer.inst \in Instances /\ observer.existing \in Records
BY DEF Types, Records, Natives, Owners, Operations, Observations

(* The processes a record may name.                                          *)
LEMMA ProcessValues ==
    /\ NoProcess \in Processes /\ NoProcess.kind = "none" /\ NoProcess.inst = 0
    /\ \A i \in Instances : /\ Pty(i) \in Processes /\ Structured(i) \in Processes
                            /\ Pty(i).kind = "pty" /\ Pty(i).inst = i
                            /\ Structured(i).kind = "structured" /\ Structured(i).inst = i
BY NatBounds DEF Processes, NoProcess, Pty, Structured

(* The values of the terminal.                                               *)
LEMMA NativeValues ==
    /\ NoNative \in Natives /\ NoNative.inst = 0
    /\ \A i \in Instances : Native(i) \in Natives /\ Native(i).inst = i
BY NatBounds DEF Natives, NoNative, Native

(* A stop request leaves the terminal its process.                           *)
LEMMA StoppedNative ==
    ASSUME Types
    PROVE  /\ \A b \in BOOLEAN : /\ [native EXCEPT !.stopping = b] \in Natives
                                 /\ [native EXCEPT !.stopping = b].inst = native.inst
           /\ [native EXCEPT !.stopping = TRUE] \in Natives
           /\ [native EXCEPT !.stopping = TRUE].inst = native.inst
<1>1. native \in Natives
  BY DEF Types
<1>2. \A n \in Natives, b \in BOOLEAN : /\ [n EXCEPT !.stopping = b] \in Natives
                                        /\ [n EXCEPT !.stopping = b].inst = n.inst
  BY DEF Natives
<1>3. \A n \in Natives : /\ [n EXCEPT !.stopping = TRUE] \in Natives
                         /\ [n EXCEPT !.stopping = TRUE].inst = n.inst
  BY DEF Natives
<1> QED
  BY <1>1, <1>2, <1>3

(* What Finish, Go and Begin make of the operation.                          *)
LEMMA Finished == ASSUME Finish PROVE OpIs("none", "done", 0, 0, 0)
BY NatBounds DEF Finish, Idle, OpIs, Operations, Kinds, Stages, Ids

LEMMA Gone ==
    ASSUME Types, NEW at \in Stages, Go(at)
    PROVE  OpIs(op.kind, at, op.gen, op.inst, op.new)
BY DEF Types, Go, OpIs, Operations

LEMMA Begun ==
    ASSUME Types, NEW kind \in Kinds, NEW at \in Stages, NEW id \in Ids, Begin(kind, at, id)
    PROVE  OpIs(kind, at, own.gen, own.inst, 0)
<1>1. own.gen \in Nat /\ own.inst \in Instances /\ 0 \in Instances
  BY Fields, NatBounds
<1>2. op' = [kind |-> kind, at |-> at, id |-> id, gen |-> own.gen, inst |-> own.inst, new |-> 0,
             running |-> FALSE, unknown |-> (own.failure = "unknown")]
  BY DEF Begin, Idle
<1> QED
  BY <1>1, <1>2 DEF OpIs, Operations

(* Settling a handoff keeps the receipts well formed.                        *)
LEMMA SettledReceipts ==
    ASSUME receipts \in [Handoffs -> Receipts], NEW id,
           NEW status \in {"completed", "failed"}, Settle(id, status)
    PROVE  receipts' \in [Handoffs -> Receipts]
<1>1. \A r \in Receipts : [r EXCEPT !.status = status] \in Receipts
  BY DEF Receipts
<1> QED
  BY <1>1 DEF Settle

(* A spare instance is one that nobody else counts on.                       *)
LEMMA SpareLeft ==
    ASSUME Types, Spare > 0
    PROVE  /\ launched + (MaxCrashes - crashes) + (IF Free THEN 0 ELSE 1) < MaxInstances
           /\ launched + 1 \in Instances
BY NatBounds DEF Types, Spare, Instances

(* What an observation makes of the record.                                  *)
LEMMA ObservedFields ==
    ASSUME Types, NEW i \in Instances
    PROVE  /\ ObservedRecord(own, i) \in Records
           /\ ObservedRecord(own, i).state = "native_tui" /\ ObservedRecord(own, i).inst = i
           /\ ObservedRecord(own, i).gen = IF own.state = "absent" THEN 0 ELSE own.gen + 1
           /\ ObservedRecord(own, i).proc = Pty(i) /\ ObservedRecord(own, i).pending = "none"
           /\ ObservedRecord(own, i).turn = FALSE
<1>1. own.gen \in Nat /\ Pty(i) \in Processes
  BY Fields, ProcessValues
<1> QED
  BY <1>1 DEF ObservedRecord, Records, States, Ids

(* Queues of owner events: one more, one less, the same, and several more.   *)
LEMMA NewEvents ==
    ASSUME Types, EventInv, NEW e \in Events, events' = Append(events, e),
           launched' = launched, alive' \subseteq alive,
           e.inst <= launched, e.type = "exit" => e.inst \notin alive'
    PROVE  events' \in Seq(Events) /\ EventInv'
<1>1. events \in Seq(Events) /\ \A k \in 1..Len(events) : events[k] \in Events
  BY DEF Types
<1>2. events' \in Seq(Events) /\ Len(events') = Len(events) + 1
      /\ \A k \in 1..Len(events') : events'[k] = IF k <= Len(events) THEN events[k] ELSE e
  BY <1>1
<1> QED
  BY <1>1, <1>2 DEF EventInv

LEMMA FewerEvents ==
    ASSUME Types, EventInv, events # <<>>, events' = Tail(events),
           launched' = launched, alive' = alive
    PROVE  /\ events' \in Seq(Events) /\ EventInv'
           /\ Head(events) \in Events
           /\ Head(events).type = "exit" => Head(events).inst \notin alive
<1>1. events \in Seq(Events) /\ Len(events) \in Nat /\ Len(events) > 0
      /\ \A k \in 1..Len(events) : events[k] \in Events
  BY DEF Types
<1>2. events' \in Seq(Events) /\ Len(events') = Len(events) - 1
      /\ \A k \in 1..Len(events') : events'[k] = events[k + 1]
  BY <1>1
<1>3. Head(events) = events[1] /\ 1 \in 1..Len(events)
  BY <1>1
<1>4. \A k \in 1..Len(events') : k + 1 \in 1..Len(events)
  BY <1>1, <1>2
<1> QED
  BY <1>1, <1>2, <1>3, <1>4 DEF EventInv

LEMMA EventsKept ==
    ASSUME Types, EventInv, events' = events, launched' \in Nat, launched' >= launched,
           \A i \in alive' : i \in alive \/ i > launched
    PROVE  EventInv'
<1>1. \A k \in 1..Len(events) : events[k].inst \in Nat
  <2>1. \A k \in 1..Len(events) : events[k] \in Events
    BY DEF Types
  <2> QED
    BY <2>1 DEF Events, Instances
<1>2. launched \in Nat
  BY DEF Types, Instances
<1> QED
  BY <1>1, <1>2 DEF EventInv

LEMMA EventsAppended ==
    ASSUME Types, EventInv, NEW s \in Seq(Events), NEW t \in Seq(Events),
           events' = (events \o s) \o t, launched' = launched, alive' \subseteq alive,
           \A k \in 1..Len(s) :
               s[k].inst <= launched /\ (s[k].type = "exit" => s[k].inst \notin alive'),
           \A k \in 1..Len(t) :
               t[k].inst <= launched /\ (t[k].type = "exit" => t[k].inst \notin alive')
    PROVE  events' \in Seq(Events) /\ EventInv'
<1> DEFINE m == events \o s
<1>1. events \in Seq(Events) /\ Len(events) \in Nat /\ Len(s) \in Nat /\ Len(t) \in Nat
  BY DEF Types
<1>2. /\ m \in Seq(Events) /\ Len(m) = Len(events) + Len(s)
      /\ \A k \in 1..Len(m) : m[k] = IF k <= Len(events) THEN events[k] ELSE s[k - Len(events)]
  BY <1>1
<1>3. \A k \in 1..Len(m) :
         m[k].inst <= launched /\ (m[k].type = "exit" => m[k].inst \notin alive')
  <2>1. \A k \in 1..Len(m) : ~(k <= Len(events)) => k - Len(events) \in 1..Len(s)
    BY <1>1, <1>2
  <2> QED
    BY <1>1, <1>2, <2>1 DEF EventInv
<1>4. events' = m \o t
  OBVIOUS
<1> HIDE DEF m
<1>5. /\ events' \in Seq(Events) /\ Len(events') = Len(m) + Len(t)
      /\ \A k \in 1..Len(events') : events'[k] = IF k <= Len(m) THEN m[k] ELSE t[k - Len(m)]
  BY <1>1, <1>2, <1>4
<1>6. \A k \in 1..Len(events') : ~(k <= Len(m)) => k - Len(m) \in 1..Len(t)
  BY <1>1, <1>2, <1>5
<1> QED
  BY <1>1, <1>2, <1>3, <1>5, <1>6 DEF EventInv

(* The events of the registered owner.                                       *)
LEMMA TurnEvents ==
    ASSUME Types, OwnerInv, BudgetInv
    PROVE  /\ \A type \in {"exit", "started", "completed"} :
                 /\ TurnEvent(type) \in Events
                 /\ TurnEvent(type).type = type /\ TurnEvent(type).inst = owner.inst
           /\ owner.inst <= launched
<1>1. owner.inst \in Instances /\ owner.gen \in Nat /\ launched \in Instances
  BY DEF Types, Owners
<1>2. \A type \in {"exit", "started", "completed"} : TurnEvent(type) \in Events
  BY <1>1 DEF TurnEvent, Events
<1>3. owner.inst <= launched
  BY <1>1, NatBounds DEF OwnerInv, BudgetInv, Instances
<1> QED
  BY <1>2, <1>3 DEF TurnEvent

(* A record that names no live structured process proves there is none.      *)
LEMMA NobodyWrites ==
    ASSUME Inv, op.at # "recording", own.proc.kind # "structured" \/ own.proc.inst \notin alive
    PROVE  alive = {} /\ planned = {} /\ owner.inst = 0
<1>1. alive = {}
  BY ProcessValues DEF Inv, Types, OwnerInv
<1> QED
  BY <1>1 DEF Inv, Types, OwnerInv

(* Outside the recording of a launch, only the recorded process can write.   *)
LEMMA OneWriter ==
    ASSUME Inv, op.at # "recording"
    PROVE  alive \subseteq {own.proc.inst}
BY ProcessValues DEF Inv, Types, OwnerInv

(* What the exit of a structured process leaves.                             *)
LEMMA OwnerGone ==
    ASSUME Inv, NEW i \in Instances, NEW b \in BOOLEAN, OwnerExits(i, b), launched' = launched
    PROVE  /\ alive' = alive \ {i} /\ owner' \in Owners /\ turn' \in {"no", "starting", "yes"}
           /\ planned' \subseteq alive' \cap {owner'.inst}
           /\ (owner' = NoOwner /\ turn' = "no") \/ UNCHANGED <<owner, turn>>
           /\ owner'.inst # 0 => owner'.inst \in alive' /\ UNCHANGED <<owner, turn>>
           /\ events' \in Seq(Events) /\ EventInv'
<1>1. alive' = alive \ {i}
  BY DEF OwnerExits
<1>2. CASE owner.inst = i
  <2>1. /\ owner' = NoOwner /\ turn' = "no" /\ planned' = planned \ {i}
        /\ events' = Append(events, [type |-> "exit", inst |-> i, gen |-> owner.gen,
                                     unknown |-> turn # "no", intended |-> b])
    BY <1>2 DEF OwnerExits
  <2>2. NoOwner \in Owners /\ NoOwner.inst = 0
    BY NatBounds DEF NoOwner, Owners
  <2>3. planned' = {}
    BY <1>2, <2>1 DEF Inv, Types
  <2>4. owner.gen \in Nat /\ i <= launched
    BY <1>2, Fields, TurnEvents DEF Inv
  <2>5. [type |-> "exit", inst |-> i, gen |-> owner.gen, unknown |-> turn # "no",
         intended |-> b] \in Events
    BY <2>4 DEF Events
  <2>6. events' \in Seq(Events) /\ EventInv'
    BY <1>1, <2>1, <2>4, <2>5, NewEvents DEF Inv
  <2> QED
    BY <1>1, <2>1, <2>2, <2>3, <2>6
<1>3. CASE owner.inst # i
  <2>1. UNCHANGED <<owner, turn, planned, events>>
    BY <1>3 DEF OwnerExits
  <2>2. events' \in Seq(Events) /\ EventInv'
    BY <1>1, <2>1, EventsKept DEF Inv, Types, Instances
  <2> QED
    BY <1>1, <1>3, <2>1, <2>2 DEF Inv, Types, OwnerInv
<1> QED
  BY <1>2, <1>3

(* An operation that has a stage to go is known by its kind.                 *)
LEMMA Running == ASSUME Inv, op.kind = "none" PROVE op.at = "done"
BY DEF Inv, BudgetInv

(* Operations begin and end within their budget, and a launch spends one.    *)
LEMMA BudgetKept ==
    ASSUME Inv, launched' = launched, crashes' = crashes, alive' \subseteq alive,
           MayLaunch' => MayLaunch \/ (Free /\ Spare > 0),
           op'.kind = "none" => op'.at = "done"
    PROVE  BudgetInv'
<1>1. /\ launched \in Nat /\ crashes \in Nat /\ MaxCrashes \in Nat /\ MaxInstances \in Nat
      /\ alive \subseteq Nat
  BY NatBounds DEF Inv, Types, Instances
<1>2. launched' + (MaxCrashes - crashes') + (IF MayLaunch' THEN 1 ELSE 0) <= MaxInstances
  <2>1. CASE Free /\ Spare > 0
    BY <1>1, <2>1 DEF Spare
  <2>2. CASE MayLaunch
    BY <1>1, <2>2 DEF Inv, BudgetInv
  <2>3. CASE ~MayLaunch'
    <3>1. launched + (MaxCrashes - crashes) <= MaxInstances
      BY <1>1 DEF Inv, BudgetInv
    <3> QED
      BY <1>1, <2>3, <3>1
  <2> QED
    BY <2>1, <2>2, <2>3
<1>3. \A i \in alive' : i <= launched'
  BY DEF Inv, BudgetInv
<1> QED
  BY <1>2, <1>3 DEF BudgetInv

LEMMA BudgetSpent ==
    ASSUME Inv, launched' = launched + 1, crashes' = crashes,
           alive' \subseteq alive \cup {launched'},
           MayLaunch /\ ~MayLaunch', op'.kind = "none" => op'.at = "done"
    PROVE  BudgetInv'
<1>1. /\ launched \in Nat /\ crashes \in Nat /\ MaxCrashes \in Nat /\ MaxInstances \in Nat
      /\ alive \subseteq Nat
  BY NatBounds DEF Inv, Types, Instances
<1>2. launched' + (MaxCrashes - crashes') + (IF MayLaunch' THEN 1 ELSE 0) <= MaxInstances
  BY <1>1 DEF Inv, BudgetInv
<1>3. \A i \in alive' : i <= launched'
  BY <1>1 DEF Inv, BudgetInv
<1> QED
  BY <1>2, <1>3 DEF BudgetInv

-----------------------------------------------------------------------------
(* One lemma per action. *)

LEMMA StartNativeStep == ASSUME Inv, StartNative PROVE Inv'
<1>1. UNCHANGED <<own, receipts, restart, owner, turn, alive, planned, events, op, observer,
      crashes, restarts>>
  BY DEF StartNative, journal, rest
<1>2. /\ launched' = launched + 1 /\ launched' \in Instances
      /\ launched + (MaxCrashes - crashes) + (IF Free THEN 0 ELSE 1) < MaxInstances
  BY SpareLeft DEF Inv, StartNative, LaunchInstance
<1>3. native' \in Natives /\ Free
  BY <1>2, NativeValues DEF StartNative
<1>4. own.state \in {"absent", "native_tui"} /\ op.at # "stopping" /\ alive = {}
  <2>1. op.at \notin {"stopping", "recording"} /\ own.state \in {"absent", "native_tui"}
    BY DEF StartNative, NativeAllowed, Free, Inv, BudgetInv
  <2> QED
    BY <2>1, NobodyWrites, ProcessValues DEF Inv, RecordInv, JournalCoherent
<1>5. Types'
  BY <1>1, <1>2, <1>3, <1>4 DEF Inv, Types
<1>6. BudgetInv'
  BY <1>1, <1>2, <1>3, <1>4, <1>5, BoundAssumption DEF Inv, BudgetInv, MayLaunch, Types,
     Instances, Free
<1>7. RecordInv'
  BY <1>1 DEF Inv, RecordInv, JournalCoherent
<1>8. OwnerInv'
  BY <1>1 DEF Inv, OwnerInv
<1>9. StageInv'
  BY <1>1 DEF Inv, StageInv, ToStructured, ToNative
<1>10. StopInv'
  BY <1>1 DEF Inv, StopInv
<1>11. EventInv'
  BY <1>1, <1>2, <1>3, <1>4, <1>5, EventsKept DEF Inv, Types, Instances
<1>12. NativeInv'
  BY <1>1, <1>2, <1>3, <1>4, <1>5 DEF Inv, NativeInv
<1> QED
  BY <1>5, <1>6, <1>7, <1>8, <1>9, <1>10, <1>11, <1>12 DEF Inv

LEMMA NativePromptStep == ASSUME Inv, NativePrompt PROVE Inv'
<1>1. UNCHANGED <<own, receipts, restart, owner, turn, alive, planned, launched, events, op,
      observer, crashes, restarts>>
  BY DEF NativePrompt, journal, rest
<1>2. native' \in Natives /\ native'.inst = native.inst
  BY DEF Inv, Types, NativePrompt, Natives
<1>3. Types'
  BY <1>1, <1>2 DEF Inv, Types
<1>4. BudgetInv'
  BY <1>1 DEF Inv, BudgetInv, MayLaunch
<1>5. RecordInv'
  BY <1>1 DEF Inv, RecordInv, JournalCoherent
<1>6. OwnerInv'
  BY <1>1 DEF Inv, OwnerInv
<1>7. StageInv'
  BY <1>1 DEF Inv, StageInv, ToStructured, ToNative
<1>8. StopInv'
  BY <1>1 DEF Inv, StopInv
<1>9. EventInv'
  BY <1>1 DEF Inv, EventInv
<1>10. NativeInv'
  BY <1>1, <1>2, <1>3 DEF Inv, NativeInv
<1> QED
  BY <1>3, <1>4, <1>5, <1>6, <1>7, <1>8, <1>9, <1>10 DEF Inv

LEMMA NativeReportsStep == ASSUME Inv, NativeReports PROVE Inv'
<1>1. UNCHANGED <<own, receipts, restart, owner, turn, alive, planned, launched, events, op,
      observer, crashes, restarts>>
  BY DEF NativeReports, journal, rest
<1>2. native' \in Natives /\ native'.inst = native.inst
  BY DEF Inv, Types, NativeReports, Natives
<1>3. Types'
  BY <1>1, <1>2 DEF Inv, Types
<1>4. BudgetInv'
  BY <1>1 DEF Inv, BudgetInv, MayLaunch
<1>5. RecordInv'
  BY <1>1 DEF Inv, RecordInv, JournalCoherent
<1>6. OwnerInv'
  BY <1>1 DEF Inv, OwnerInv
<1>7. StageInv'
  BY <1>1 DEF Inv, StageInv, ToStructured, ToNative
<1>8. StopInv'
  BY <1>1 DEF Inv, StopInv
<1>9. EventInv'
  BY <1>1 DEF Inv, EventInv
<1>10. NativeInv'
  BY <1>1, <1>2, <1>3 DEF Inv, NativeInv
<1> QED
  BY <1>3, <1>4, <1>5, <1>6, <1>7, <1>8, <1>9, <1>10 DEF Inv

LEMMA NativeExitsStep == ASSUME Inv, NativeExits PROVE Inv'
<1>1. UNCHANGED <<own, receipts, owner, turn, alive, planned, launched, events, op,
      observer, crashes>>
  BY DEF NativeExits, journal
<1>2. native'.inst = 0 /\ (MaxRestarts = 0 => restart' = restart)
  <2>1. native'.inst = 0
    BY NativeValues DEF NativeExits
  <2>2. restart' = restart \/ restarts < MaxRestarts
    BY DEF NativeExits
  <2> QED
    BY <2>1, <2>2 DEF Inv, Types
<1>3. native' \in Natives /\ restart' \in BOOLEAN /\ restarts' \in Nat
  <2>1. native' \in Natives
    BY NativeValues DEF NativeExits
  <2>2. restart' \in BOOLEAN /\ restarts' \in Nat
    <3>1. restart \in BOOLEAN /\ restarts \in Nat
      BY DEF Inv, Types
    <3>2. \/ restart' = restart /\ restarts' = restarts
          \/ restart' = TRUE /\ restarts' = restarts + 1
      BY DEF NativeExits
    <3>3. restart' \in BOOLEAN
      BY <3>1, <3>2, Zenon
    <3>4. restarts' \in Nat
      BY <3>1, <3>2
    <3> QED
      BY <3>3, <3>4
  <2> QED
    BY <2>1, <2>2
<1>4. Types'
  BY <1>1, <1>2, <1>3 DEF Inv, Types
<1>5. BudgetInv'
  BY <1>1 DEF Inv, BudgetInv, MayLaunch
<1>6. RecordInv'
  BY <1>1 DEF Inv, RecordInv, JournalCoherent
<1>7. OwnerInv'
  BY <1>1 DEF Inv, OwnerInv
<1>8. StageInv'
  BY <1>1 DEF Inv, StageInv, ToStructured, ToNative
<1>9. StopInv'
  BY <1>1 DEF Inv, StopInv
<1>10. EventInv'
  BY <1>1 DEF Inv, EventInv
<1>11. NativeInv'
  BY <1>1, <1>2, <1>3, <1>4 DEF Inv, NativeInv
<1> QED
  BY <1>4, <1>5, <1>6, <1>7, <1>8, <1>9, <1>10, <1>11 DEF Inv

LEMMA AutoRestartStep == ASSUME Inv, AutoRestart PROVE Inv'
<1>1. UNCHANGED <<own, receipts, owner, turn, alive, planned, events, op, observer, crashes,
      restarts>>
  BY DEF AutoRestart, journal, rest
<1>2. \/ UNCHANGED <<launched, native>>
      \/ /\ launched' = launched + 1 /\ launched' \in Instances /\ native' \in Natives
         /\ launched + (MaxCrashes - crashes) + (IF Free THEN 0 ELSE 1) < MaxInstances
  BY SpareLeft, NativeValues DEF Inv, AutoRestart, LaunchInstance
<1>3. restart /\ restart' = FALSE
  BY DEF AutoRestart
<1>4. Types'
  BY <1>1, <1>2, <1>3 DEF Inv, Types
<1>5. BudgetInv'
  <2>1. CASE UNCHANGED <<launched, native>>
    BY <1>1, <2>1 DEF Inv, BudgetInv, MayLaunch
  <2>2. CASE /\ launched' = launched + 1
             /\ launched + (MaxCrashes - crashes) + (IF Free THEN 0 ELSE 1) < MaxInstances
    BY <1>1, <2>2, BoundAssumption DEF Inv, Types, Instances, BudgetInv, MayLaunch, Free
  <2> QED
    BY <1>2, <2>1, <2>2
<1>6. RecordInv'
  BY <1>1 DEF Inv, RecordInv, JournalCoherent
<1>7. OwnerInv'
  BY <1>1 DEF Inv, OwnerInv
<1>8. StageInv'
  BY <1>1 DEF Inv, StageInv, ToStructured, ToNative
<1>9. StopInv'
  BY <1>1 DEF Inv, StopInv
<1>10. EventInv'
  BY <1>1, <1>2, <1>3, <1>4, EventsKept DEF Inv, Types, Instances
<1>11. NativeInv'
  BY <1>1, <1>2, <1>3, <1>4 DEF Inv, NativeInv
<1> QED
  BY <1>4, <1>5, <1>6, <1>7, <1>8, <1>9, <1>10, <1>11 DEF Inv

LEMMA ObserveBeginsStep == ASSUME Inv, ObserveBegins PROVE Inv'
<1>1. UNCHANGED <<own, receipts, native, restart, owner, turn, alive, planned, launched,
      events, op, crashes, restarts>>
  BY DEF ObserveBegins, journal, processes, rest
<1>2. observer' \in Observations /\ observer'.existing.state \in {"absent", "native_tui"}
  <2>1. native.inst \in Instances /\ own \in Records
    BY Fields DEF Inv, Types
  <2> QED
    BY <2>1 DEF ObserveBegins, Observations
<1>3. Types'
  BY <1>1, <1>2 DEF Inv, Types
<1>4. BudgetInv'
  BY <1>1 DEF Inv, BudgetInv, MayLaunch
<1>5. RecordInv'
  BY <1>1, <1>2, <1>3 DEF Inv, RecordInv, JournalCoherent
<1>6. OwnerInv'
  BY <1>1 DEF Inv, OwnerInv
<1>7. StageInv'
  BY <1>1 DEF Inv, StageInv, ToStructured, ToNative
<1>8. StopInv'
  BY <1>1 DEF Inv, StopInv
<1>9. EventInv'
  BY <1>1 DEF Inv, EventInv
<1>10. NativeInv'
  BY <1>1 DEF Inv, NativeInv
<1> QED
  BY <1>3, <1>4, <1>5, <1>6, <1>7, <1>8, <1>9, <1>10 DEF Inv

LEMMA ObserveEndsStep == ASSUME Inv, ObserveEnds PROVE Inv'
<1>1. UNCHANGED <<receipts, native, restart, owner, turn, alive, planned, launched, events,
      op, crashes, restarts>>
  BY DEF ObserveEnds, processes, rest
<1>2. observer' = NoObservation /\ observer' \in Observations
  <2>1. Absent \in Records /\ 0 \in Instances
    BY NatBounds, ProcessValues DEF Absent, Records, States, Ids
  <2> QED
    BY <2>1 DEF ObserveEnds, NoObservation, Observations
<1>3. \/ UNCHANGED own
      \/ /\ own.state \in {"absent", "native_tui"} /\ own.proc.kind # "structured"
         /\ OwnIs("native_tui", IF own.state = "absent" THEN 0 ELSE own.gen + 1,
                  observer.inst, Pty(observer.inst), "none")
  <2>1. Types /\ observer.inst \in Instances
    BY Fields DEF Inv
  <2>2. CASE native.inst = observer.inst /\ own = observer.existing
    <3>1. own.state \in {"absent", "native_tui"} /\ own.proc.kind # "structured"
      BY <2>2, ProcessValues DEF ObserveEnds, Inv, RecordInv, JournalCoherent
    <3>2. own' = ObservedRecord(own, observer.inst)
      BY <2>2 DEF ObserveEnds
    <3> QED
      BY <2>1, <3>1, <3>2, ObservedFields DEF OwnIs
  <2> QED
    BY <2>2 DEF ObserveEnds
<1>4. Types'
  BY <1>1, <1>2, <1>3 DEF Inv, Types, OwnIs
<1>5. BudgetInv'
  BY <1>1 DEF Inv, BudgetInv, MayLaunch, OwnIs
<1>6. RecordInv'
  BY <1>1, <1>2, <1>3, <1>4, ProcessValues DEF Inv, RecordInv, JournalCoherent, PendingStates,
     NoProcess, Structured, Pty, OwnIs, OwnIs
<1>7. OwnerInv'
  <2>1. CASE UNCHANGED own
    BY <1>1, <2>1 DEF Inv, OwnerInv
  <2>2. CASE own.state \in {"absent", "native_tui"} /\ own.proc.kind # "structured"
    <3>1. op.at # "recording"
      BY <2>2 DEF Inv, StageInv, ToStructured
    <3>2. alive = {}
      BY <2>2, <3>1, ProcessValues DEF Inv, Types, OwnerInv
    <3> QED
      BY <1>1, <3>2 DEF Inv, OwnerInv
  <2> QED
    BY <1>3, <2>1, <2>2
<1>8. StageInv'
  BY <1>1, <1>2, <1>3, <1>4 DEF Inv, StageInv, ToStructured, ToNative, PendingStates,
     NoProcess, Structured, Pty, OwnIs, OwnIs
<1>9. StopInv'
  BY <1>1, <1>2, <1>3, <1>4 DEF Inv, StopInv, PendingStates, NoProcess, Structured, Pty, OwnIs
<1>10. EventInv'
  BY <1>1 DEF Inv, EventInv, OwnIs
<1>11. NativeInv'
  BY <1>1, <1>2, <1>3, <1>4 DEF Inv, NativeInv, OwnIs
<1> QED
  BY <1>4, <1>5, <1>6, <1>7, <1>8, <1>9, <1>10, <1>11 DEF Inv

LEMMA BeginToStructuredStep == ASSUME Inv, NEW h \in Handoffs, BeginToStructured(h) PROVE Inv'
<1>1. UNCHANGED <<own, receipts, native, restart, owner, turn, alive, planned, launched,
      events, observer, crashes, restarts>>
  BY DEF BeginToStructured, journal, processes, rest
<1>2. OpIs("to_structured", "checking", op'.gen, native.inst, 0) /\ op'.id = h
      /\ Free /\ Spare > 0
  <2>1. PICK g \in Expected :
           op' = [kind |-> "to_structured", at |-> "checking", id |-> h, gen |-> g,
                  inst |-> native.inst, new |-> 0, running |-> (native.turn = "reported"),
                  unknown |-> FALSE]
    BY DEF BeginToStructured, Idle
  <2>2. g \in Nat /\ native.inst \in Instances /\ 0 \in Instances
    BY Fields, NatBounds DEF Inv, Expected
  <2> QED
    BY <2>1, <2>2 DEF BeginToStructured, OpIs, Operations, Kinds, Stages, Ids
<1>3. Types'
  BY <1>1, <1>2 DEF Inv, Types, OpIs
<1>4. BudgetInv'
  BY <1>1, <1>2, <1>3, BudgetKept, Running DEF MayLaunch, OpIs, Free
<1>5. RecordInv'
  BY <1>1 DEF Inv, RecordInv, JournalCoherent, OpIs
<1>6. OwnerInv'
  BY <1>1, <1>2, <1>3 DEF Inv, OwnerInv, OpIs, Free, BudgetInv
<1>7. StageInv'
  BY <1>1, <1>2, <1>3 DEF Inv, StageInv, ToStructured, ToNative, OpIs
<1>8. StopInv'
  BY <1>1, <1>2, <1>3 DEF Inv, StopInv, OpIs
<1>9. EventInv'
  BY <1>1 DEF Inv, EventInv, OpIs
<1>10. NativeInv'
  BY <1>1, <1>2, <1>3 DEF Inv, NativeInv, OpIs, Free, BudgetInv
<1> QED
  BY <1>3, <1>4, <1>5, <1>6, <1>7, <1>8, <1>9, <1>10 DEF Inv

LEMMA RecordToStructuredStep == ASSUME Inv, RecordToStructured PROVE Inv'
<1>1. UNCHANGED <<native, restart, owner, turn, alive, planned, launched, events, observer,
      crashes, restarts>>
  BY DEF RecordToStructured, processes, rest
<1>2. /\ op.at = "checking" /\ op.id \in Handoffs /\ op.id # "none" /\ Types
  BY HandoffsAssumption DEF RecordToStructured, Inv, StageInv
<1>3. own.state \in {"absent", "native_tui"} => alive = {} /\ own.proc.kind # "structured"
  <2>1. own.state \in {"absent", "native_tui"} => own.proc.kind # "structured"
    BY ProcessValues DEF Inv, RecordInv, JournalCoherent
  <2> QED
    BY <2>1, <1>2, ProcessValues DEF Inv, Types, OwnerInv
<1>4. \/ Observed = own
      \/ /\ own.state \in {"absent", "native_tui"} /\ Observed \in Records
         /\ Observed.state = "native_tui" /\ Observed.inst = native.inst
         /\ Observed.proc = Pty(native.inst) /\ Observed.pending = "none"
  BY <1>2, Fields, ObservedFields DEF Observed
<1>5. \/ /\ own' \in Records /\ own'.state = "handoff_to_structured_pending"
         /\ own'.pending = op.id /\ own'.proc.kind # "structured"
         /\ own'.proc # NoProcess => own'.proc.inst = own'.inst
         /\ own'.proc.kind = "none" => own'.proc = NoProcess
         /\ alive = {} /\ OpIs("to_structured", "stopping", op.gen, op.inst, op.new)
      \/ /\ OpIs("none", "done", 0, 0, 0) /\ UNCHANGED own
      \/ /\ OpIs("none", "done", 0, 0, 0) /\ alive = {}
         /\ OwnIs("native_tui", own'.gen, native.inst, Pty(native.inst), "none")
  <2>1. CASE /\ MayHandOver(Observed) /\ Go("stopping") /\ op.kind = "to_structured"
             /\ own' = [Observed EXCEPT !.state = "handoff_to_structured_pending",
                                       !.pending = op.id]
    <3>1. Observed.state = "native_tui" /\ Observed \in Records /\ alive = {}
      BY <2>1, <1>2, <1>3, <1>4 DEF MayHandOver, Types
    <3>2. /\ Observed.proc.kind # "structured"
          /\ Observed.proc # NoProcess => Observed.proc.inst = Observed.inst
          /\ Observed.proc.kind = "none" => Observed.proc = NoProcess
      BY <3>1, <1>3, <1>4, Fields, ProcessValues, <1>2 DEF Inv, RecordInv, JournalCoherent
    <3>3. /\ own' \in Records /\ own'.state = "handoff_to_structured_pending"
          /\ own'.pending = op.id /\ own'.proc = Observed.proc /\ own'.inst = Observed.inst
      BY <2>1, <3>1, <1>2 DEF Records, States, PendingStates, Ids
    <3>4. OpIs("to_structured", "stopping", op.gen, op.inst, op.new)
      BY <2>1, <1>2, Gone DEF Stages
    <3> QED
      BY <3>1, <3>2, <3>3, <3>4
  <2>2. CASE own' = Observed /\ Finish
    BY <2>2, <1>3, <1>4, Finished DEF OwnIs
  <2> QED
    BY <2>1, <2>2 DEF RecordToStructured
<1>6. receipts' \in [Handoffs -> Receipts]
  <2>1. own.gen \in Nat /\ op.gen \in Nat /\ receipts \in [Handoffs -> Receipts]
    BY Fields, <1>2 DEF Types
  <2>2. \A status \in {"pending", "completed"}, target \in {"structured"} :
           Receipt(status, target, op.gen) \in Receipts
    BY <2>1 DEF Receipt, Receipts
  <2> QED
    BY <2>1, <2>2, <1>2 DEF RecordToStructured
<1>7. Types'
  BY <1>1, <1>2, <1>3, <1>4, <1>5, <1>6 DEF Inv, Types, OwnIs, OpIs
<1>8. BudgetInv'
  BY <1>1, <1>2, <1>3, <1>4, <1>5, <1>6, <1>7, BudgetKept, Running DEF MayLaunch, OwnIs, OpIs
<1>9. RecordInv'
  BY <1>1, <1>2, <1>3, <1>4, <1>5, <1>6, <1>7, ProcessValues, Fields DEF Inv, RecordInv,
     JournalCoherent, PendingStates, NoProcess, Structured, Pty, OwnIs, OpIs
<1>10. OwnerInv'
  BY <1>1, <1>2, <1>3, <1>4, <1>5, <1>6, <1>7, ProcessValues, Fields DEF Inv, OwnerInv,
     PendingStates, NoProcess, Structured, Pty, OwnIs, OpIs
<1>11. StageInv'
  BY <1>1, <1>2, <1>3, <1>4, <1>5, <1>6, <1>7, ProcessValues, Fields DEF Inv, StageInv,
     ToStructured, ToNative, PendingStates, NoProcess, Structured, Pty, OwnIs, OpIs
<1>12. StopInv'
  BY <1>1, <1>2, <1>3, <1>4, <1>5, <1>6, <1>7, ProcessValues, Fields DEF Inv, StopInv,
     PendingStates, NoProcess, Structured, Pty, OwnIs, OpIs
<1>13. EventInv'
  BY <1>1 DEF Inv, EventInv, OwnIs, OpIs
<1>14. NativeInv'
  BY <1>1, <1>2, <1>3, <1>4, <1>5, <1>6, <1>7 DEF Inv, NativeInv, OwnIs, OpIs
<1> QED
  BY <1>7, <1>8, <1>9, <1>10, <1>11, <1>12, <1>13, <1>14 DEF Inv

LEMMA StopNativeStep == ASSUME Inv, StopNative PROVE Inv'
<1>1. UNCHANGED <<restart, owner, turn, alive, planned, launched, events, observer, crashes,
      restarts>>
  BY DEF StopNative, rest
<1>2. /\ op.at = "stopping" /\ op.kind = "to_structured" /\ alive = {}
      /\ own.state = "handoff_to_structured_pending" /\ own.proc.kind # "structured"
  <2>1. /\ op.at = "stopping" /\ op.kind = "to_structured"
        /\ own.state = "handoff_to_structured_pending" /\ own.proc.kind # "structured"
    BY DEF StopNative, Inv, StopInv
  <2> QED
    BY <2>1, ProcessValues DEF Inv, Types, OwnerInv
<1>3. \/ /\ OpIs(op.kind, "clearing", op.gen, op.inst, op.new) /\ UNCHANGED <<own, receipts>>
         /\ native'.inst = 0
      \/ /\ OpIs("none", "done", 0, 0, 0) /\ receipts' \in [Handoffs -> Receipts]
         /\ OwnIs("native_tui", own.gen, own.inst, own.proc, "none")
  <2>1. CASE Go("clearing") /\ UNCHANGED journal /\ native' = NoNative
    BY <2>1, Gone, NativeValues DEF Inv, Stages, journal
  <2>2. CASE /\ own' = [own EXCEPT !.state = "native_tui", !.pending = "none",
                                   !.failure = "stop_failed"]
             /\ Settle(op.id, "failed") /\ Finish
    <3>1. own \in Records /\ receipts \in [Handoffs -> Receipts]
      BY DEF Inv, Types
    <3> QED
      BY <2>2, <3>1, Finished, SettledReceipts DEF OwnIs, Records, States, Ids
  <2> QED
    BY <2>1, <2>2 DEF StopNative
<1>4. native' \in Natives /\ native'.inst \in {0, native.inst}
  <2>1. native' = NoNative \/ native' = [native EXCEPT !.stopping = @ \/ native.inst = op.inst]
    BY DEF StopNative
  <2>2. (native.stopping \/ native.inst = op.inst) \in BOOLEAN /\ Types
    BY DEF Inv, Types, Natives
  <2> QED
    BY <2>1, <2>2, NativeValues, StoppedNative
<1>5. Types'
  BY <1>1, <1>2, <1>3, <1>4 DEF Inv, Types, OwnIs, OpIs
<1>6. BudgetInv'
  BY <1>1, <1>2, <1>3, <1>4, <1>5, BudgetKept, Running DEF MayLaunch, OwnIs, OpIs
<1>7. RecordInv'
  BY <1>1, <1>2, <1>3, <1>4, <1>5 DEF Inv, RecordInv, JournalCoherent, PendingStates,
     NoProcess, Structured, Pty, OwnIs, OpIs
<1>8. OwnerInv'
  BY <1>1, <1>2, <1>3, <1>4, <1>5 DEF Inv, OwnerInv, PendingStates, NoProcess, Structured,
     Pty, OwnIs, OpIs
<1>9. StageInv'
  BY <1>1, <1>2, <1>3, <1>4, <1>5 DEF Inv, StageInv, ToStructured, ToNative, PendingStates,
     NoProcess, Structured, Pty, OwnIs, OpIs
<1>10. StopInv'
  BY <1>1, <1>2, <1>3, <1>4, <1>5 DEF Inv, StopInv, PendingStates, NoProcess, Structured, Pty,
     OwnIs, OpIs
<1>11. EventInv'
  BY <1>1 DEF Inv, EventInv, OwnIs, OpIs
<1>12. NativeInv'
  BY <1>1, <1>2, <1>3, <1>4, <1>5 DEF Inv, NativeInv, OwnIs, OpIs
<1> QED
  BY <1>5, <1>6, <1>7, <1>8, <1>9, <1>10, <1>11, <1>12 DEF Inv

LEMMA StopStructuredStep == ASSUME Inv, StopStructured PROVE Inv'
<1>1. UNCHANGED <<native, restart, launched, observer, crashes, restarts>>
  BY DEF StopStructured, rest
<1>2. /\ op.at = "stopping" /\ op.inst = own.inst /\ op.kind \in {"to_native", "restart", "stop"}
      /\ own.state \in PendingStates \cup {"structured"}
      /\ op.kind = "restart" => own.state = "handoff_to_structured_pending"
      /\ op.kind = "to_native" => own.state = "handoff_to_native_pending"
      /\ op.kind # "stop" => own.proc.kind # "pty"
      /\ Types
  BY DEF StopStructured, Inv, StopInv
<1>3. \/ /\ OpIs(op.kind, IF op.kind = "stop" THEN "committing_stop" ELSE "clearing", op.gen,
                 op.inst, op.new)
         /\ alive' = {} /\ planned' = {} /\ owner' \in Owners /\ owner'.inst = 0
         /\ turn' \in {"no", turn} /\ UNCHANGED <<own, receipts>>
      \/ /\ OpIs("none", "done", 0, 0, 0) /\ UNCHANGED <<alive, owner, turn>>
         /\ planned' \subseteq alive \cap {owner.inst} /\ receipts' \in [Handoffs -> Receipts]
         /\ \/ UNCHANGED own
            \/ /\ op.kind # "stop" /\ own.proc.kind # "pty"
               /\ OwnIs("structured", own.gen, own.inst, own.proc, "none")
  <2>1. CASE /\ OwnerStops /\ UNCHANGED journal
             /\ Go(IF op.kind = "stop" THEN "committing_stop" ELSE "clearing")
    <3>1. OpIs(op.kind, IF op.kind = "stop" THEN "committing_stop" ELSE "clearing", op.gen,
               op.inst, op.new)
      BY <2>1, <1>2, Gone DEF Stages
    <3>2. CASE owner.inst # 0 /\ alive' = alive \ {owner.inst} /\ owner' = NoOwner /\ turn' = "no"
               /\ planned' = planned \ {owner.inst}
      <4>1. owner.inst \in alive /\ alive \subseteq {own.proc.inst}
        BY <3>2, <1>2, OneWriter DEF Inv, OwnerInv
      <4>2. alive' = {} /\ planned' = {}
        BY <3>2, <4>1, <1>2 DEF Types
      <4>3. NoOwner \in Owners /\ NoOwner.inst = 0
        BY NatBounds DEF NoOwner, Owners
      <4> QED
        BY <2>1, <3>1, <3>2, <4>2, <4>3 DEF journal
    <3>3. CASE /\ owner.inst = 0 /\ own.proc.inst \notin alive
               /\ UNCHANGED <<alive, owner, turn, planned>>
      BY <2>1, <3>1, <3>3, <1>2, NobodyWrites DEF journal, Types
    <3> QED
      BY <2>1, <3>2, <3>3 DEF OwnerStops
  <2>2. CASE /\ OwnerRemains /\ Finish
             /\ \/ UNCHANGED journal
                \/ /\ op.kind # "stop" /\ Settle(op.id, "failed")
                   /\ own' = [own EXCEPT !.state = "structured", !.pending = "none",
                                         !.failure = "stop_failed"]
    <3>1. OpIs("none", "done", 0, 0, 0) /\ UNCHANGED <<alive, owner, turn>>
      BY <2>2, Finished DEF OwnerRemains
    <3>2. planned' \subseteq alive \cap {owner.inst}
      BY <2>2, <1>2 DEF OwnerRemains, Inv, OwnerInv, Types
    <3>3. own \in Records /\ receipts \in [Handoffs -> Receipts]
      BY <1>2 DEF Types
    <3>4. receipts' \in [Handoffs -> Receipts]
      BY <2>2, <3>3, SettledReceipts DEF journal
    <3>5. \/ UNCHANGED own
          \/ /\ op.kind # "stop" /\ own.proc.kind # "pty"
             /\ OwnIs("structured", own.gen, own.inst, own.proc, "none")
      BY <2>2, <3>3, <1>2 DEF OwnIs, Records, States, Ids, journal
    <3> QED
      BY <3>1, <3>2, <3>4, <3>5
  <2> QED
    BY <2>1, <2>2 DEF StopStructured
<1>4. events' \in Seq(Events) /\ EventInv'
  <2>1. CASE UNCHANGED events /\ alive' = alive
    BY <1>1, <2>1, EventsKept DEF Inv, Types, Instances
  <2>2. CASE /\ events' = events \o (IF Interrupted THEN <<TurnEvent("completed")>> ELSE <<>>)
                              \o <<[TurnEvent("exit") EXCEPT !.intended = TRUE]>>
             /\ alive' = alive \ {owner.inst}
    <3> DEFINE first == IF Interrupted THEN <<TurnEvent("completed")>> ELSE <<>>
               second == <<[TurnEvent("exit") EXCEPT !.intended = TRUE]>>
    <3>1. /\ TurnEvent("completed") \in Events /\ TurnEvent("exit") \in Events
          /\ TurnEvent("completed").type # "exit" /\ TurnEvent("completed").inst <= launched
          /\ TurnEvent("exit").inst <= launched /\ TurnEvent("exit").inst = owner.inst
      BY TurnEvents DEF Inv
    <3>2. /\ [TurnEvent("exit") EXCEPT !.intended = TRUE] \in Events
          /\ [TurnEvent("exit") EXCEPT !.intended = TRUE].inst = owner.inst
          /\ owner.inst <= launched
      BY <3>1 DEF Events
    <3>3. first \in Seq(Events) /\ second \in Seq(Events) /\ events \in Seq(Events)
      BY <3>1, <3>2, <1>2 DEF Types
    <3>4. owner.inst \notin alive'
      BY <2>2
    <3>5. \A k \in 1..Len(second) :
           second[k].inst <= launched /\ (second[k].type = "exit" => second[k].inst \notin alive')
      <4>1. Len(second) = 1 /\ second[1].inst = owner.inst
        BY <3>2
      <4> HIDE DEF second
      <4> QED
        BY <3>2, <3>4, <4>1
    <3>6. \A k \in 1..Len(first) :
           first[k].inst <= launched /\ (first[k].type = "exit" => first[k].inst \notin alive')
      <4>1. \/ Len(first) = 1 /\ first[1] = TurnEvent("completed")
            \/ Len(first) = 0
        OBVIOUS
      <4> HIDE DEF first
      <4> QED
        BY <3>1, <4>1
    <3>7. events' = (events \o first) \o second
      BY <2>2
    <3> HIDE DEF first, second
    <3> QED
      BY <1>1, <2>2, <3>3, <3>5, <3>6, <3>7, EventsAppended DEF Inv
  <2> QED
    BY <2>1, <2>2 DEF StopStructured, OwnerStops, OwnerRemains
<1>5. Types'
  BY <1>1, <1>2, <1>3, <1>4 DEF Inv, Types, OwnIs, OpIs
<1>6. BudgetInv'
  BY <1>1, <1>2, <1>3, <1>4, <1>5, BudgetKept, Running DEF MayLaunch, OwnIs, OpIs
<1>7. RecordInv'
  BY <1>1, <1>2, <1>3, <1>4, <1>5, ProcessValues DEF Inv, RecordInv, JournalCoherent,
     PendingStates, NoProcess, Structured, Pty, OwnIs, OpIs
<1>8. OwnerInv'
  BY <1>1, <1>2, <1>3, <1>4, <1>5, ProcessValues DEF Inv, OwnerInv, PendingStates, NoProcess,
     Structured, Pty, OwnIs, OpIs
<1>9. StageInv'
  BY <1>1, <1>2, <1>3, <1>4, <1>5, ProcessValues DEF Inv, StageInv, ToStructured, ToNative,
     PendingStates, NoProcess, Structured, Pty, OwnIs, OpIs
<1>10. StopInv'
  BY <1>1, <1>2, <1>3, <1>4, <1>5, ProcessValues DEF Inv, StopInv, PendingStates, NoProcess,
     Structured, Pty, OwnIs, OpIs
<1>11. EventInv'
  BY <1>4
<1>12. NativeInv'
  BY <1>1, <1>2, <1>3, <1>4, <1>5 DEF Inv, NativeInv, OwnIs, OpIs
<1> QED
  BY <1>5, <1>6, <1>7, <1>8, <1>9, <1>10, <1>11, <1>12 DEF Inv

LEMMA ClearOwnerStep == ASSUME Inv, ClearOwner PROVE Inv'
<1>1. UNCHANGED <<receipts, native, restart, owner, turn, alive, planned, launched, events,
      observer, crashes, restarts>>
  BY DEF ClearOwner, processes, rest
<1>2. op.at = "clearing" /\ alive = {}
  BY DEF ClearOwner, Inv, StageInv
<1>3. OwnIs(own.state, own.gen, own.inst, NoProcess, own.pending)
  <2>1. own \in Records /\ NoProcess \in Processes /\ own.turn \in BOOLEAN
    BY Fields, ProcessValues DEF Inv, Types
  <2> QED
    BY <2>1 DEF ClearOwner, OwnIs, Records
<1>4. OpIs(op.kind, IF op.kind = "to_native" THEN "launching" ELSE "spawning",
      own.gen, own.inst, op.new)
  <2>1. op \in Operations /\ own.gen \in Nat /\ own.inst \in Instances
    BY Fields DEF Inv, Types
  <2> QED
    BY <2>1 DEF ClearOwner, OpIs, Operations, Stages
<1>5. Types'
  BY <1>1, <1>2, <1>3, <1>4 DEF Inv, Types, OwnIs, OpIs
<1>6. BudgetInv'
  BY <1>1, <1>2, <1>3, <1>4, <1>5, BudgetKept, Running DEF MayLaunch, OwnIs, OpIs
<1>7. RecordInv'
  BY <1>1, <1>2, <1>3, <1>4, <1>5 DEF Inv, RecordInv, JournalCoherent, PendingStates,
     NoProcess, Structured, Pty, OwnIs, OpIs
<1>8. OwnerInv'
  BY <1>1, <1>2, <1>3, <1>4, <1>5 DEF Inv, OwnerInv, PendingStates, NoProcess, Structured,
     Pty, OwnIs, OpIs
<1>9. StageInv'
  BY <1>1, <1>2, <1>3, <1>4, <1>5 DEF Inv, StageInv, ToStructured, ToNative, PendingStates,
     NoProcess, Structured, Pty, OwnIs, OpIs
<1>10. StopInv'
  BY <1>1, <1>2, <1>3, <1>4, <1>5 DEF Inv, StopInv, PendingStates, NoProcess, Structured, Pty,
     OwnIs, OpIs
<1>11. EventInv'
  BY <1>1 DEF Inv, EventInv, OwnIs, OpIs
<1>12. NativeInv'
  BY <1>1, <1>2, <1>3, <1>4, <1>5 DEF Inv, NativeInv, OwnIs, OpIs
<1> QED
  BY <1>5, <1>6, <1>7, <1>8, <1>9, <1>10, <1>11, <1>12 DEF Inv

LEMMA SpawnReplacementStep == ASSUME Inv, SpawnReplacement PROVE Inv'
<1>1. UNCHANGED <<own, receipts, native, restart, owner, turn, planned, events, observer,
      crashes, restarts>>
  BY DEF SpawnReplacement, journal, rest
<1>2. op.at \in {"spawning"}
  BY DEF SpawnReplacement
<1>3. alive = {} /\ planned = {}
  <2>1. alive = {}
    BY <1>2, ProcessValues DEF Inv, Types, OwnerInv, StageInv
  <2> QED
    BY <2>1 DEF Inv, Types
<1>4. \/ /\ OpIs(op.kind, "failing", op.gen, op.inst, op.new) /\ UNCHANGED <<alive, launched>>
      \/ /\ owner.inst = 0 /\ launched' = launched + 1 /\ launched' \in Instances
         /\ launched' # 0 /\ alive' = {launched'}
         /\ OpIs(op.kind, "recording", op.gen, op.inst, launched')
  <2>1. CASE Go("failing") /\ UNCHANGED <<alive, launched>>
    BY <2>1, Gone DEF Inv, Stages
  <2>2. CASE /\ owner.inst = 0 /\ LaunchInstance /\ alive' = alive \cup {launched'}
             /\ op' = [op EXCEPT !.at = "recording", !.new = launched']
    <3>1. alive = {}
      BY <1>2, ProcessValues DEF Inv, Types, OwnerInv, StageInv
    <3>2. launched' = launched + 1 /\ launched' \in Instances /\ launched' # 0
      BY <1>2, <2>2, NatBounds DEF Inv, Types, BudgetInv, MayLaunch, LaunchInstance, Instances
    <3>3. op \in Operations
      BY DEF Inv, Types
    <3>4. OpIs(op.kind, "recording", op.gen, op.inst, launched')
      BY <2>2, <3>2, <3>3 DEF OpIs, Operations, Stages
    <3>5. alive' = {launched'}
      BY <1>3, <2>2
    <3> QED
      BY <2>2, <3>2, <3>4, <3>5
  <2> QED
    BY <2>1, <2>2 DEF SpawnReplacement
<1>5. Types'
  BY <1>1, <1>2, <1>3, <1>4 DEF Inv, Types, OpIs
<1>6. BudgetInv'
  <2>1. CASE OpIs(op.kind, "failing", op.gen, op.inst, op.new) /\ UNCHANGED <<alive, launched>>
    BY <1>1, <2>1, <1>2, BudgetKept, Running DEF MayLaunch, OpIs
  <2>2. CASE /\ launched' = launched + 1 /\ alive' = {launched'}
             /\ OpIs(op.kind, "recording", op.gen, op.inst, launched')
    BY <1>1, <1>2, <2>2, BudgetSpent, Running DEF MayLaunch, OpIs
  <2> QED
    BY <1>4, <2>1, <2>2
<1>7. RecordInv'
  BY <1>1, ProcessValues DEF Inv, RecordInv, JournalCoherent, OpIs
<1>8. OwnerInv'
  BY <1>1, <1>2, <1>3, <1>4, <1>5, ProcessValues DEF Inv, OwnerInv, OpIs
<1>9. StageInv'
  BY <1>1, <1>2, <1>3, <1>4, <1>5, ProcessValues DEF Inv, StageInv, ToStructured, ToNative,
     OpIs
<1>10. StopInv'
  BY <1>1, <1>2, <1>3, <1>4, <1>5, ProcessValues DEF Inv, StopInv, OpIs
<1>11. EventInv'
  BY <1>1, <1>2, <1>3, <1>4, <1>5, EventsKept DEF Inv, Types, Instances, OpIs
<1>12. NativeInv'
  BY <1>1, <1>2, <1>3, <1>4, <1>5 DEF Inv, NativeInv, OpIs, StageInv, ToStructured
<1> QED
  BY <1>5, <1>6, <1>7, <1>8, <1>9, <1>10, <1>11, <1>12 DEF Inv

LEMMA RecordReplacementStep == ASSUME Inv, RecordReplacement PROVE Inv'
<1>1. UNCHANGED <<receipts, native, restart, owner, turn, alive, planned, launched, events,
      observer, crashes, restarts>>
  BY DEF RecordReplacement, processes, rest
<1>2. op.at = "recording" /\ own.gen = op.gen /\ own.inst = op.inst /\ op.new # 0
      /\ owner.inst = 0 /\ alive \subseteq {op.new}
  BY DEF RecordReplacement, Inv, StageInv, OwnerInv
<1>3. OwnIs(own.state, own.gen + 1, op.new, Structured(op.new), own.pending)
  <2>1. own \in Records /\ own.gen + 1 \in Nat /\ op.new \in Instances
        /\ Structured(op.new) \in Processes
    BY Fields, ProcessValues DEF Inv, Types
  <2>2. own' = [own EXCEPT !.gen = own.gen + 1, !.inst = op.new, !.proc = Structured(op.new)]
    BY <1>2 DEF RecordReplacement
  <2> QED
    BY <2>1, <2>2 DEF OwnIs, Records
<1>4. OpIs(op.kind, "verifying", op.gen, op.inst, op.new)
  <2>1. Go("verifying") /\ "verifying" \in Stages /\ Types
    BY <1>2 DEF RecordReplacement, Stages, Inv
  <2> QED
    BY <2>1, Gone
<1>5. Types'
  BY <1>1, <1>2, <1>3, <1>4 DEF Inv, Types, OwnIs, OpIs
<1>6. BudgetInv'
  BY <1>1, <1>2, <1>3, <1>4, <1>5, BudgetKept, Running DEF MayLaunch, OwnIs, OpIs
<1>7. RecordInv'
  BY <1>1, <1>2, <1>3, <1>4, <1>5, ProcessValues DEF Inv, RecordInv, JournalCoherent,
     PendingStates, NoProcess, Structured, Pty, OwnIs, OpIs, StageInv, ToStructured
<1>8. OwnerInv'
  BY <1>1, <1>2, <1>3, <1>4, <1>5, ProcessValues DEF Inv, OwnerInv, PendingStates, NoProcess,
     Structured, Pty, OwnIs, OpIs
<1>9. StageInv'
  BY <1>1, <1>2, <1>3, <1>4, <1>5, ProcessValues DEF Inv, StageInv, ToStructured, ToNative,
     PendingStates, NoProcess, Structured, Pty, OwnIs, OpIs
<1>10. StopInv'
  BY <1>1, <1>2, <1>3, <1>4, <1>5, ProcessValues DEF Inv, StopInv, PendingStates, NoProcess,
     Structured, Pty, OwnIs, OpIs
<1>11. EventInv'
  BY <1>1 DEF Inv, EventInv, OwnIs, OpIs
<1>12. NativeInv'
  BY <1>1, <1>2, <1>3, <1>4, <1>5 DEF Inv, NativeInv, OwnIs, OpIs
<1> QED
  BY <1>5, <1>6, <1>7, <1>8, <1>9, <1>10, <1>11, <1>12 DEF Inv

LEMMA VerifyReplacementStep == ASSUME Inv, VerifyReplacement PROVE Inv'
<1>1. UNCHANGED <<own, receipts, native, restart, alive, planned, launched, events,
      observer, crashes, restarts>>
  BY DEF VerifyReplacement, journal, rest
<1>2. /\ op.at = "verifying" /\ owner.inst = 0 /\ own.gen = op.gen + 1
      /\ planned = {}
  BY DEF VerifyReplacement, Inv, StageInv, Types
<1>3. \/ OpIs(op.kind, "unwinding", op.gen, op.inst, op.new) /\ UNCHANGED <<owner, turn>>
      \/ /\ OpIs(op.kind, "committing", op.gen, op.inst, op.new) /\ op.new \in alive
         /\ owner' \in Owners /\ owner'.inst = op.new /\ owner'.gen = own.gen /\ turn' = "no"
  <2>1. CASE Go("unwinding") /\ UNCHANGED <<owner, turn>>
    BY <2>1, Gone DEF Inv, Stages
  <2>2. CASE /\ op.new \in alive /\ owner' = [inst |-> op.new, gen |-> op.gen + 1]
             /\ turn' = "no" /\ Go("committing")
    BY <1>2, <2>2, Gone, Fields DEF Inv, Stages, Owners
  <2> QED
    BY <2>1, <2>2 DEF VerifyReplacement
<1>4. Types'
  BY <1>1, <1>2, <1>3 DEF Inv, Types, OpIs
<1>5. BudgetInv'
  BY <1>1, <1>2, <1>3, <1>4, BudgetKept, Running DEF MayLaunch, OpIs
<1>6. RecordInv'
  BY <1>1 DEF Inv, RecordInv, JournalCoherent, OpIs
<1>7. OwnerInv'
  BY <1>1, <1>2, <1>3, <1>4 DEF Inv, OwnerInv, OpIs
<1>8. StageInv'
  BY <1>1, <1>2, <1>3, <1>4 DEF Inv, StageInv, ToStructured, ToNative, OpIs
<1>9. StopInv'
  BY <1>1, <1>2, <1>3, <1>4 DEF Inv, StopInv, OpIs
<1>10. EventInv'
  BY <1>1 DEF Inv, EventInv, OpIs
<1>11. NativeInv'
  BY <1>1, <1>2, <1>3, <1>4 DEF Inv, NativeInv, OpIs
<1> QED
  BY <1>4, <1>5, <1>6, <1>7, <1>8, <1>9, <1>10, <1>11 DEF Inv

LEMMA UnwindReplacementStep == ASSUME Inv, UnwindReplacement PROVE Inv'
<1>1. UNCHANGED <<receipts, native, restart, owner, turn, planned, launched, events,
      observer, crashes, restarts>>
  BY DEF UnwindReplacement, rest
<1>2. op.at = "unwinding" /\ own.inst = op.new /\ owner.inst = 0
      /\ alive \subseteq {op.new}
  BY ProcessValues DEF UnwindReplacement, Inv, StageInv, OwnerInv, RecordInv, JournalCoherent,
     Types
<1>3. OpIs(op.kind, "failing", op.gen, op.inst, op.new)
  <2>1. Go("failing") /\ "failing" \in Stages /\ Types
    BY DEF UnwindReplacement, Stages, Inv
  <2> QED
    BY <2>1, Gone
<1>4. \/ /\ alive' = alive \ {op.new}
         /\ OwnIs(own.state, own.gen, own.inst, NoProcess, own.pending)
      \/ UNCHANGED <<alive, own>>
  <2>1. own \in Records /\ NoProcess \in Processes
    BY ProcessValues DEF Inv, Types
  <2>2. CASE /\ alive' = alive \ {op.new} /\ own' = [own EXCEPT !.proc = NoProcess]
    BY <2>1, <2>2 DEF OwnIs, Records
  <2> QED
    BY <1>2, <2>2 DEF UnwindReplacement
<1>5. Types'
  BY <1>1, <1>2, <1>3, <1>4 DEF Inv, Types, OwnIs, OpIs
<1>6. BudgetInv'
  BY <1>1, <1>2, <1>3, <1>4, <1>5, BudgetKept, Running DEF MayLaunch, OwnIs, OpIs
<1>7. RecordInv'
  BY <1>1, <1>2, <1>3, <1>4, <1>5, ProcessValues DEF Inv, RecordInv, JournalCoherent,
     PendingStates, NoProcess, Structured, Pty, OwnIs, OpIs
<1>8. OwnerInv'
  BY <1>1, <1>2, <1>3, <1>4, <1>5, ProcessValues DEF Inv, OwnerInv, PendingStates, NoProcess,
     Structured, Pty, OwnIs, OpIs
<1>9. StageInv'
  BY <1>1, <1>2, <1>3, <1>4, <1>5, ProcessValues DEF Inv, StageInv, ToStructured, ToNative,
     PendingStates, NoProcess, Structured, Pty, OwnIs, OpIs
<1>10. StopInv'
  BY <1>1, <1>2, <1>3, <1>4, <1>5, ProcessValues DEF Inv, StopInv, PendingStates, NoProcess,
     Structured, Pty, OwnIs, OpIs
<1>11. EventInv'
  BY <1>1, <1>2, <1>3, <1>4, <1>5, EventsKept DEF Inv, Types, Instances, OwnIs, OpIs
<1>12. NativeInv'
  BY <1>1, <1>2, <1>3, <1>4, <1>5 DEF Inv, NativeInv, OwnIs, OpIs
<1> QED
  BY <1>5, <1>6, <1>7, <1>8, <1>9, <1>10, <1>11, <1>12 DEF Inv

LEMMA CommitReplacementStep == ASSUME Inv, CommitReplacement PROVE Inv'
<1>1. UNCHANGED <<native, restart, owner, turn, alive, planned, launched, events, observer,
      crashes, restarts>>
  BY DEF CommitReplacement, processes, rest
<1>2. /\ op.at = "committing" /\ own.inst = op.new /\ own.proc = Structured(op.new)
      /\ op.new # 0
  BY ProcessValues DEF CommitReplacement, Inv, StageInv
<1>3. OwnIs("structured", own.gen, own.inst, own.proc, "none")
  <2>1. own \in Records /\ own.turn \in BOOLEAN
    BY Fields DEF Inv, Types
  <2>2. PICK failure \in CommitFailures :
           own' = [own EXCEPT !.state = "structured", !.pending = "none", !.failure = failure,
                              !.turn = @ /\ op.kind = "restart"]
    BY DEF CommitReplacement
  <2>3. failure \in {"none", "unknown"}
    BY DEF CommitFailures
  <2>4. (own.turn /\ op.kind = "restart") \in BOOLEAN
    OBVIOUS
  <2> QED
    BY <2>1, <2>2, <2>3, <2>4 DEF OwnIs, Records, States, Ids
<1>4. receipts' \in [Handoffs -> Receipts]
  BY SettledReceipts DEF Inv, Types, CommitReplacement
<1>5. OpIs("none", "done", 0, 0, 0)
  BY Finished DEF CommitReplacement
<1>6. Types'
  BY <1>1, <1>2, <1>3, <1>4, <1>5 DEF Inv, Types, OwnIs, OpIs
<1>7. BudgetInv'
  BY <1>1, <1>2, <1>3, <1>4, <1>5, <1>6, BudgetKept, Running DEF MayLaunch, OwnIs, OpIs
<1>8. RecordInv'
  BY <1>1, <1>2, <1>3, <1>4, <1>5, <1>6 DEF Inv, RecordInv, JournalCoherent, PendingStates,
     NoProcess, Structured, Pty, OwnIs, OpIs
<1>9. OwnerInv'
  BY <1>1, <1>2, <1>3, <1>4, <1>5, <1>6 DEF Inv, OwnerInv, PendingStates, NoProcess,
     Structured, Pty, OwnIs, OpIs
<1>10. StageInv'
  BY <1>1, <1>2, <1>3, <1>4, <1>5, <1>6 DEF Inv, StageInv, ToStructured, ToNative,
     PendingStates, NoProcess, Structured, Pty, OwnIs, OpIs
<1>11. StopInv'
  BY <1>1, <1>2, <1>3, <1>4, <1>5, <1>6 DEF Inv, StopInv, PendingStates, NoProcess,
     Structured, Pty, OwnIs, OpIs
<1>12. EventInv'
  BY <1>1 DEF Inv, EventInv, OwnIs, OpIs
<1>13. NativeInv'
  BY <1>1, <1>2, <1>3, <1>4, <1>5, <1>6 DEF Inv, NativeInv, OwnIs, OpIs, StageInv,
     ToStructured
<1> QED
  BY <1>6, <1>7, <1>8, <1>9, <1>10, <1>11, <1>12, <1>13 DEF Inv

LEMMA RetireReplacementStep == ASSUME Inv, RetireReplacement PROVE Inv'
<1>1. UNCHANGED <<receipts, native, restart, launched, observer, crashes, restarts>>
  BY DEF RetireReplacement, rest
<1>2. /\ op.at = "committing" /\ own.inst = op.new /\ op.new # 0 /\ op.new \in Instances
      /\ alive \subseteq {op.new} /\ Types
  <2>1. /\ op.at = "committing" /\ own.inst = op.new /\ op.new # 0 /\ Types
        /\ own.proc \in {NoProcess, Structured(op.new)}
    BY DEF RetireReplacement, Inv, StageInv
  <2>2. op.new \in Instances
    BY <2>1, Fields
  <2> QED
    BY <2>1, <2>2, ProcessValues DEF Inv, OwnerInv, Types
<1>3. OpIs(op.kind, "failing", op.gen, op.inst, op.new)
  <2>1. Go("failing") /\ "failing" \in Stages /\ Types
    BY DEF RetireReplacement, Stages, Inv
  <2> QED
    BY <2>1, Gone
<1>4. \/ /\ OwnIs(own.state, own.gen, own.inst, NoProcess, own.pending)
         /\ alive' = {} /\ planned' = {} /\ owner' \in Owners /\ owner'.inst = 0
         /\ turn' \in {"no", "starting", "yes"}
         /\ events' \in Seq(Events) /\ EventInv'
      \/ /\ UNCHANGED <<own, alive, owner, turn, events>> /\ owner.inst = op.new
         /\ planned' = planned \cup {op.new}
  <2>1. CASE OwnerExits(op.new, TRUE) /\ own' = [own EXCEPT !.proc = NoProcess, !.turn = FALSE]
    <3>1. own \in Records /\ NoProcess \in Processes
      BY ProcessValues DEF Inv, Types
    <3>2. OwnIs(own.state, own.gen, own.inst, NoProcess, own.pending)
      BY <2>1, <3>1 DEF OwnIs, Records
    <3>3. alive' = {}
      BY <2>1, <1>2 DEF OwnerExits
    <3> QED
      BY <2>1, <3>2, <3>3, <1>1, <1>2, OwnerGone
  <2> QED
    BY <2>1 DEF RetireReplacement
<1>5. events' \in Seq(Events) /\ EventInv'
  <2>1. CASE UNCHANGED <<alive, events>>
    BY <1>1, <2>1, EventsKept DEF Inv, Types, Instances
  <2> QED
    BY <1>4, <2>1
<1>6. Types'
  BY <1>1, <1>2, <1>3, <1>4, <1>5 DEF Inv, Types, OwnIs, OpIs
<1>7. BudgetInv'
  BY <1>1, <1>2, <1>3, <1>4, <1>5, <1>6, BudgetKept, Running DEF MayLaunch, OwnIs, OpIs
<1>8. RecordInv'
  BY <1>1, <1>2, <1>3, <1>4, <1>5, <1>6, ProcessValues DEF Inv, RecordInv, JournalCoherent,
     PendingStates, NoProcess, Structured, Pty, OwnIs, OpIs
<1>9. OwnerInv'
  BY <1>1, <1>2, <1>3, <1>4, <1>5, <1>6, ProcessValues DEF Inv, OwnerInv, PendingStates,
     NoProcess, Structured, Pty, OwnIs, OpIs
<1>10. StageInv'
  BY <1>1, <1>2, <1>3, <1>4, <1>5, <1>6, ProcessValues DEF Inv, StageInv, ToStructured,
     ToNative, PendingStates, NoProcess, Structured, Pty, OwnIs, OpIs
<1>11. StopInv'
  BY <1>1, <1>2, <1>3, <1>4, <1>5, <1>6, ProcessValues DEF Inv, StopInv, PendingStates,
     NoProcess, Structured, Pty, OwnIs, OpIs
<1>12. EventInv'
  BY <1>5
<1>13. NativeInv'
  BY <1>1, <1>2, <1>3, <1>4, <1>5, <1>6 DEF Inv, NativeInv, OwnIs, OpIs
<1> QED
  BY <1>6, <1>7, <1>8, <1>9, <1>10, <1>11, <1>12, <1>13 DEF Inv

LEMMA RecordToNativeStep == ASSUME Inv, NEW h \in Handoffs, RecordToNative(h) PROVE Inv'
<1>1. UNCHANGED <<native, restart, owner, turn, alive, planned, launched, events, observer,
      crashes, restarts>>
  BY DEF RecordToNative, processes, rest
<1>2. \/ /\ Free /\ Spare > 0 /\ own.state \in PendingStates \cup {"structured"}
         /\ Unowned \/ (own.state = "structured" /\ turn = "no")
         /\ OwnIs("handoff_to_native_pending", own.gen, own.inst, own.proc, h) /\ h # "none"
         /\ OpIs("to_native", IF Unowned THEN "clearing" ELSE "stopping", own.gen, own.inst, 0)
      \/ UNCHANGED <<own, op>>
  <2>1. CASE /\ MayHandBack
             /\ own' = [own EXCEPT !.state = "handoff_to_native_pending", !.pending = h]
             /\ Begin("to_native", IF Unowned THEN "clearing" ELSE "stopping", h)
    <3>1. own \in Records /\ own.state \in States /\ h \in Ids /\ h # "none"
      BY Fields, HandoffsAssumption DEF Inv, Types, Ids
    <3>2. OwnIs("handoff_to_native_pending", own.gen, own.inst, own.proc, h)
      BY <2>1, <3>1 DEF OwnIs, Records, States, PendingStates
    <3>3. OpIs("to_native", IF Unowned THEN "clearing" ELSE "stopping", own.gen, own.inst, 0)
      BY <2>1, <3>1, Begun DEF Inv, Kinds, Stages
    <3>4. Free /\ Spare > 0
      BY DEF RecordToNative
    <3>5. /\ own.state \in PendingStates \cup {"structured"}
          /\ Unowned \/ (own.state = "structured" /\ turn = "no")
      BY <2>1 DEF MayHandBack
    <3> QED
      BY <3>1, <3>2, <3>3, <3>4, <3>5
  <2> QED
    BY <2>1 DEF RecordToNative
<1>3. Unowned /\ Free => alive = {}
  <2>1. Free => op.at # "recording"
    BY DEF Inv, BudgetInv, Free
  <2> QED
    BY <2>1, ProcessValues DEF Inv, Types, OwnerInv, Unowned
<1>4. receipts' \in [Handoffs -> Receipts]
  <2>1. own.gen \in Nat /\ receipts \in [Handoffs -> Receipts]
    BY Fields DEF Inv, Types
  <2>2. \A status \in {"pending", "completed"} :
           Receipt(status, "native_tui", own.gen) \in Receipts
    BY <2>1 DEF Receipt, Receipts
  <2> QED
    BY <2>1, <2>2 DEF RecordToNative
<1>5. Types'
  BY <1>1, <1>2, <1>3, <1>4 DEF Inv, Types, OwnIs, OpIs
<1>6. BudgetInv'
  BY <1>1, <1>2, <1>3, <1>4, <1>5, BudgetKept, Running DEF MayLaunch, OwnIs, OpIs, Free
<1>7. RecordInv'
  BY <1>1, <1>2, <1>3, <1>4, <1>5, ProcessValues DEF Inv, RecordInv, JournalCoherent,
     PendingStates, NoProcess, Structured, Pty, OwnIs, OpIs
<1>8. OwnerInv'
  BY <1>1, <1>2, <1>3, <1>4, <1>5, ProcessValues DEF Inv, OwnerInv, PendingStates, NoProcess,
     Structured, Pty, OwnIs, OpIs, Free, BudgetInv, Unowned
<1>9. StageInv'
  BY <1>1, <1>2, <1>3, <1>4, <1>5, ProcessValues DEF Inv, StageInv, ToStructured, ToNative,
     PendingStates, NoProcess, Structured, Pty, OwnIs, OpIs, Unowned
<1>10. StopInv'
  BY <1>1, <1>2, <1>3, <1>4, <1>5, ProcessValues DEF Inv, StopInv, PendingStates, NoProcess,
     Structured, Pty, OwnIs, OpIs, Unowned, RecordInv, JournalCoherent
<1>11. EventInv'
  BY <1>1 DEF Inv, EventInv, OwnIs, OpIs
<1>12. NativeInv'
  BY <1>1, <1>2, <1>3, <1>4, <1>5 DEF Inv, NativeInv, OwnIs, OpIs, Free, BudgetInv
<1> QED
  BY <1>5, <1>6, <1>7, <1>8, <1>9, <1>10, <1>11, <1>12 DEF Inv

LEMMA LaunchNativeStep == ASSUME Inv, LaunchNative PROVE Inv'
<1>1. UNCHANGED <<own, receipts, restart, owner, turn, alive, planned, events, observer,
      crashes, restarts>>
  BY DEF LaunchNative, journal, rest
<1>2. op.at = "launching" /\ alive = {} /\ own.state = "handoff_to_native_pending"
  <2>1. /\ op.at = "launching" /\ own.proc = NoProcess
        /\ own.state = "handoff_to_native_pending"
    BY DEF LaunchNative, Inv, StageInv, ToNative
  <2> QED
    BY <2>1, NobodyWrites, ProcessValues
<1>3. \/ OpIs(op.kind, "failing", op.gen, op.inst, op.new) /\ UNCHANGED <<native, launched>>
      \/ /\ launched' = launched + 1 /\ launched' \in Instances /\ native' \in Natives
         /\ OpIs(op.kind, "identifying", op.gen, op.inst, launched')
  <2>1. CASE Go("failing") /\ UNCHANGED <<native, launched>>
    BY <2>1, Gone DEF Inv, Stages
  <2>2. CASE /\ LaunchInstance /\ native' = Native(launched')
             /\ op' = [op EXCEPT !.at = "identifying", !.new = launched']
    <3>1. launched' = launched + 1 /\ launched' \in Instances
      BY <1>2, <2>2, NatBounds DEF Inv, Types, BudgetInv, MayLaunch, LaunchInstance, Instances
    <3>2. op \in Operations
      BY DEF Inv, Types
    <3>3. OpIs(op.kind, "identifying", op.gen, op.inst, launched')
      BY <2>2, <3>1, <3>2 DEF OpIs, Operations, Stages
    <3> QED
      BY <2>2, <3>1, <3>3, NativeValues
  <2> QED
    BY <2>1, <2>2 DEF LaunchNative
<1>4. Types'
  BY <1>1, <1>2, <1>3 DEF Inv, Types, OpIs
<1>5. BudgetInv'
  <2>1. CASE OpIs(op.kind, "failing", op.gen, op.inst, op.new) /\ UNCHANGED <<native, launched>>
    BY <1>1, <2>1, <1>2, BudgetKept, Running DEF MayLaunch, OpIs
  <2>2. CASE /\ launched' = launched + 1
             /\ OpIs(op.kind, "identifying", op.gen, op.inst, launched')
    BY <1>1, <1>2, <2>2, BudgetSpent, Running DEF MayLaunch, OpIs
  <2> QED
    BY <1>3, <2>1, <2>2
<1>6. RecordInv'
  BY <1>1 DEF Inv, RecordInv, JournalCoherent, OpIs
<1>7. OwnerInv'
  BY <1>1, <1>2, <1>3, <1>4 DEF Inv, OwnerInv, OpIs
<1>8. StageInv'
  BY <1>1, <1>2, <1>3, <1>4 DEF Inv, StageInv, ToStructured, ToNative, OpIs
<1>9. StopInv'
  BY <1>1, <1>2, <1>3, <1>4 DEF Inv, StopInv, OpIs
<1>10. EventInv'
  BY <1>1, <1>2, <1>3, <1>4, EventsKept DEF Inv, Types, Instances, OpIs
<1>11. NativeInv'
  BY <1>1, <1>2, <1>3, <1>4 DEF Inv, NativeInv, OpIs
<1> QED
  BY <1>4, <1>5, <1>6, <1>7, <1>8, <1>9, <1>10, <1>11 DEF Inv

LEMMA IdentifyNativeStep == ASSUME Inv, IdentifyNative PROVE Inv'
<1>1. UNCHANGED <<receipts, native, restart, owner, turn, alive, planned, launched, events,
      observer, crashes, restarts>>
  BY DEF IdentifyNative, processes, rest
<1>2. op.at = "identifying" /\ alive = {} /\ planned = {} /\ owner.inst = 0 /\ Types
  <2>1. op.at = "identifying" /\ own.proc = NoProcess /\ Types
    BY DEF IdentifyNative, Inv, StageInv
  <2> QED
    BY <2>1, NobodyWrites, ProcessValues
<1>3. \/ OpIs(op.kind, "abandoning", op.gen, op.inst, op.new) /\ UNCHANGED own
      \/ /\ OpIs(op.kind, "verifying_native", op.gen, op.inst, native.inst)
         /\ OwnIs(own.state, own.gen + 1, native.inst, Pty(native.inst), own.pending)
  <2>1. CASE Go("abandoning") /\ UNCHANGED own
    BY <2>1, Gone, <1>2 DEF Stages
  <2>2. CASE /\ own' = [own EXCEPT !.gen = @ + 1, !.inst = native.inst, !.proc = Pty(native.inst)]
             /\ op' = [op EXCEPT !.at = "verifying_native", !.new = native.inst]
    <3>1. /\ own \in Records /\ op \in Operations /\ own.gen + 1 \in Nat
          /\ native.inst \in Instances /\ Pty(native.inst) \in Processes
      BY <1>2, Fields, ProcessValues DEF Types
    <3>2. own' = [own EXCEPT !.gen = own.gen + 1, !.inst = native.inst, !.proc = Pty(native.inst)]
      BY <2>2
    <3>3. OwnIs(own.state, own.gen + 1, native.inst, Pty(native.inst), own.pending)
      BY <3>1, <3>2 DEF OwnIs, Records
    <3>4. OpIs(op.kind, "verifying_native", op.gen, op.inst, native.inst)
      BY <2>2, <3>1 DEF OpIs, Operations, Stages
    <3> QED
      BY <3>3, <3>4
  <2> QED
    BY <2>1, <2>2 DEF IdentifyNative
<1>4. Types'
  BY <1>1, <1>2, <1>3 DEF Inv, Types, OwnIs, OpIs
<1>5. BudgetInv'
  BY <1>1, <1>2, <1>3, <1>4, BudgetKept, Running DEF MayLaunch, OwnIs, OpIs
<1>6. RecordInv'
  BY <1>1, <1>2, <1>3, <1>4, ProcessValues, Fields DEF Inv, RecordInv, JournalCoherent,
     PendingStates, NoProcess, Structured, Pty, OwnIs, OpIs, StageInv, ToNative
<1>7. OwnerInv'
  BY <1>1, <1>2, <1>3, <1>4, ProcessValues, Fields DEF Inv, OwnerInv, PendingStates,
     NoProcess, Structured, Pty, OwnIs, OpIs
<1>8. StageInv'
  BY <1>1, <1>2, <1>3, <1>4, ProcessValues, Fields DEF Inv, StageInv, ToStructured, ToNative,
     PendingStates, NoProcess, Structured, Pty, OwnIs, OpIs
<1>9. StopInv'
  BY <1>1, <1>2, <1>3, <1>4, ProcessValues, Fields DEF Inv, StopInv, PendingStates, NoProcess,
     Structured, Pty, OwnIs, OpIs
<1>10. EventInv'
  BY <1>1 DEF Inv, EventInv, OwnIs, OpIs
<1>11. NativeInv'
  BY <1>1, <1>2, <1>3, <1>4 DEF Inv, NativeInv, OwnIs, OpIs
<1> QED
  BY <1>4, <1>5, <1>6, <1>7, <1>8, <1>9, <1>10, <1>11 DEF Inv

LEMMA VerifyNativeStep == ASSUME Inv, VerifyNative PROVE Inv'
<1>1. UNCHANGED <<native, restart, owner, turn, alive, planned, launched, events, observer,
      crashes, restarts>>
  BY DEF VerifyNative, processes, rest
<1>2. /\ op.at = "verifying_native" /\ alive = {} /\ owner.inst = 0 /\ Types
      /\ own.proc.kind # "structured"
  <2>1. op.at = "verifying_native" /\ own.proc.kind # "structured" /\ Types
    BY DEF VerifyNative, Inv, StageInv
  <2> QED
    BY <2>1, NobodyWrites
<1>3. \/ OpIs(op.kind, "abandoning", op.gen, op.inst, op.new) /\ UNCHANGED <<own, receipts>>
      \/ /\ OpIs("none", "done", 0, 0, 0) /\ receipts' \in [Handoffs -> Receipts]
         /\ OwnIs("native_tui", own.gen, own.inst, own.proc, "none")
  <2>1. CASE Go("abandoning") /\ UNCHANGED journal
    BY <2>1, Gone, <1>2 DEF Stages, journal
  <2>2. CASE /\ own' = [own EXCEPT !.state = "native_tui", !.turn = FALSE, !.pending = "none",
                                   !.failure = "none"]
             /\ Settle(op.id, "completed") /\ Finish
    <3>1. own \in Records /\ receipts \in [Handoffs -> Receipts]
      BY <1>2 DEF Types
    <3> QED
      BY <2>2, <3>1, Finished, SettledReceipts DEF OwnIs, Records, States, Ids
  <2> QED
    BY <2>1, <2>2 DEF VerifyNative
<1>4. Types'
  BY <1>1, <1>2, <1>3 DEF Inv, Types, OwnIs, OpIs
<1>5. BudgetInv'
  BY <1>1, <1>2, <1>3, <1>4, BudgetKept, Running DEF MayLaunch, OwnIs, OpIs
<1>6. RecordInv'
  BY <1>1, <1>2, <1>3, <1>4 DEF Inv, RecordInv, JournalCoherent, PendingStates, NoProcess,
     Structured, Pty, OwnIs, OpIs
<1>7. OwnerInv'
  BY <1>1, <1>2, <1>3, <1>4 DEF Inv, OwnerInv, PendingStates, NoProcess, Structured, Pty,
     OwnIs, OpIs
<1>8. StageInv'
  BY <1>1, <1>2, <1>3, <1>4 DEF Inv, StageInv, ToStructured, ToNative, PendingStates,
     NoProcess, Structured, Pty, OwnIs, OpIs
<1>9. StopInv'
  BY <1>1, <1>2, <1>3, <1>4 DEF Inv, StopInv, PendingStates, NoProcess, Structured, Pty,
     OwnIs, OpIs
<1>10. EventInv'
  BY <1>1 DEF Inv, EventInv, OwnIs, OpIs
<1>11. NativeInv'
  BY <1>1, <1>2, <1>3, <1>4 DEF Inv, NativeInv, OwnIs, OpIs
<1> QED
  BY <1>4, <1>5, <1>6, <1>7, <1>8, <1>9, <1>10, <1>11 DEF Inv

LEMMA AbandonNativeStep == ASSUME Inv, AbandonNative PROVE Inv'
<1>1. UNCHANGED <<restart, owner, turn, alive, planned, launched, events, observer, crashes,
      restarts>>
  BY DEF AbandonNative, rest
<1>2. /\ op.at = "abandoning" /\ alive = {} /\ owner.inst = 0 /\ Types
      /\ own.proc.kind # "structured"
  <2>1. op.at = "abandoning" /\ own.proc.kind # "structured" /\ Types
    BY DEF AbandonNative, Inv, StageInv
  <2> QED
    BY <2>1, NobodyWrites
<1>3. native' \in Natives /\ native'.inst \in {0, native.inst}
  <2>1. native' = NoNative \/ native' = [native EXCEPT !.stopping = @ \/ native.inst = op.new]
    BY DEF AbandonNative
  <2>2. (native.stopping \/ native.inst = op.new) \in BOOLEAN /\ Types
    BY DEF Inv, Types, Natives
  <2> QED
    BY <2>1, <2>2, NativeValues, StoppedNative
<1>4. OpIs("none", "done", 0, 0, 0)
  BY Finished DEF AbandonNative
<1>5. receipts' \in [Handoffs -> Receipts]
  BY SettledReceipts DEF Inv, Types, AbandonNative
<1>6. \/ OwnIs(own.state, own.gen, own.inst, NoProcess, own.pending)
      \/ OwnIs(own.state, own.gen, own.inst, own.proc, own.pending)
  <2>1. own \in Records /\ NoProcess \in Processes
    BY <1>2, ProcessValues DEF Types
  <2> QED
    BY <2>1 DEF AbandonNative, OwnIs, Records
<1>7. Types'
  BY <1>1, <1>2, <1>3, <1>4, <1>5, <1>6 DEF Inv, Types, OwnIs, OpIs
<1>8. BudgetInv'
  BY <1>1, <1>2, <1>3, <1>4, <1>5, <1>6, <1>7, BudgetKept, Running DEF MayLaunch, OwnIs, OpIs
<1>9. RecordInv'
  BY <1>1, <1>2, <1>3, <1>4, <1>5, <1>6, <1>7, ProcessValues DEF Inv, RecordInv,
     JournalCoherent, PendingStates, NoProcess, Structured, Pty, OwnIs, OpIs
<1>10. OwnerInv'
  BY <1>1, <1>2, <1>3, <1>4, <1>5, <1>6, <1>7, ProcessValues DEF Inv, OwnerInv, PendingStates,
     NoProcess, Structured, Pty, OwnIs, OpIs
<1>11. StageInv'
  BY <1>1, <1>2, <1>3, <1>4, <1>5, <1>6, <1>7, ProcessValues DEF Inv, StageInv, ToStructured,
     ToNative, PendingStates, NoProcess, Structured, Pty, OwnIs, OpIs
<1>12. StopInv'
  BY <1>1, <1>2, <1>3, <1>4, <1>5, <1>6, <1>7, ProcessValues DEF Inv, StopInv, PendingStates,
     NoProcess, Structured, Pty, OwnIs, OpIs
<1>13. EventInv'
  BY <1>1 DEF Inv, EventInv, OwnIs, OpIs
<1>14. NativeInv'
  BY <1>1, <1>2, <1>3, <1>4, <1>5, <1>6, <1>7 DEF Inv, NativeInv, OwnIs, OpIs
<1> QED
  BY <1>7, <1>8, <1>9, <1>10, <1>11, <1>12, <1>13, <1>14 DEF Inv

LEMMA FailOperationStep == ASSUME Inv, FailOperation PROVE Inv'
<1>1. UNCHANGED <<native, restart, owner, turn, alive, planned, launched, events, observer,
      crashes, restarts>>
  BY DEF FailOperation, processes, rest
<1>2. op.at = "failing" /\ Types
  BY DEF FailOperation, Inv
<1>3. OpIs("none", "done", 0, 0, 0)
  BY Finished DEF FailOperation
<1>4. receipts' \in [Handoffs -> Receipts]
  BY SettledReceipts DEF Inv, Types, FailOperation
<1>5. OwnIs(own.state, own.gen, own.inst, own.proc, own.pending)
  BY DEF FailOperation, OwnIs, Inv, Types, Records
<1>6. Types'
  BY <1>1, <1>2, <1>3, <1>4, <1>5 DEF Inv, Types, OwnIs, OpIs
<1>7. BudgetInv'
  BY <1>1, <1>2, <1>3, <1>4, <1>5, <1>6, BudgetKept, Running DEF MayLaunch, OwnIs, OpIs
<1>8. RecordInv'
  BY <1>1, <1>2, <1>3, <1>4, <1>5, <1>6 DEF Inv, RecordInv, JournalCoherent, PendingStates,
     NoProcess, Structured, Pty, OwnIs, OpIs
<1>9. OwnerInv'
  BY <1>1, <1>2, <1>3, <1>4, <1>5, <1>6 DEF Inv, OwnerInv, PendingStates, NoProcess,
     Structured, Pty, OwnIs, OpIs
<1>10. StageInv'
  BY <1>1, <1>2, <1>3, <1>4, <1>5, <1>6 DEF Inv, StageInv, ToStructured, ToNative,
     PendingStates, NoProcess, Structured, Pty, OwnIs, OpIs
<1>11. StopInv'
  BY <1>1, <1>2, <1>3, <1>4, <1>5, <1>6 DEF Inv, StopInv, PendingStates, NoProcess,
     Structured, Pty, OwnIs, OpIs
<1>12. EventInv'
  BY <1>1 DEF Inv, EventInv, OwnIs, OpIs
<1>13. NativeInv'
  BY <1>1, <1>2, <1>3, <1>4, <1>5, <1>6 DEF Inv, NativeInv, OwnIs, OpIs
<1> QED
  BY <1>6, <1>7, <1>8, <1>9, <1>10, <1>11, <1>12, <1>13 DEF Inv

LEMMA BeginRestartStep == ASSUME Inv, BeginRestart PROVE Inv'
<1>1. UNCHANGED <<receipts, native, restart, owner, turn, alive, planned, launched, events,
      observer, crashes, restarts>>
  BY DEF BeginRestart, processes, rest
<1>2. /\ Free /\ Spare > 0 /\ own.state \in {"structured", "handoff_to_structured_pending"}
      /\ Unowned \/ own.state = "structured"
      /\ OwnIs("handoff_to_structured_pending", own.gen, own.inst, own.proc, "restart")
      /\ OpIs("restart", IF Unowned THEN "spawning" ELSE "stopping", own.gen, own.inst, 0)
  <2>1. /\ own \in Records /\ "restart" \in Ids /\ "restart" \in Kinds
        /\ {"spawning", "stopping"} \subseteq Stages
    BY DEF Inv, Types, Ids, Kinds, Stages
  <2>2. OwnIs("handoff_to_structured_pending", own.gen, own.inst, own.proc, "restart")
    BY <2>1 DEF BeginRestart, OwnIs, Records, States, PendingStates
  <2>3. OpIs("restart", IF Unowned THEN "spawning" ELSE "stopping", own.gen, own.inst, 0)
    BY <2>1, Begun DEF Inv, BeginRestart
  <2>4. /\ Free /\ Spare > 0 /\ own.state \in {"structured", "handoff_to_structured_pending"}
        /\ Unowned \/ own.state = "structured"
    BY DEF BeginRestart
  <2> QED
    BY <2>2, <2>3, <2>4
<1>3. Types'
  BY <1>1, <1>2 DEF Inv, Types, OwnIs, OpIs
<1>4. BudgetInv'
  BY <1>1, <1>2, <1>3, BudgetKept, Running DEF MayLaunch, OwnIs, OpIs, Free
<1>5. RecordInv'
  BY <1>1, <1>2, <1>3, ProcessValues DEF Inv, RecordInv, JournalCoherent, PendingStates,
     NoProcess, Structured, Pty, OwnIs, OpIs
<1>6. OwnerInv'
  BY <1>1, <1>2, <1>3, ProcessValues DEF Inv, OwnerInv, PendingStates, NoProcess, Structured,
     Pty, OwnIs, OpIs, Free, BudgetInv
<1>7. StageInv'
  BY <1>1, <1>2, <1>3, ProcessValues DEF Inv, StageInv, ToStructured, ToNative, PendingStates,
     NoProcess, Structured, Pty, OwnIs, OpIs, Unowned
<1>8. StopInv'
  BY <1>1, <1>2, <1>3, ProcessValues DEF Inv, StopInv, PendingStates, NoProcess, Structured,
     Pty, OwnIs, OpIs, Unowned, RecordInv, JournalCoherent
<1>9. EventInv'
  BY <1>1 DEF Inv, EventInv, OwnIs, OpIs
<1>10. NativeInv'
  BY <1>1, <1>2, <1>3 DEF Inv, NativeInv, OwnIs, OpIs, Free, BudgetInv
<1> QED
  BY <1>3, <1>4, <1>5, <1>6, <1>7, <1>8, <1>9, <1>10 DEF Inv

LEMMA BeginStopStep == ASSUME Inv, BeginStop PROVE Inv'
<1>1. UNCHANGED <<own, receipts, restart, owner, turn, alive, planned, launched, events,
      observer, crashes, restarts>>
  BY DEF BeginStop, journal, rest
<1>2. Free /\ own.state # "absent" /\ (Free => op.at # "recording")
  BY DEF BeginStop, Inv, BudgetInv, Free
<1>3. native' \in Natives /\ native'.inst \in {0, native.inst}
  <2>1. native' = native \/ native' = NoNative \/ native' = [native EXCEPT !.stopping = TRUE]
    BY DEF BeginStop
  <2>2. CASE native' = [native EXCEPT !.stopping = TRUE]
    <3>1. [native EXCEPT !.stopping = TRUE] \in Natives
          /\ [native EXCEPT !.stopping = TRUE].inst = native.inst
      BY StoppedNative DEF Inv
    <3> QED
      BY <2>2, <3>1, Zenon
  <2>3. CASE native' = native
    BY <2>3 DEF Inv, Types
  <2> QED
    BY <2>1, <2>2, <2>3, NativeValues
<1>4. \/ UNCHANGED op
      \/ OpIs("stop", "committing_stop", own.gen, own.inst, 0) /\ alive = {}
      \/ /\ OpIs("stop", "stopping", own.gen, own.inst, 0)
         /\ own.state \in PendingStates \cup {"structured"}
  <2>1. /\ "stop" \in Kinds /\ {"committing_stop", "stopping"} \subseteq Stages
        /\ own.pending \in Ids /\ Types
    BY Fields DEF Kinds, Stages, Inv
  <2>2. CASE (StopsNative \/ Unowned) /\ Begin("stop", "committing_stop", own.pending)
    <3>1. own.proc.kind # "structured"
      BY <2>2, ProcessValues DEF StopsNative, Unowned
    <3> QED
      BY <2>1, <2>2, <3>1, <1>2, Begun, NobodyWrites
  <2>3. CASE ~StopsNative /\ ~Unowned /\ Begin("stop", "stopping", own.pending)
    <3>1. own.state # "native_tui"
      <4>1. ASSUME own.state = "native_tui" PROVE FALSE
        <5>1. own.proc.kind \notin {"pty", "structured"}
          BY <2>3, <4>1 DEF Inv, RecordInv, JournalCoherent, StopsNative
        <5>2. own.proc = NoProcess
          BY <2>1, <5>1, Fields DEF Inv, RecordInv, Processes
        <5>3. owner.inst = 0
          BY <1>2, <5>1, NobodyWrites
        <5> QED
          BY <2>3, <5>2, <5>3 DEF Unowned
      <4> QED
        BY <4>1
    <3>2. own.state \in PendingStates \cup {"structured"}
      BY <2>1, <3>1, <1>2, Fields DEF States
    <3> QED
      BY <2>1, <2>3, <3>2, Begun
  <2>4. \/ UNCHANGED op
        \/ (StopsNative \/ Unowned) /\ Begin("stop", "committing_stop", own.pending)
        \/ ~StopsNative /\ ~Unowned /\ Begin("stop", "stopping", own.pending)
    BY DEF BeginStop
  <2> QED
    BY <2>2, <2>3, <2>4
<1>5. Types'
  BY <1>1, <1>2, <1>3, <1>4 DEF Inv, Types, OpIs
<1>6. BudgetInv'
  BY <1>1, <1>2, <1>3, <1>4, <1>5, BudgetKept, Running DEF MayLaunch, OpIs, Free
<1>7. RecordInv'
  BY <1>1 DEF Inv, RecordInv, JournalCoherent, OpIs
<1>8. OwnerInv'
  BY <1>1, <1>2, <1>3, <1>4, <1>5 DEF Inv, OwnerInv, OpIs
<1>9. StageInv'
  BY <1>1, <1>2, <1>3, <1>4, <1>5 DEF Inv, StageInv, ToStructured, ToNative, OpIs
<1>10. StopInv'
  BY <1>1, <1>2, <1>3, <1>4, <1>5 DEF Inv, StopInv, OpIs
<1>11. EventInv'
  BY <1>1 DEF Inv, EventInv, OpIs
<1>12. NativeInv'
  BY <1>1, <1>2, <1>3, <1>4, <1>5 DEF Inv, NativeInv, OpIs, Free, BudgetInv
<1> QED
  BY <1>5, <1>6, <1>7, <1>8, <1>9, <1>10, <1>11, <1>12 DEF Inv

LEMMA StopWithoutRecordStep == ASSUME Inv, StopWithoutRecord PROVE Inv'
<1>1. UNCHANGED <<own, receipts, restart, owner, turn, alive, planned, launched, events, op,
      observer, crashes, restarts>>
  BY DEF StopWithoutRecord, journal, rest
<1>2. native' \in Natives /\ native'.inst \in {0, native.inst}
  <2>1. native' = native \/ native' = NoNative \/ native' = [native EXCEPT !.stopping = TRUE]
    BY DEF StopWithoutRecord
  <2>2. CASE native' = [native EXCEPT !.stopping = TRUE]
    <3>1. [native EXCEPT !.stopping = TRUE] \in Natives
          /\ [native EXCEPT !.stopping = TRUE].inst = native.inst
      BY StoppedNative DEF Inv
    <3> QED
      BY <2>2, <3>1, Zenon
  <2>3. CASE native' = native
    BY <2>3 DEF Inv, Types
  <2> QED
    BY <2>1, <2>2, <2>3, NativeValues
<1>3. Types'
  BY <1>1, <1>2 DEF Inv, Types
<1>4. BudgetInv'
  BY <1>1 DEF Inv, BudgetInv, MayLaunch
<1>5. RecordInv'
  BY <1>1 DEF Inv, RecordInv, JournalCoherent
<1>6. OwnerInv'
  BY <1>1 DEF Inv, OwnerInv
<1>7. StageInv'
  BY <1>1 DEF Inv, StageInv, ToStructured, ToNative
<1>8. StopInv'
  BY <1>1 DEF Inv, StopInv
<1>9. EventInv'
  BY <1>1 DEF Inv, EventInv
<1>10. NativeInv'
  BY <1>1, <1>2, <1>3 DEF Inv, NativeInv
<1> QED
  BY <1>3, <1>4, <1>5, <1>6, <1>7, <1>8, <1>9, <1>10 DEF Inv

LEMMA CommitStopStep == ASSUME Inv, CommitStop PROVE Inv'
<1>1. UNCHANGED <<native, restart, owner, turn, alive, planned, launched, events, observer,
      crashes, restarts>>
  BY DEF CommitStop, processes, rest
<1>2. op.at = "committing_stop" /\ alive = {} /\ Types
  BY DEF CommitStop, Inv, StageInv
<1>3. OpIs("none", "done", 0, 0, 0)
  BY Finished DEF CommitStop
<1>4. receipts' \in [Handoffs -> Receipts]
  BY SettledReceipts DEF Inv, Types, CommitStop
<1>5. UNCHANGED own \/ OwnIs("native_tui", own.gen + 1, 0, NoProcess, "none")
  <2>1. CASE own' = [Absent EXCEPT !.state = "native_tui", !.gen = own.gen + 1]
    <3>1. own.gen + 1 \in Nat /\ 0 \in Instances /\ NoProcess \in Processes
      BY <1>2, Fields, NatBounds, ProcessValues
    <3> QED
      BY <2>1, <3>1 DEF Absent, OwnIs, Records, States, Ids
  <2> QED
    BY <2>1 DEF CommitStop
<1>6. Types'
  BY <1>1, <1>2, <1>3, <1>4, <1>5 DEF Inv, Types, OwnIs, OpIs
<1>7. BudgetInv'
  BY <1>1, <1>2, <1>3, <1>4, <1>5, <1>6, BudgetKept, Running DEF MayLaunch, OwnIs, OpIs
<1>8. RecordInv'
  BY <1>1, <1>2, <1>3, <1>4, <1>5, <1>6, ProcessValues DEF Inv, RecordInv, JournalCoherent,
     PendingStates, NoProcess, Structured, Pty, OwnIs, OpIs
<1>9. OwnerInv'
  BY <1>1, <1>2, <1>3, <1>4, <1>5, <1>6, ProcessValues DEF Inv, OwnerInv, PendingStates,
     NoProcess, Structured, Pty, OwnIs, OpIs
<1>10. StageInv'
  BY <1>1, <1>2, <1>3, <1>4, <1>5, <1>6, ProcessValues DEF Inv, StageInv, ToStructured,
     ToNative, PendingStates, NoProcess, Structured, Pty, OwnIs, OpIs
<1>11. StopInv'
  BY <1>1, <1>2, <1>3, <1>4, <1>5, <1>6, ProcessValues DEF Inv, StopInv, PendingStates,
     NoProcess, Structured, Pty, OwnIs, OpIs
<1>12. EventInv'
  BY <1>1 DEF Inv, EventInv, OwnIs, OpIs
<1>13. NativeInv'
  BY <1>1, <1>2, <1>3, <1>4, <1>5, <1>6 DEF Inv, NativeInv, OwnIs, OpIs
<1> QED
  BY <1>6, <1>7, <1>8, <1>9, <1>10, <1>11, <1>12, <1>13 DEF Inv

LEMMA SendMessageStep == ASSUME Inv, SendMessage PROVE Inv'
<1>1. UNCHANGED <<own, receipts, native, restart, owner, alive, planned, launched, events,
      observer, crashes, restarts>>
  BY DEF SendMessage, journal, rest
<1>2. OpIs("send", "sending", own.gen, own.inst, 0) /\ Free /\ turn' = "starting"
  <2>1. "send" \in Kinds /\ "sending" \in Stages /\ "none" \in Ids
    BY DEF Kinds, Stages, Ids
  <2> QED
    BY <2>1, Begun DEF SendMessage, Inv
<1>3. Types'
  BY <1>1, <1>2 DEF Inv, Types, OpIs
<1>4. BudgetInv'
  BY <1>1, <1>2, <1>3, BudgetKept, Running DEF MayLaunch, OpIs, Free
<1>5. RecordInv'
  BY <1>1 DEF Inv, RecordInv, JournalCoherent, OpIs
<1>6. OwnerInv'
  BY <1>1, <1>2, <1>3 DEF Inv, OwnerInv, OpIs, Free, BudgetInv
<1>7. StageInv'
  BY <1>1, <1>2, <1>3 DEF Inv, StageInv, ToStructured, ToNative, OpIs
<1>8. StopInv'
  BY <1>1, <1>2, <1>3 DEF Inv, StopInv, OpIs
<1>9. EventInv'
  BY <1>1 DEF Inv, EventInv, OpIs
<1>10. NativeInv'
  BY <1>1, <1>2, <1>3 DEF Inv, NativeInv, OpIs, Free, BudgetInv
<1> QED
  BY <1>3, <1>4, <1>5, <1>6, <1>7, <1>8, <1>9, <1>10 DEF Inv

LEMMA MessageSentStep == ASSUME Inv, MessageSent PROVE Inv'
<1>1. UNCHANGED <<own, receipts, native, restart, owner, alive, planned, launched, observer,
      crashes, restarts>>
  BY DEF MessageSent, journal, rest
<1>2. op.at = "sending"
  BY DEF MessageSent
<1>3. OpIs("none", "done", 0, 0, 0)
  BY Finished DEF MessageSent
<1>4. turn' \in {"no", "yes"} /\ events' \in Seq(Events) /\ EventInv'
  <2>1. TurnEvent("started") \in Events /\ TurnEvent("started").inst <= launched
        /\ TurnEvent("started").type # "exit"
    BY TurnEvents DEF Inv
  <2>2. CASE UNCHANGED events /\ turn' = "no"
    BY <1>1, <2>2, EventsKept DEF Inv, Types, Instances
  <2>3. CASE events' = Append(events, TurnEvent("started")) /\ turn' = "yes"
    BY <1>1, <2>1, <2>3, NewEvents DEF Inv
  <2> QED
    BY <2>2, <2>3 DEF MessageSent
<1>5. Types'
  BY <1>1, <1>2, <1>3, <1>4 DEF Inv, Types, OpIs
<1>6. BudgetInv'
  BY <1>1, <1>2, <1>3, <1>4, <1>5, BudgetKept, Running DEF MayLaunch, OpIs
<1>7. RecordInv'
  BY <1>1 DEF Inv, RecordInv, JournalCoherent, OpIs
<1>8. OwnerInv'
  BY <1>1, <1>2, <1>3, <1>4, <1>5 DEF Inv, OwnerInv, OpIs
<1>9. StageInv'
  BY <1>1, <1>2, <1>3, <1>4, <1>5 DEF Inv, StageInv, ToStructured, ToNative, OpIs
<1>10. StopInv'
  BY <1>1, <1>2, <1>3, <1>4, <1>5 DEF Inv, StopInv, OpIs
<1>11. EventInv'
  BY <1>4
<1>12. NativeInv'
  BY <1>1, <1>2, <1>3, <1>4, <1>5 DEF Inv, NativeInv, OpIs
<1> QED
  BY <1>5, <1>6, <1>7, <1>8, <1>9, <1>10, <1>11, <1>12 DEF Inv

LEMMA TurnEndsStep == ASSUME Inv, TurnEnds PROVE Inv'
<1>1. UNCHANGED <<own, receipts, native, restart, owner, alive, planned, launched, op,
      observer, crashes, restarts>>
  BY DEF TurnEnds, journal, rest
<1>2. turn' = "no" /\ events' \in Seq(Events) /\ EventInv'
  <2>1. TurnEvent("completed") \in Events /\ TurnEvent("completed").inst <= launched
        /\ TurnEvent("completed").type # "exit"
    BY TurnEvents DEF Inv
  <2> QED
    BY <1>1, <2>1, NewEvents DEF TurnEnds, Inv
<1>3. Types'
  BY <1>1, <1>2 DEF Inv, Types
<1>4. BudgetInv'
  BY <1>1 DEF Inv, BudgetInv, MayLaunch
<1>5. RecordInv'
  BY <1>1 DEF Inv, RecordInv, JournalCoherent
<1>6. OwnerInv'
  BY <1>1 DEF Inv, OwnerInv
<1>7. StageInv'
  BY <1>1 DEF Inv, StageInv, ToStructured, ToNative
<1>8. StopInv'
  BY <1>1, <1>2, <1>3 DEF Inv, StopInv
<1>9. EventInv'
  BY <1>2
<1>10. NativeInv'
  BY <1>1 DEF Inv, NativeInv
<1> QED
  BY <1>3, <1>4, <1>5, <1>6, <1>7, <1>8, <1>9, <1>10 DEF Inv

LEMMA StructuredExitsStep == ASSUME Inv, StructuredExits PROVE Inv'
<1>1. UNCHANGED <<own, receipts, native, restart, launched, op, observer, crashes, restarts>>
  BY DEF StructuredExits, journal, rest
<1>2. /\ alive' \subseteq alive /\ owner' \in Owners /\ turn' \in {"no", "starting", "yes"}
      /\ planned' \subseteq alive' \cap {owner'.inst}
      /\ (owner' = NoOwner /\ turn' = "no") \/ UNCHANGED <<owner, turn>>
      /\ owner'.inst # 0 => owner'.inst \in alive' /\ UNCHANGED <<owner, turn>>
      /\ events' \in Seq(Events) /\ EventInv'
  <2>1. PICK i \in alive : OwnerExits(i, i \in planned)
    BY DEF StructuredExits
  <2>2. i \in Instances /\ (i \in planned) \in BOOLEAN
    BY DEF Inv, Types
  <2> QED
    BY <1>1, <2>1, <2>2, OwnerGone
<1>3. Types'
  BY <1>1, <1>2 DEF Inv, Types
<1>4. BudgetInv'
  BY <1>1, <1>2, <1>3, BoundAssumption DEF Inv, BudgetInv, MayLaunch, Types, Instances
<1>5. RecordInv'
  BY <1>1 DEF Inv, RecordInv, JournalCoherent
<1>6. OwnerInv'
  BY <1>1, <1>2, <1>3 DEF Inv, OwnerInv
<1>7. StageInv'
  BY <1>1, <1>2, <1>3 DEF Inv, StageInv, ToStructured, ToNative, NoOwner
<1>8. StopInv'
  BY <1>1, <1>2, <1>3 DEF Inv, StopInv
<1>9. EventInv'
  BY <1>2
<1>10. NativeInv'
  BY <1>1, <1>2, <1>3 DEF Inv, NativeInv
<1> QED
  BY <1>3, <1>4, <1>5, <1>6, <1>7, <1>8, <1>9, <1>10 DEF Inv

LEMMA DeliverEventStep == ASSUME Inv, DeliverEvent PROVE Inv'
<1>1. UNCHANGED <<receipts, native, restart, owner, turn, alive, planned, launched, op,
      observer, crashes, restarts>>
  BY DEF DeliverEvent, processes, rest
<1>2. events' \in Seq(Events) /\ EventInv' /\ Head(events) \in Events
  BY <1>1, FewerEvents DEF Inv, DeliverEvent
<1>3. \/ OwnIs(own.state, own.gen, own.inst, own.proc, own.pending)
      \/ /\ OwnIs(own.state, own.gen, own.inst, NoProcess, own.pending)
         /\ op.at # "recording" => alive = {}
  <2>1. own \in Records /\ own.turn \in BOOLEAN /\ NoProcess \in Processes
    BY Fields, ProcessValues DEF Inv, Types
  <2> DEFINE e == Head(events)
  <2>2. CASE own' = own
    BY <2>1, <2>2 DEF OwnIs
  <2>3. CASE InScope(e) /\ e.type = "exit" /\ own' = AfterExit(e)
    <3>1. own.inst \notin alive
      BY <2>3, <1>1, FewerEvents DEF InScope, Inv, DeliverEvent
    <3>2. op.at # "recording" => alive = {}
      BY <3>1, ProcessValues DEF Inv, Types, OwnerInv, RecordInv, JournalCoherent
    <3>3. OwnIs(own.state, own.gen, own.inst, NoProcess, own.pending)
      BY <2>1, <2>3 DEF AfterExit, OwnIs, Records
    <3> QED
      BY <3>2, <3>3
  <2>4. CASE own' = [own EXCEPT !.turn = (e.type = "started")]
    <3>1. (e.type = "started") \in BOOLEAN
      OBVIOUS
    <3> QED
      BY <2>1, <2>4, <3>1 DEF OwnIs, Records
  <2> QED
    BY <2>2, <2>3, <2>4 DEF DeliverEvent
<1>4. Types'
  BY <1>1, <1>2, <1>3 DEF Inv, Types, OwnIs
<1>5. BudgetInv'
  BY <1>1 DEF Inv, BudgetInv, MayLaunch, OwnIs
<1>6. RecordInv'
  BY <1>1, <1>2, <1>3, <1>4, ProcessValues DEF Inv, RecordInv, JournalCoherent, PendingStates,
     NoProcess, Structured, Pty, OwnIs
<1>7. OwnerInv'
  BY <1>1, <1>2, <1>3, <1>4, ProcessValues DEF Inv, OwnerInv, PendingStates, NoProcess,
     Structured, Pty, OwnIs
<1>8. StageInv'
  BY <1>1, <1>2, <1>3, <1>4, ProcessValues DEF Inv, StageInv, ToStructured, ToNative,
     PendingStates, NoProcess, Structured, Pty, OwnIs
<1>9. StopInv'
  BY <1>1, <1>2, <1>3, <1>4, ProcessValues DEF Inv, StopInv, PendingStates, NoProcess,
     Structured, Pty, OwnIs
<1>10. EventInv'
  BY <1>2
<1>11. NativeInv'
  BY <1>1, <1>2, <1>3, <1>4 DEF Inv, NativeInv, OwnIs
<1> QED
  BY <1>4, <1>5, <1>6, <1>7, <1>8, <1>9, <1>10, <1>11 DEF Inv

LEMMA CrashStep == ASSUME Inv, Crash PROVE Inv'
<1>1. UNCHANGED <<own, receipts, launched, restarts>>
  BY DEF Crash, journal
<1>2. OpIs("recover", "deciding", 0, 0, 0)
  BY NatBounds DEF Crash, Idle, OpIs, Operations, Kinds, Stages, Ids
<1>3. alive' \subseteq alive /\ (\A i \in alive' : own.proc = Structured(i))
  <2>1. alive' \subseteq alive /\ alive' \subseteq {own.proc.inst} /\ 0 \notin alive
    BY DEF Crash, MayOutlive, Inv, Types
  <2>2. CASE op.at = "recording"
    <3>1. own.proc.inst = 0
      BY <2>2, ProcessValues DEF Inv, StageInv
    <3> QED
      BY <2>1, <3>1
  <2> QED
    BY <2>1, <2>2 DEF Inv, OwnerInv
<1>4. crashes' = crashes + 1 /\ crashes' \in 0..MaxCrashes
  BY NatBounds DEF Crash, Inv, Types
<1>5. /\ native' \in Natives /\ native'.inst = 0 /\ restart' = FALSE
      /\ owner' \in Owners /\ owner'.inst = 0
      /\ turn' = "no" /\ planned' = {} /\ events' = <<>>
      /\ observer' = NoObservation /\ observer' \in Observations
  <2>1. Absent \in Records /\ 0 \in Instances
    BY NatBounds, ProcessValues DEF Absent, Records, States, Ids
  <2> QED
    BY <2>1, NativeValues DEF Crash, NoOwner, Owners, NoObservation, Observations
<1>6. events' \in Seq(Events) /\ EventInv'
  <2>1. events' = <<>>
    BY <1>5
  <2> QED
    BY <2>1 DEF EventInv
<1>7. Types'
  BY <1>1, <1>2, <1>3, <1>4, <1>5, <1>6 DEF Inv, Types, OpIs
<1>8. BudgetInv'
  <2>1. /\ launched \in Nat /\ crashes \in Nat /\ MaxCrashes \in Nat /\ MaxInstances \in Nat
        /\ launched + (MaxCrashes - crashes) <= MaxInstances
    BY NatBounds DEF Inv, Types, Instances, BudgetInv
  <2>2. launched' + (MaxCrashes - crashes') + 1 <= MaxInstances
    BY <1>1, <1>4, <2>1
  <2>3. MayLaunch' /\ op'.kind # "none"
    BY <1>2 DEF MayLaunch, OpIs
  <2> QED
    BY <1>1, <1>3, <2>2, <2>3 DEF Inv, BudgetInv
<1>9. RecordInv'
  BY <1>1, <1>2, <1>3, <1>4, <1>5, <1>6, <1>7 DEF Inv, RecordInv, JournalCoherent, OpIs
<1>10. OwnerInv'
  BY <1>1, <1>2, <1>3, <1>4, <1>5, <1>6, <1>7 DEF Inv, OwnerInv, OpIs
<1>11. StageInv'
  BY <1>1, <1>2, <1>3, <1>4, <1>5, <1>6, <1>7 DEF Inv, StageInv, ToStructured, ToNative, OpIs
<1>12. StopInv'
  BY <1>1, <1>2, <1>3, <1>4, <1>5, <1>6, <1>7 DEF Inv, StopInv, OpIs
<1>13. EventInv'
  BY <1>6
<1>14. NativeInv'
  BY <1>1, <1>2, <1>3, <1>4, <1>5, <1>6, <1>7 DEF Inv, NativeInv, OpIs
<1> QED
  BY <1>7, <1>8, <1>9, <1>10, <1>11, <1>12, <1>13, <1>14 DEF Inv

LEMMA RecoverStep == ASSUME Inv, Recover PROVE Inv'
<1>1. UNCHANGED <<receipts, native, restart, owner, turn, alive, planned, launched, events,
      observer, crashes, restarts>>
  BY DEF Recover, processes, rest
<1>2. op.at = "deciding" /\ Types
  BY DEF Recover, Inv
<1>3. \/ OpIs("none", "done", 0, 0, 0) /\ UNCHANGED own
      \/ /\ own.state \in PendingStates \cup {"structured"} /\ alive = {} /\ owner.inst = 0
         /\ OwnIs(own.state, own.gen, own.inst, NoProcess, own.pending)
         /\ OpIs("recover", IF own.state = "handoff_to_native_pending" THEN "launching"
                            ELSE "spawning", own.gen, own.inst, 0)
  <2>1. CASE Finish /\ UNCHANGED own
    BY <2>1, Finished
  <2>2. CASE /\ own.state \notin {"absent", "native_tui"}
             /\ own.proc = NoProcess \/ own.proc.inst \notin alive
             /\ own' = [own EXCEPT !.proc = NoProcess]
             /\ Begin("recover", IF own.state = "handoff_to_native_pending" THEN "launching"
                                 ELSE "spawning", own.pending)
    <3>1. own \in Records /\ NoProcess \in Processes /\ own.pending \in Ids
      BY <1>2, Fields, ProcessValues DEF Types
    <3>2. own.state \in PendingStates \cup {"structured"}
      BY <2>2, <1>2, Fields DEF States
    <3>3. alive = {} /\ owner.inst = 0
      BY <2>2, <1>2, NobodyWrites, ProcessValues
    <3>4. OwnIs(own.state, own.gen, own.inst, NoProcess, own.pending)
      BY <2>2, <3>1 DEF OwnIs, Records
    <3>5. OpIs("recover", IF own.state = "handoff_to_native_pending" THEN "launching"
                          ELSE "spawning", own.gen, own.inst, 0)
      BY <2>2, <3>1, <1>2, Begun DEF Kinds, Stages
    <3> QED
      BY <3>2, <3>3, <3>4, <3>5
  <2> QED
    BY <2>1, <2>2 DEF Recover
<1>4. Types'
  BY <1>1, <1>2, <1>3 DEF Inv, Types, OwnIs, OpIs
<1>5. BudgetInv'
  BY <1>1, <1>2, <1>3, <1>4, BudgetKept, Running DEF MayLaunch, OwnIs, OpIs
<1>6. RecordInv'
  BY <1>1, <1>2, <1>3, <1>4, ProcessValues DEF Inv, RecordInv, JournalCoherent, PendingStates,
     NoProcess, Structured, Pty, OwnIs, OpIs
<1>7. OwnerInv'
  BY <1>1, <1>2, <1>3, <1>4, ProcessValues DEF Inv, OwnerInv, PendingStates, NoProcess,
     Structured, Pty, OwnIs, OpIs
<1>8. StageInv'
  BY <1>1, <1>2, <1>3, <1>4, ProcessValues DEF Inv, StageInv, ToStructured, ToNative,
     PendingStates, NoProcess, Structured, Pty, OwnIs, OpIs
<1>9. StopInv'
  BY <1>1, <1>2, <1>3, <1>4, ProcessValues DEF Inv, StopInv, PendingStates, NoProcess,
     Structured, Pty, OwnIs, OpIs
<1>10. EventInv'
  BY <1>1 DEF Inv, EventInv, OwnIs, OpIs
<1>11. NativeInv'
  BY <1>1, <1>2, <1>3, <1>4 DEF Inv, NativeInv, OwnIs, OpIs
<1> QED
  BY <1>4, <1>5, <1>6, <1>7, <1>8, <1>9, <1>10, <1>11 DEF Inv

-----------------------------------------------------------------------------
LEMMA InitInv == Init => Inv
<1> SUFFICES ASSUME Init PROVE Inv
  OBVIOUS
<1>1. Types
  <2>1. Absent \in Records /\ 0 \in Instances
    BY NatBounds, ProcessValues DEF Absent, Records, States, Ids
  <2>2. own \in Records /\ receipts \in [Handoffs -> Receipts]
    <3>1. NoReceipt \in Receipts
      BY DEF NoReceipt, Receipts
    <3> QED
      BY <2>1, <3>1 DEF Init
  <2>3. native \in Natives /\ restart \in BOOLEAN /\ owner \in Owners
    BY <2>1, NativeValues DEF Init, NoOwner, Owners
  <2>4. op \in Operations /\ observer \in Observations
    BY <2>1 DEF Init, Idle, Operations, Kinds, Stages, Ids, NoObservation, Observations
  <2>5. launched \in Instances /\ crashes \in 0..MaxCrashes /\ restarts \in Nat
    BY NatBounds DEF Init
  <2>6. /\ turn \in {"no", "starting", "yes"} /\ alive = {} /\ planned = {}
        /\ events \in Seq(Events)
    BY DEF Init
  <2> QED
    BY <2>2, <2>3, <2>4, <2>5, <2>6 DEF Types
<1>2. BudgetInv
  BY NatBounds DEF Init, BudgetInv, MayLaunch, Idle
<1>3. RecordInv
  BY ProcessValues DEF Init, RecordInv, JournalCoherent, Absent, PendingStates
<1>4. OwnerInv /\ StageInv /\ StopInv
  BY DEF Init, OwnerInv, StageInv, StopInv, Idle, NoOwner, ToStructured, ToNative
<1>5. EventInv /\ NativeInv
  BY NativeValues DEF Init, EventInv, NativeInv, Idle
<1> QED
  BY <1>1, <1>2, <1>3, <1>4, <1>5 DEF Inv

LEMMA NextInv == Inv /\ [Next]_vars => Inv'
<1> SUFFICES ASSUME Inv, [Next]_vars PROVE Inv'
  OBVIOUS
<1>1. CASE UNCHANGED vars
  BY <1>1 DEF vars, journal, processes, rest, Inv, Types, BudgetInv, MayLaunch, RecordInv,
     JournalCoherent, OwnerInv, StageInv, StopInv, EventInv, NativeInv
<1>2. CASE StartNative \/ NativePrompt \/ NativeReports \/ NativeExits \/ AutoRestart
           \/ ObserveBegins \/ ObserveEnds
  BY <1>2, StartNativeStep, NativePromptStep, NativeReportsStep, NativeExitsStep,
     AutoRestartStep, ObserveBeginsStep, ObserveEndsStep
<1>3. CASE \E h \in Handoffs : BeginToStructured(h) \/ RecordToNative(h)
  BY <1>3, BeginToStructuredStep, RecordToNativeStep
<1>4. CASE BeginRestart \/ BeginStop \/ StopWithoutRecord \/ SendMessage
           \/ TurnEnds \/ StructuredExits \/ DeliverEvent \/ Crash
  BY <1>4, BeginRestartStep, BeginStopStep, StopWithoutRecordStep, SendMessageStep,
     TurnEndsStep, StructuredExitsStep, DeliverEventStep, CrashStep
<1>5. CASE Step
  <2>1. CASE RecordToStructured \/ StopNative \/ StopStructured \/ ClearOwner
             \/ SpawnReplacement \/ RecordReplacement \/ VerifyReplacement
             \/ UnwindReplacement \/ CommitReplacement \/ RetireReplacement
    BY <2>1, RecordToStructuredStep, StopNativeStep, StopStructuredStep, ClearOwnerStep,
       SpawnReplacementStep, RecordReplacementStep, VerifyReplacementStep,
       UnwindReplacementStep, CommitReplacementStep, RetireReplacementStep
  <2>2. CASE LaunchNative \/ IdentifyNative \/ VerifyNative \/ AbandonNative
             \/ FailOperation \/ CommitStop \/ MessageSent \/ Recover
    BY <2>2, LaunchNativeStep, IdentifyNativeStep, VerifyNativeStep, AbandonNativeStep,
       FailOperationStep, CommitStopStep, MessageSentStep, RecoverStep
  <2> QED
    BY <1>5, <2>1, <2>2 DEF Step
<1> QED
  BY <1>1, <1>2, <1>3, <1>4, <1>5 DEF Next

(* The invariant the theorems below rest on.                                 *)
THEOREM InvariantHolds == Spec => []Inv
BY InitInv, NextInv, PTL DEF Spec

(* Every variable has its type, and every write of the journal is one that   *)
(* assertJournalScope accepts when the next runtime reads it.                *)
THEOREM TypeCorrect == Spec => []TypeOK
<1>1. Inv => TypeOK
  BY DEF Inv, Types, RecordInv, TypeOK, Records, Receipts, Natives, Owners, Ids
<1> QED
  BY <1>1, InvariantHolds, PTL

(* A registered structured owner is the one the journal names whenever no    *)
(* operation holds the task's queue, so that resolveEventScope hears its     *)
(* events and messages are sent to it.                                       *)
THEOREM AuthorityHolds == Spec => []AuthorityIsRecorded
<1>1. Inv => AuthorityIsRecorded
  BY ProcessValues DEF Inv, Types, BudgetInv, OwnerInv, RecordInv, JournalCoherent, Free,
     AuthorityIsRecorded
<1> QED
  BY <1>1, InvariantHolds, PTL

(* From onProcessStarted on, a structured process that can write is in the   *)
(* journal, through every handoff, failure and crash: recovery finds it.     *)
THEOREM LiveOwnerIsFound == Spec => []LiveOwnerIsRecorded
<1>1. Inv => LiveOwnerIsRecorded
  BY ProcessValues DEF Inv, Types, OwnerInv, LiveOwnerIsRecorded
<1> QED
  BY <1>1, InvariantHolds, PTL

(* A handoff to the terminal stops the structured owner between its turns:   *)
(* no turn starts once the handoff is recorded.                              *)
THEOREM HandBackWaitsForTurn == Spec => []HandBackBetweenTurns
<1>1. Inv => HandBackBetweenTurns
  BY DEF Inv, StopInv, HandBackBetweenTurns
<1> QED
  BY <1>1, InvariantHolds, PTL

(* As long as the terminal does not restart a crashed agent by itself, at    *)
(* most one process can write to the provider's session, whatever stops time *)
(* out, launches fail, events are late or runtimes crash.  The assumption is *)
(* needed: an automatic restart asks neither the journal nor the registry.   *)
THEOREM OneWriterAtATime ==
    ASSUME MaxRestarts = 0
    PROVE  Spec => []SingleWriter
<1>1. Inv => SingleWriter
  <2> SUFFICES ASSUME Inv PROVE Cardinality(Writers) <= 1
    BY DEF SingleWriter
  <2>1. PICK x : Writers \subseteq {x}
    <3>1. CASE native.inst # 0
      BY <3>1 DEF Inv, NativeInv, Writers
    <3>2. CASE native.inst = 0 /\ op.at = "recording"
      BY <3>2 DEF Inv, OwnerInv, Writers
    <3>3. CASE native.inst = 0 /\ op.at # "recording"
      BY <3>3, OneWriter DEF Writers
    <3> QED
      BY <3>1, <3>2, <3>3
  <2>2. IsFiniteSet({x}) /\ Cardinality({x}) = 1
    BY FS_Singleton
  <2> QED
    BY <2>1, <2>2, FS_Subset, FS_CardinalityType
<1> QED
  BY <1>1, InvariantHolds, PTL

=============================================================================
