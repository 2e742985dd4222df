---------------------- MODULE SessionPersistenceProofs ----------------------
(***************************************************************************)
(* Theorems about SessionPersistence, for any set of hook deliveries and    *)
(* any number of changes and failing writes.                               *)
(*                                                                         *)
(* The inductive invariant says what a generation vouches for: a map that  *)
(* was captured for generation g holds every change that a delivery        *)
(* waiting for g or less vouches for, and before the shutdown the whole    *)
(* store if nothing is dirty beyond g.                                     *)
(***************************************************************************)
EXTENDS SessionPersistence, TLAPS

(* Flushes whose required generation covers what they vouch for: those that *)
(* were not refused by a closed writer.                                     *)
Vouched(f) == pc[f] \in {"joined", "attempting", "resolved"} \/ (pc[f] = "failed" /\ ~closed)

(* A map with the first n changes is enough for generation g.               *)
Holds(g, n) ==
    /\ \A f \in Flushers : Vouched(f) /\ required[f] <= g => need[f] <= n
    /\ shutdown = "no" /\ dirty <= g => store <= n

(* The write in flight, from its start to its end.                          *)
WriteInv ==
    /\ write.by = "nobody" <=> ~InFlight
    /\ InFlight => persisted <= write.target
    /\ write.stage = "captured" => Holds(write.target, write.captured)
    /\ write.stage = "landed" /\ ~replaced => Holds(write.target, file)

(* Who waits for the write, and who looks at the generations after it.      *)
WakeInv ==
    /\ \A f \in Flushers : pc[f] = "joined" => InFlight
    /\ write.by = "flush" => \E f \in Flushers : pc[f] = "joined"
    /\ NoLostWakeup

(* What is persisted is in the file unless a command took it out.           *)
FileInv ==
    /\ ~replaced => Holds(persisted, file)
    /\ \A f \in Flushers : pc[f] = "resolved" => Reached(f)

(* The stages of the shutdown.                                              *)
ShutdownInv ==
    /\ shutdown = "no" => tracked /\ ~closed /\ writer = "live" /\ pc[Closer] = "idle"
    /\ shutdown # "no" => ~tracked
    /\ shutdown = "draining" => writer = "live"
    /\ shutdown \in {"disposing", "done"} =>
          closed /\ writer = "disposed" /\ ~timer /\ ~Active(Closer)
    /\ shutdown = "done" => ~InFlight /\ NoActiveBarrier

Inv == TypeOK /\ WriteInv /\ WakeInv /\ FileInv /\ ShutdownInv

-----------------------------------------------------------------------------
(* Steps.                                                                   *)
LEMMA ChangeInv == ASSUME Inv, Change PROVE Inv'
<1>1. TypeOK'
  BY BoundAssumption, CloserAssumption DEF Inv, TypeOK, WriteInv, Change, Flushers, InFlight,
     Holds, ArmTimer, closeVars, flushVars, Vouched
<1>2. WriteInv'
  BY BoundAssumption, CloserAssumption DEF Inv, TypeOK, WriteInv, ShutdownInv, Change, Flushers,
     InFlight, Holds, Active, NoActiveBarrier, ArmTimer, closeVars, flushVars, Vouched
<1>3. WakeInv'
  BY BoundAssumption, CloserAssumption DEF Inv, TypeOK, WakeInv, WriteInv, Change, Flushers,
     InFlight, NoLostWakeup, Holds, ArmTimer, closeVars, flushVars, Active, Vouched
<1>4. FileInv'
  BY BoundAssumption, CloserAssumption DEF Inv, TypeOK, FileInv, ShutdownInv, Change, Flushers,
     Holds, Reached, Active, InFlight, NoActiveBarrier, ArmTimer, closeVars, flushVars,
     Vouched
<1>5. ShutdownInv'
  BY DEF Inv, ShutdownInv, Change, Active, InFlight, NoActiveBarrier, ArmTimer, closeVars,
     flushVars
<1> QED
  BY <1>1, <1>2, <1>3, <1>4, <1>5 DEF Inv

LEMMA ForcingHookInv == ASSUME Inv, NEW b \in Barriers, ForcingHook(b) PROVE Inv'
<1>1. TypeOK'
  <2>1. store' \in 0..MaxChanges /\ file' \in 0..store' 
        /\ dirty' \in Nat /\ persisted' \in 0..dirty'
    BY BoundAssumption DEF Inv, TypeOK, ForcingHook, BeginFlush, RefuseFlush, closeVars
  <2>2. attempts' \in [Flushers -> 0..FinalAttempts]
    BY DEF Inv, TypeOK, ForcingHook, BeginFlush, RefuseFlush, closeVars, Flushers, FinalAttempts
  <2>3. required' \in [Flushers -> 0..dirty'] /\ need' \in [Flushers -> 0..store']
    BY BoundAssumption DEF Inv, TypeOK, ForcingHook, BeginFlush, RefuseFlush, closeVars, Flushers
  <2>4. write' \in [stage : {"none", "started", "captured", "landed"}, target : 0..dirty',
                    captured : 0..store', by : {"nobody", "timer", "flush"}]
    BY <2>1 DEF Inv, TypeOK, ForcingHook, BeginFlush, RefuseFlush, closeVars
  <2>5. pc' \in [Flushers -> {"idle", "joined", "attempting", "resolved", "failed"}]
    BY DEF Inv, TypeOK, ForcingHook, BeginFlush, RefuseFlush, closeVars, Flushers
  <2>6. timer' \in BOOLEAN /\ tracked' \in BOOLEAN /\ closed' \in BOOLEAN
        /\ writer' \in {"live", "disposed"} /\ shutdown' \in {"no", "draining", "disposing", "done"}
        /\ replaced' \in BOOLEAN /\ failures' \in 0..MaxFailures
    BY DEF Inv, TypeOK, ForcingHook, BeginFlush, RefuseFlush, closeVars
  <2> QED
    BY <2>1, <2>2, <2>3, <2>4, <2>5, <2>6 DEF TypeOK
<1>2. WriteInv'
  BY BoundAssumption, CloserAssumption DEF Inv, TypeOK, WriteInv, ShutdownInv, ForcingHook,
     Flushers, InFlight, Holds, Active, NoActiveBarrier, RefuseFlush, BeginFlush, closeVars,
     Vouched
<1>3. WakeInv'
  BY BoundAssumption, CloserAssumption DEF Inv, TypeOK, WakeInv, ForcingHook, Flushers,
     InFlight, NoLostWakeup, RefuseFlush, BeginFlush, closeVars, Active
<1>4. FileInv'
  BY BoundAssumption, CloserAssumption DEF Inv, TypeOK, FileInv, ShutdownInv, ForcingHook,
     Flushers, Holds, Reached, Active, InFlight, NoActiveBarrier, RefuseFlush, BeginFlush,
     closeVars, Vouched
<1>5. ShutdownInv'
  BY BoundAssumption, CloserAssumption DEF Inv, TypeOK, ShutdownInv, ForcingHook, Flushers,
     Active, InFlight, NoActiveBarrier, RefuseFlush, BeginFlush, closeVars
<1> QED
  BY <1>1, <1>2, <1>3, <1>4, <1>5 DEF Inv

LEMMA DuplicateHookInv == ASSUME Inv, NEW b \in Barriers, DuplicateHook(b) PROVE Inv'
<1>1. TypeOK'
  <2>1. store' \in 0..MaxChanges /\ file' \in 0..store' 
        /\ dirty' \in Nat /\ persisted' \in 0..dirty'
    BY BoundAssumption DEF Inv, TypeOK, DuplicateHook, BeginFlush, RefuseFlush, closeVars
  <2>2. attempts' \in [Flushers -> 0..FinalAttempts]
    BY DEF Inv, TypeOK, DuplicateHook, BeginFlush, RefuseFlush, closeVars, Flushers, FinalAttempts
  <2>3. required' \in [Flushers -> 0..dirty'] /\ need' \in [Flushers -> 0..store']
    BY BoundAssumption DEF Inv, TypeOK, DuplicateHook, BeginFlush, RefuseFlush, closeVars, Flushers
  <2>4. write' \in [stage : {"none", "started", "captured", "landed"}, target : 0..dirty',
                    captured : 0..store', by : {"nobody", "timer", "flush"}]
    BY <2>1 DEF Inv, TypeOK, DuplicateHook, BeginFlush, RefuseFlush, closeVars
  <2>5. pc' \in [Flushers -> {"idle", "joined", "attempting", "resolved", "failed"}]
    BY DEF Inv, TypeOK, DuplicateHook, BeginFlush, RefuseFlush, closeVars, Flushers
  <2>6. timer' \in BOOLEAN /\ tracked' \in BOOLEAN /\ closed' \in BOOLEAN
        /\ writer' \in {"live", "disposed"} /\ shutdown' \in {"no", "draining", "disposing", "done"}
        /\ replaced' \in BOOLEAN /\ failures' \in 0..MaxFailures
    BY DEF Inv, TypeOK, DuplicateHook, BeginFlush, RefuseFlush, closeVars
  <2> QED
    BY <2>1, <2>2, <2>3, <2>4, <2>5, <2>6 DEF TypeOK
<1>2. WriteInv'
  BY BoundAssumption, CloserAssumption DEF Inv, TypeOK, WriteInv, DuplicateHook, Flushers,
     InFlight, Holds, RefuseFlush, BeginFlush, closeVars, Vouched
<1>3. WakeInv'
  BY BoundAssumption, CloserAssumption DEF Inv, TypeOK, WakeInv, DuplicateHook, Flushers,
     InFlight, NoLostWakeup, RefuseFlush, BeginFlush, closeVars, Active
<1>4. FileInv'
  BY BoundAssumption, CloserAssumption DEF Inv, TypeOK, FileInv, DuplicateHook, Flushers,
     Holds, Reached, RefuseFlush, BeginFlush, closeVars, Vouched, InFlight
<1>5. ShutdownInv'
  BY BoundAssumption, CloserAssumption DEF Inv, TypeOK, ShutdownInv, DuplicateHook, Flushers,
     Active, InFlight, NoActiveBarrier, RefuseFlush, BeginFlush, closeVars
<1> QED
  BY <1>1, <1>2, <1>3, <1>4, <1>5 DEF Inv

LEMMA AttemptInv == ASSUME Inv, NEW f \in Flushers, Attempt(f) PROVE Inv'
<1>1. TypeOK'
  BY DEF Inv, TypeOK, Attempt, Flushers, MayAttempt, InFlight, StartWrite, closeVars,
     FinalAttempts, Reached
<1>2. WriteInv'
  BY BoundAssumption, CloserAssumption DEF Inv, TypeOK, WriteInv, Attempt, Flushers, InFlight,
     Holds, MayAttempt, StartWrite, closeVars, Vouched, FinalAttempts, Reached
<1>3. WakeInv'
  BY BoundAssumption, CloserAssumption DEF Inv, TypeOK, WakeInv, Attempt, Flushers, InFlight,
     NoLostWakeup, MayAttempt, StartWrite, closeVars, Active, FinalAttempts, Reached
<1>4. FileInv'
  BY DEF Inv, FileInv, Attempt, Holds, Flushers, Reached, MayAttempt, InFlight, StartWrite,
     closeVars, Vouched, FinalAttempts
<1>5. ShutdownInv'
  BY DEF Inv, ShutdownInv, Attempt, Active, InFlight, NoActiveBarrier, MayAttempt, StartWrite,
     closeVars, FinalAttempts, Reached
<1> QED
  BY <1>1, <1>2, <1>3, <1>4, <1>5 DEF Inv

LEMMA EndFlushInv == ASSUME Inv, NEW f \in Flushers, EndFlush(f) PROVE Inv'
<1>1. TypeOK'
  <2>1. UNCHANGED <<store, file, dirty, persisted, write, closeVars, required, attempts, need,
                    replaced, failures>>
    BY DEF EndFlush
  <2>2. timer' \in BOOLEAN
    BY DEF Inv, TypeOK, EndFlush, ArmTimer
  <2>3. pc' \in [Flushers -> {"idle", "joined", "attempting", "resolved", "failed"}]
    BY DEF Inv, TypeOK, EndFlush
  <2> QED
    BY <2>1, <2>2, <2>3 DEF Inv, TypeOK, closeVars
<1>2. WriteInv'
  BY DEF Inv, WriteInv, EndFlush, InFlight, Holds, MayAttempt, ArmTimer, Reached, closeVars,
     Flushers, Vouched, FinalAttempts
<1>3. WakeInv'
  BY BoundAssumption, CloserAssumption DEF Inv, TypeOK, WakeInv, WriteInv, EndFlush, Flushers,
     InFlight, NoLostWakeup, Holds, MayAttempt, ArmTimer, Reached, closeVars, Active, Vouched,
     FinalAttempts
<1>4. FileInv'
  BY DEF Inv, FileInv, EndFlush, Holds, Flushers, Reached, MayAttempt, ArmTimer, closeVars,
     Vouched, FinalAttempts, InFlight
<1>5. ShutdownInv'
  BY BoundAssumption, CloserAssumption DEF Inv, TypeOK, ShutdownInv, EndFlush, Flushers, Active,
     InFlight, NoActiveBarrier, MayAttempt, ArmTimer, Reached, closeVars, FinalAttempts
<1> QED
  BY <1>1, <1>2, <1>3, <1>4, <1>5 DEF Inv

LEMMA TimerFiresInv == ASSUME Inv, TimerFires PROVE Inv'
<1>1. TypeOK'
  <2>1. write' \in [stage : {"none", "started", "captured", "landed"}, target : 0..dirty,
                    captured : 0..store, by : {"nobody", "timer", "flush"}]
    BY BoundAssumption DEF Inv, TypeOK, TimerFires, StartWrite
  <2> QED
    BY <2>1 DEF Inv, TypeOK, TimerFires, closeVars, flushVars
<1>2. WriteInv'
  BY BoundAssumption, CloserAssumption DEF Inv, TypeOK, WriteInv, TimerFires, Flushers,
     InFlight, Holds, StartWrite, closeVars, flushVars, Vouched
<1>3. WakeInv'
  BY BoundAssumption, CloserAssumption DEF Inv, TypeOK, WakeInv, WriteInv, TimerFires,
     Flushers, InFlight, NoLostWakeup, Holds, StartWrite, closeVars, flushVars, Active,
     Vouched
<1>4. FileInv'
  BY DEF Inv, FileInv, TimerFires, Holds, Flushers, Reached, InFlight, StartWrite, closeVars,
     flushVars, Vouched
<1>5. ShutdownInv'
  BY DEF Inv, ShutdownInv, TimerFires, Active, InFlight, NoActiveBarrier, StartWrite, closeVars,
     flushVars
<1> QED
  BY <1>1, <1>2, <1>3, <1>4, <1>5 DEF Inv

LEMMA WriteCapturesInv == ASSUME Inv, WriteCaptures PROVE Inv'
<1>1. TypeOK'
  <2>1. write'.captured \in 0..store /\ store \in Nat
    BY BoundAssumption DEF Inv, TypeOK, WriteCaptures
  <2>2. write' \in [stage : {"none", "started", "captured", "landed"}, target : 0..dirty,
                    captured : 0..store, by : {"nobody", "timer", "flush"}]
    BY <2>1 DEF Inv, TypeOK, WriteCaptures
  <2> QED
    BY <2>2 DEF Inv, TypeOK, WriteCaptures, closeVars, flushVars
<1>2. WriteInv'
  BY BoundAssumption, CloserAssumption DEF Inv, TypeOK, WriteInv, WriteCaptures, Flushers,
     InFlight, Holds, closeVars, flushVars, Vouched
<1>3. WakeInv'
  BY DEF Inv, WakeInv, WriteCaptures, Flushers, InFlight, NoLostWakeup, closeVars, flushVars,
     Active
<1>4. FileInv'
  BY DEF Inv, FileInv, WriteCaptures, Holds, Flushers, Reached, closeVars, flushVars, Vouched
<1>5. ShutdownInv'
  BY DEF Inv, ShutdownInv, WriteCaptures, Active, InFlight, NoActiveBarrier, closeVars, flushVars
<1> QED
  BY <1>1, <1>2, <1>3, <1>4, <1>5 DEF Inv

LEMMA WriteLandsInv == ASSUME Inv, WriteLands PROVE Inv'
<1>1. TypeOK'
  BY DEF Inv, TypeOK, WriteLands, Flushers, closeVars, flushVars
<1>2. WriteInv'
  BY DEF Inv, WriteInv, WriteLands, InFlight, Holds, closeVars, flushVars, Flushers, Vouched
<1>3. WakeInv'
  BY DEF Inv, WakeInv, WriteLands, Flushers, InFlight, NoLostWakeup, closeVars, flushVars,
     Active
<1>4. FileInv'
  BY BoundAssumption, CloserAssumption DEF Inv, TypeOK, FileInv, WriteInv, WriteLands,
     Flushers, Holds, Reached, InFlight, closeVars, flushVars, Vouched
<1>5. ShutdownInv'
  BY DEF Inv, ShutdownInv, WriteLands, Active, InFlight, NoActiveBarrier, closeVars, flushVars
<1> QED
  BY <1>1, <1>2, <1>3, <1>4, <1>5 DEF Inv

LEMMA WriteSucceedsInv == ASSUME Inv, WriteSucceeds PROVE Inv'
<1>1. TypeOK'
  BY DEF Inv, TypeOK, WriteSucceeds, Flushers, EndWrite, NoWrite, closeVars
<1>2. WriteInv'
  BY DEF Inv, WriteInv, WriteSucceeds, InFlight, Holds, EndWrite, Flushers, Vouched, NoWrite,
     closeVars
<1>3. WakeInv'
  BY BoundAssumption, CloserAssumption DEF Inv, TypeOK, WakeInv, WriteInv, WriteSucceeds,
     Flushers, InFlight, NoLostWakeup, Holds, EndWrite, Active, Vouched, NoWrite, closeVars
<1>4. FileInv'
  BY BoundAssumption, CloserAssumption DEF Inv, TypeOK, FileInv, WriteInv, WriteSucceeds,
     Flushers, Holds, Reached, InFlight, EndWrite, Vouched, NoWrite, closeVars
<1>5. ShutdownInv'
  BY DEF Inv, ShutdownInv, WriteSucceeds, Active, InFlight, NoActiveBarrier, EndWrite, NoWrite,
     Flushers, closeVars
<1> QED
  BY <1>1, <1>2, <1>3, <1>4, <1>5 DEF Inv

LEMMA WriteFailsInv == ASSUME Inv, WriteFails PROVE Inv'
<1>1. TypeOK'
  BY BoundAssumption, CloserAssumption DEF Inv, TypeOK, WriteInv, WriteFails, Flushers,
     InFlight, Holds, EndWrite, Vouched, NoWrite, closeVars
<1>2. WriteInv'
  BY DEF Inv, WriteInv, WriteFails, InFlight, Holds, EndWrite, Flushers, Vouched, NoWrite,
     closeVars
<1>3. WakeInv'
  BY DEF Inv, WakeInv, WriteFails, Flushers, InFlight, NoLostWakeup, EndWrite, Active,
     NoWrite, closeVars
<1>4. FileInv'
  BY DEF Inv, FileInv, WriteFails, Holds, Flushers, Reached, InFlight, EndWrite, Vouched,
     NoWrite, closeVars
<1>5. ShutdownInv'
  BY DEF Inv, ShutdownInv, WriteFails, Active, InFlight, NoActiveBarrier, EndWrite, NoWrite,
     Flushers, closeVars
<1> QED
  BY <1>1, <1>2, <1>3, <1>4, <1>5 DEF Inv

(* A command that puts an older map back is remembered in replaced; any      *)
(* other map it writes holds what the file held.                            *)
LEMMA CommandCommitsInv == ASSUME Inv, CommandCommits PROVE Inv'
<1>1. PICK captured \in 0 .. store :
          /\ file' = captured
          /\ replaced' = (captured < file \/ (replaced /\ captured < store))
  BY DEF CommandCommits
<1>2. UNCHANGED <<store, writerVars, closeVars, flushVars, failures>>
  BY DEF CommandCommits
<1>3. ~replaced' => captured = store \/ (~replaced /\ file <= captured)
  <2>1. ~replaced' => ~(captured < file) /\ ~(replaced /\ captured < store)
    BY <1>1, Zenon
  <2> QED
    BY <2>1, BoundAssumption DEF Inv, TypeOK
<1>4. ASSUME NEW g \in Nat, ~replaced', ~replaced => Holds(g, file) PROVE Holds(g, file)'
  <2>1. \A f \in Flushers : need[f] \in 0..store
    BY DEF Inv, TypeOK
  <2>2. \A n \in 0..store : (~replaced => n <= file) => n <= captured
    BY <1>1, <1>3, <1>4, BoundAssumption DEF Inv, TypeOK
  <2>3. \A f \in Flushers : Vouched(f) /\ required[f] <= g => need[f] <= captured
    BY <1>4, <2>1, <2>2 DEF Holds
  <2>4. shutdown = "no" /\ dirty <= g => store <= captured
    BY <1>4, <2>2, BoundAssumption DEF Inv, TypeOK, Holds
  <2> QED
    BY <1>1, <1>2, <2>3, <2>4 DEF Holds, Vouched, writerVars, closeVars, flushVars
<1>5. TypeOK'
  BY DEF Inv, TypeOK, CommandCommits, Flushers, writerVars, closeVars, flushVars
<1>6. WriteInv'
  <2>1. write.target \in Nat
    BY DEF Inv, TypeOK
  <2>2. write.stage = "landed" /\ ~replaced' => Holds(write.target, file)'
    BY <1>2, <1>4, <2>1 DEF Inv, WriteInv, writerVars
  <2> QED
    BY <1>2, <2>2 DEF Inv, WriteInv, Holds, Vouched, InFlight, writerVars, closeVars, flushVars
<1>7. WakeInv'
  BY <1>2 DEF Inv, WakeInv, NoLostWakeup, InFlight, Active, writerVars, closeVars, flushVars
<1>8. FileInv'
  <2>1. persisted \in Nat /\ persisted' = persisted
    BY <1>2 DEF Inv, TypeOK, writerVars
  <2>2. ~replaced' => Holds(persisted, file)'
    BY <1>4, <2>1 DEF Inv, FileInv
  <2> QED
    BY <1>2, <2>1, <2>2 DEF Inv, FileInv, Reached, flushVars
<1>9. ShutdownInv'
  BY <1>2 DEF Inv, ShutdownInv, Active, InFlight, NoActiveBarrier, writerVars, closeVars, flushVars
<1> QED
  BY <1>5, <1>6, <1>7, <1>8, <1>9 DEF Inv

LEMMA CloseInv == ASSUME Inv, Close PROVE Inv'
<1>1. TypeOK'
  <2>1. store' \in 0..MaxChanges /\ file' \in 0..store' 
        /\ dirty' \in Nat /\ persisted' \in 0..dirty'
    BY BoundAssumption DEF Inv, TypeOK, Close, BeginDraining, BeginFlush
  <2>2. attempts' \in [Flushers -> 0..FinalAttempts]
    BY DEF Inv, TypeOK, Close, BeginDraining, BeginFlush, Flushers, FinalAttempts
  <2>3. required' \in [Flushers -> 0..dirty'] /\ need' \in [Flushers -> 0..store']
    BY BoundAssumption DEF Inv, TypeOK, Close, BeginDraining, BeginFlush, Flushers
  <2>4. write' \in [stage : {"none", "started", "captured", "landed"}, target : 0..dirty',
                    captured : 0..store', by : {"nobody", "timer", "flush"}]
    BY <2>1 DEF Inv, TypeOK, Close, BeginDraining, BeginFlush
  <2>5. pc' \in [Flushers -> {"idle", "joined", "attempting", "resolved", "failed"}]
    BY DEF Inv, TypeOK, Close, BeginDraining, BeginFlush, Flushers
  <2>6. timer' \in BOOLEAN /\ tracked' \in BOOLEAN /\ closed' \in BOOLEAN
        /\ writer' \in {"live", "disposed"} /\ shutdown' \in {"no", "draining", "disposing", "done"}
        /\ replaced' \in BOOLEAN /\ failures' \in 0..MaxFailures
    BY DEF Inv, TypeOK, Close, BeginDraining, BeginFlush
  <2> QED
    BY <2>1, <2>2, <2>3, <2>4, <2>5, <2>6 DEF TypeOK
<1>2. WriteInv'
  BY BoundAssumption, CloserAssumption DEF Inv, TypeOK, WriteInv, ShutdownInv, Close, Flushers,
     InFlight, Holds, Active, NoActiveBarrier, BeginDraining, Vouched, BeginFlush
<1>3. WakeInv'
  BY BoundAssumption, CloserAssumption DEF Inv, TypeOK, WakeInv, Close, Flushers, InFlight,
     NoLostWakeup, BeginDraining, Active, BeginFlush
<1>4. FileInv'
  BY BoundAssumption, CloserAssumption DEF Inv, TypeOK, FileInv, ShutdownInv, Close, Flushers,
     Holds, Reached, Active, InFlight, NoActiveBarrier, BeginDraining, Vouched, BeginFlush
<1>5. ShutdownInv'
  BY DEF Inv, ShutdownInv, Close, Active, InFlight, NoActiveBarrier, BeginDraining, BeginFlush
<1> QED
  BY <1>1, <1>2, <1>3, <1>4, <1>5 DEF Inv

LEMMA StopForShutdownInv == ASSUME Inv, StopForShutdown PROVE Inv'
<1>1. TypeOK'
  <2>1. store' \in 0..MaxChanges /\ file' \in 0..store' 
        /\ dirty' \in Nat /\ persisted' \in 0..dirty'
    BY BoundAssumption DEF Inv, TypeOK, StopForShutdown, BeginDraining, BeginFlush
  <2>2. attempts' \in [Flushers -> 0..FinalAttempts]
    BY DEF Inv, TypeOK, StopForShutdown, BeginDraining, BeginFlush, Flushers, FinalAttempts
  <2>3. required' \in [Flushers -> 0..dirty'] /\ need' \in [Flushers -> 0..store']
    BY BoundAssumption DEF Inv, TypeOK, StopForShutdown, BeginDraining, BeginFlush, Flushers
  <2>4. write' \in [stage : {"none", "started", "captured", "landed"}, target : 0..dirty',
                    captured : 0..store', by : {"nobody", "timer", "flush"}]
    BY <2>1 DEF Inv, TypeOK, StopForShutdown, BeginDraining, BeginFlush
  <2>5. pc' \in [Flushers -> {"idle", "joined", "attempting", "resolved", "failed"}]
    BY DEF Inv, TypeOK, StopForShutdown, BeginDraining, BeginFlush, Flushers
  <2>6. timer' \in BOOLEAN /\ tracked' \in BOOLEAN /\ closed' \in BOOLEAN
        /\ writer' \in {"live", "disposed"} /\ shutdown' \in {"no", "draining", "disposing", "done"}
        /\ replaced' \in BOOLEAN /\ failures' \in 0..MaxFailures
    BY DEF Inv, TypeOK, StopForShutdown, BeginDraining, BeginFlush
  <2> QED
    BY <2>1, <2>2, <2>3, <2>4, <2>5, <2>6 DEF TypeOK
<1>2. WriteInv'
  BY BoundAssumption, CloserAssumption DEF Inv, TypeOK, WriteInv, StopForShutdown, Flushers,
     InFlight, Holds, BeginDraining, Vouched, BeginFlush
<1>3. WakeInv'
  BY BoundAssumption, CloserAssumption DEF Inv, TypeOK, WakeInv, StopForShutdown, Flushers,
     InFlight, NoLostWakeup, BeginDraining, Active, BeginFlush
<1>4. FileInv'
  BY BoundAssumption, CloserAssumption DEF Inv, TypeOK, FileInv, StopForShutdown, Flushers,
     Holds, Reached, BeginDraining, Vouched, BeginFlush, InFlight
<1>5. ShutdownInv'
  BY DEF Inv, ShutdownInv, StopForShutdown, Active, InFlight, NoActiveBarrier, BeginDraining,
     BeginFlush
<1> QED
  BY <1>1, <1>2, <1>3, <1>4, <1>5 DEF Inv

LEMMA StopSkippingPersistenceInv == ASSUME Inv, StopSkippingPersistence PROVE Inv'
<1>1. TypeOK'
  BY DEF Inv, TypeOK, StopSkippingPersistence, Flushers, Dispose, flushVars
<1>2. WriteInv'
  BY DEF Inv, WriteInv, StopSkippingPersistence, InFlight, Holds, Dispose, flushVars,
     Flushers, Vouched
<1>3. WakeInv'
  BY DEF Inv, WakeInv, StopSkippingPersistence, Flushers, InFlight, NoLostWakeup, Dispose,
     flushVars, Active
<1>4. FileInv'
  BY DEF Inv, FileInv, StopSkippingPersistence, Holds, Flushers, Reached, Dispose, flushVars,
     Vouched
<1>5. ShutdownInv'
  BY DEF Inv, ShutdownInv, StopSkippingPersistence, Active, InFlight, NoActiveBarrier, Dispose,
     flushVars
<1> QED
  BY <1>1, <1>2, <1>3, <1>4, <1>5 DEF Inv

LEMMA DisposeDrainedInv == ASSUME Inv, DisposeDrained PROVE Inv'
<1>1. TypeOK'
  BY DEF Inv, TypeOK, DisposeDrained, Flushers, Active, NoActiveBarrier, Dispose, flushVars
<1>2. WriteInv'
  BY DEF Inv, WriteInv, DisposeDrained, InFlight, Holds, Active, NoActiveBarrier, Dispose,
     flushVars, Flushers, Vouched
<1>3. WakeInv'
  BY DEF Inv, WakeInv, DisposeDrained, Flushers, InFlight, NoLostWakeup, Active,
     NoActiveBarrier, Dispose, flushVars
<1>4. FileInv'
  BY DEF Inv, FileInv, DisposeDrained, Holds, Flushers, Reached, Active, NoActiveBarrier,
     Dispose, flushVars, Vouched
<1>5. ShutdownInv'
  BY DEF Inv, ShutdownInv, DisposeDrained, Active, InFlight, NoActiveBarrier, Dispose, flushVars
<1> QED
  BY <1>1, <1>2, <1>3, <1>4, <1>5 DEF Inv

LEMMA FinishShutdownInv == ASSUME Inv, FinishShutdown PROVE Inv'
<1>1. TypeOK'
  BY DEF Inv, TypeOK, FinishShutdown, Flushers, InFlight, NoActiveBarrier, writerVars,
     flushVars, Active
<1>2. WriteInv'
  BY DEF Inv, WriteInv, FinishShutdown, InFlight, Holds, NoActiveBarrier, writerVars,
     flushVars, Flushers, Vouched, Active
<1>3. WakeInv'
  BY DEF Inv, WakeInv, FinishShutdown, Flushers, InFlight, NoLostWakeup, NoActiveBarrier,
     writerVars, flushVars, Active
<1>4. FileInv'
  BY DEF Inv, FileInv, FinishShutdown, Holds, Flushers, Reached, InFlight, NoActiveBarrier,
     writerVars, flushVars, Vouched, Active
<1>5. ShutdownInv'
  BY DEF Inv, ShutdownInv, FinishShutdown, Active, InFlight, NoActiveBarrier, writerVars,
     flushVars
<1> QED
  BY <1>1, <1>2, <1>3, <1>4, <1>5 DEF Inv

-----------------------------------------------------------------------------
LEMMA InitInv == Init => Inv
<1> SUFFICES ASSUME Init PROVE Inv
  OBVIOUS
<1>1. TypeOK
  <2>1. write \in [stage : {"none", "started", "captured", "landed"}, target : 0..dirty,
                   captured : 0..store, by : {"nobody", "timer", "flush"}]
    BY DEF Init, NoWrite
  <2>2. attempts \in [Flushers -> 0..FinalAttempts]
    BY DEF Init, FinalAttempts
  <2>3. pc \in [Flushers -> {"idle", "joined", "attempting", "resolved", "failed"}]
        /\ required \in [Flushers -> 0..dirty] /\ need \in [Flushers -> 0..store]
    BY DEF Init
  <2>4. store \in 0..MaxChanges /\ file \in 0..store /\ dirty \in Nat /\ persisted \in 0..dirty
        /\ failures \in 0..MaxFailures
    BY BoundAssumption DEF Init
  <2> QED
    BY <2>1, <2>2, <2>3, <2>4 DEF Init, TypeOK
<1>2. WriteInv
  BY DEF Init, WriteInv, InFlight, NoWrite
<1>3. WakeInv
  BY DEF Init, WakeInv, NoLostWakeup, InFlight, NoWrite
<1>4. FileInv
  <2>1. Holds(persisted, file)
    BY DEF Init, Holds, Flushers
  <2>2. \A f \in Flushers : pc[f] = "idle"
    BY DEF Init
  <2> QED
    BY <2>1, <2>2 DEF FileInv
<1>5. ShutdownInv
  BY DEF Init, ShutdownInv, Flushers
<1> QED
  BY <1>1, <1>2, <1>3, <1>4, <1>5 DEF Inv

LEMMA NextInv == Inv /\ [Next]_vars => Inv'
<1> SUFFICES ASSUME Inv, [Next]_vars PROVE Inv'
  OBVIOUS
<1>1. CASE \E b \in Barriers : ForcingHook(b) \/ DuplicateHook(b)
  BY <1>1, ForcingHookInv, DuplicateHookInv
<1>2. CASE \E f \in Flushers : FlushStep(f)
  BY <1>2, AttemptInv, EndFlushInv DEF FlushStep
<1>3. CASE Change \/ CommandCommits
  BY <1>3, ChangeInv, CommandCommitsInv
<1>4. CASE TimerFires \/ WriteCaptures \/ WriteLands \/ WriteEnds
  BY <1>4, TimerFiresInv, WriteCapturesInv, WriteLandsInv, WriteSucceedsInv, WriteFailsInv
  DEF WriteEnds
<1>5. CASE Close \/ StopForShutdown \/ StopSkippingPersistence \/ DisposeDrained \/ FinishShutdown
  BY <1>5, CloseInv, StopForShutdownInv, StopSkippingPersistenceInv, DisposeDrainedInv,
     FinishShutdownInv
<1>6. CASE UNCHANGED vars
  BY <1>6 DEF Inv, TypeOK, WriteInv, WakeInv, FileInv, ShutdownInv, Flushers, InFlight, Holds,
     Vouched, Reached, NoLostWakeup, Active, NoActiveBarrier, vars, writerVars, closeVars, flushVars
<1> QED
  BY <1>1, <1>2, <1>3, <1>4, <1>5, <1>6 DEF Next

THEOREM InvariantHolds == Spec => []Inv
BY InitInv, NextInv, PTL DEF Spec

(* Type correctness: in particular no flush ever waits for a generation that *)
(* was not marked, and none makes more attempts than it has.                 *)
THEOREM TypeCorrect == Spec => []TypeOK
<1>1. Inv => TypeOK
  BY DEF Inv
<1> QED
  BY <1>1, InvariantHolds, PTL

(* What is dirty is never forgotten by schedulePersist, the write loop and    *)
(* the flushes between them, whatever writes fail and whoever shares them.    *)
THEOREM NothingDirtyIsForgotten == Spec => []NoLostWakeup
<1>1. Inv => NoLostWakeup
  BY DEF Inv, WakeInv
<1> QED
  BY <1>1, InvariantHolds, PTL

(* A delivery or a shutdown that was told its change is durable finds it in   *)
(* sessions.json, unless a board command has put an older map back.           *)
THEOREM AcknowledgedIsDurable == Spec => []AcknowledgedUnlessReplaced
<1>1. Inv => AcknowledgedUnlessReplaced
  BY DEF Inv, FileInv, Holds, Vouched, Reached, AcknowledgedUnlessReplaced, AcknowledgedStaysDurable
<1> QED
  BY <1>1, InvariantHolds, PTL

(* Once the shutdown flushes, only deliveries mark generations, and each     *)
(* waits for the one it has marked: somebody waits for the last one.         *)
SomebodyWaits == \E f \in Flushers : required[f] = dirty /\ pc[f] # "idle"
WaitedInv == shutdown # "no" /\ pc[Closer] # "idle" => SomebodyWaits

(* Nobody goes back to where his flush has not begun.                        *)
LEMMA WaitsOn ==
    ASSUME WaitedInv, ShutdownInv, shutdown # "no", UNCHANGED <<dirty, required>>,
           pc'[Closer] # "idle" => pc[Closer] # "idle",
           \A f \in Flushers : pc[f] # "idle" => pc'[f] # "idle"
    PROVE  WaitedInv'
BY DEF WaitedInv, SomebodyWaits

LEMMA WaitedStep == Inv /\ WaitedInv /\ [Next]_vars => WaitedInv'
<1> SUFFICES ASSUME Inv, WaitedInv, [Next]_vars PROVE WaitedInv'
  OBVIOUS
<1>1. TypeOK /\ ShutdownInv /\ Closer \in Flushers /\ Closer \notin Barriers
  BY CloserAssumption DEF Inv, Flushers
<1>2. CASE \E b \in Barriers : ForcingHook(b) \/ DuplicateHook(b)
  <2>1. PICK b \in Barriers : ForcingHook(b) \/ DuplicateHook(b)
    BY <1>2
  <2>2. /\ b \in Flushers /\ b # Closer /\ pc[b] = "idle" /\ shutdown' = shutdown
        /\ pc' \in [Flushers -> {"idle", "joined", "attempting", "resolved", "failed"}]
    BY <1>1, <2>1, NextInv DEF Flushers, ForcingHook, DuplicateHook, closeVars, TypeOK, Inv
  <2>3. /\ pc'[b] # "idle" /\ \A f \in Flushers : f # b => pc'[f] = pc[f]
    BY <1>1, <2>1, <2>2 DEF ForcingHook, DuplicateHook, RefuseFlush, BeginFlush, TypeOK
  <2>4. CASE UNCHANGED <<dirty, required>>
    BY <1>1, <2>2, <2>3, <2>4 DEF WaitedInv, SomebodyWaits
  <2>5. CASE required' = [required EXCEPT ![b] = dirty']
    BY <1>1, <2>2, <2>3, <2>5 DEF WaitedInv, SomebodyWaits, TypeOK
  <2> QED
    BY <2>1, <2>4, <2>5 DEF ForcingHook, DuplicateHook, RefuseFlush, BeginFlush
<1>3. CASE \E f \in Flushers : FlushStep(f)
  <2>1. /\ UNCHANGED <<dirty, required, shutdown>>
        /\ \A f \in Flushers : pc[f] # "idle" <=> pc'[f] # "idle"
    BY <1>1, <1>3 DEF FlushStep, Attempt, EndFlush, MayAttempt, closeVars, TypeOK
  <2> QED
    BY <1>1, <2>1, WaitsOn DEF WaitedInv
<1>4. CASE Change \/ CommandCommits \/ TimerFires \/ WriteCaptures \/ WriteLands \/ WriteEnds
  <2>1. shutdown # "no" => UNCHANGED <<dirty, required>>
    BY <1>1, <1>4 DEF ShutdownInv, Change, CommandCommits, TimerFires, WriteCaptures, WriteLands,
                      WriteEnds, WriteSucceeds, WriteFails, EndWrite, writerVars, flushVars
  <2>2. /\ shutdown' = shutdown
        /\ \A f \in Flushers : pc[f] # "idle" <=> pc'[f] # "idle"
    BY <1>1, <1>4 DEF Change, CommandCommits, TimerFires, WriteCaptures, WriteLands, WriteEnds,
                      WriteSucceeds, WriteFails, EndWrite, closeVars, flushVars
  <2> QED
    BY <1>1, <2>1, <2>2, WaitsOn DEF WaitedInv
<1>5. CASE Close \/ StopForShutdown
  <2>1. /\ dirty' = dirty /\ required' = [required EXCEPT ![Closer] = dirty]
        /\ pc' = [pc EXCEPT ![Closer] = IF InFlight THEN "joined" ELSE "attempting"]
    BY <1>5 DEF Close, StopForShutdown, BeginDraining, BeginFlush
  <2> QED
    BY <1>1, <2>1 DEF WaitedInv, SomebodyWaits, TypeOK
<1>6. CASE StopSkippingPersistence \/ DisposeDrained \/ FinishShutdown \/ UNCHANGED vars
  <2>1. /\ UNCHANGED <<dirty, required, pc>>
        /\ shutdown = "no" => pc'[Closer] = "idle" \/ shutdown' = "no"
    BY <1>1, <1>6 DEF ShutdownInv, StopSkippingPersistence, DisposeDrained, FinishShutdown, vars,
                      writerVars, flushVars
  <2> QED
    BY <1>1, <2>1, WaitsOn DEF WaitedInv
<1> QED
  BY <1>2, <1>3, <1>4, <1>5, <1>6 DEF Next

(* After stop() or close() no write, timer or waiting delivery is left, and  *)
(* a generation that is still dirty has failed the flush of somebody who     *)
(* waited for it, unless persistence was skipped.                            *)
THEOREM ShutdownIsComplete == Spec => []ShutdownLeavesNothing
<1>1. Init => WaitedInv
  BY DEF Init, WaitedInv
<1>2. ASSUME Inv, WaitedInv, shutdown = "done"
      PROVE  /\ ~InFlight /\ ~timer /\ \A f \in Flushers : ~Active(f)
             /\ persisted < dirty =>
                   \/ pc[Closer] = "idle"
                   \/ \E f \in Flushers : pc[f] = "failed" /\ required[f] = dirty
  <2>1. ~InFlight /\ ~timer /\ \A f \in Flushers : ~Active(f)
    BY <1>2 DEF Inv, ShutdownInv, NoActiveBarrier, Flushers
  <2>2. ASSUME persisted < dirty, pc[Closer] # "idle"
        PROVE  \E f \in Flushers : pc[f] = "failed" /\ required[f] = dirty
    <3>1. PICK f \in Flushers : required[f] = dirty /\ pc[f] # "idle"
      BY <1>2, <2>2 DEF WaitedInv, SomebodyWaits
    <3>2. pc[f] \in {"resolved", "failed"}
      BY <1>2, <2>1, <3>1 DEF Inv, TypeOK, Active
    <3>3. pc[f] # "resolved"
      BY <1>2, <2>2, <3>1 DEF Inv, TypeOK, FileInv, Reached
    <3> QED
      BY <3>1, <3>2, <3>3
  <2> QED
    BY <2>1, <2>2
<1>3. Inv /\ WaitedInv => ShutdownLeavesNothing
  BY <1>2 DEF ShutdownLeavesNothing
<1> QED
  BY InvariantHolds, <1>1, WaitedStep, <1>3, PTL DEF Spec

=============================================================================
