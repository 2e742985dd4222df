------------------------ MODULE TaskLifecycleProofs ------------------------
(***************************************************************************)
(* Theorems about TaskLifecycle, for any number of operations, rebases,    *)
(* foreign commits, failing steps and crashes of the runtime.              *)
(*                                                                         *)
(* At most one operation of the task is pending and every later one is     *)
(* absent, so the invariant says, of that operation, what its kind, its    *)
(* receipts and its stage tell of the card, the process and the worktree,  *)
(* and of the last finished one, that what it reported is still so.        *)
(***************************************************************************)
EXTENDS TaskLifecycle, TLAPS

Work == {"review", "in_progress"}
Moving == Starts \cup {"trash", "restore"}

(* One operation at a time, in the order of their ids; only the pending one *)
(* runs, and only pending ones are recovered.                               *)
Order ==
    /\ \A p, q \in Operations :
           p < q /\ journal[q].status # "absent" => journal[p].status # "absent"
    /\ \A o \in Operations : Pending(o) =>
           \A p \in Operations : p > o => journal[p].status = "absent"
    /\ \A o \in Operations : ~Pending(o) => At(o, "idle")
    /\ \A o \in Operations : journal[o].status = "absent" =>
           launches[o] = 0 /\ \A s \in Steps : receipts[o][s] = "none"
    /\ \A o \in server.recovering : Pending(o) /\ At(o, "idle")
    /\ server.serving = TRUE => server.recovering = {}

CardFacts ==
    /\ board.unstarted = TRUE => board.column \in {"review", "trash"}
    /\ board.column = "none" => tree.head = "absent" /\ board.pinned = FALSE
    /\ board.column = "none" \/ board.unstarted = TRUE => session.process = Nobody
    /\ session.process # Nobody => session.live = session.process

(* Which kinds of operation reach a stage. *)
KindFacts(o) ==
    /\ journal[o].source \in Work
    /\ journal[o].deleting = TRUE => Kind(o) = "delete"
    /\ At(o, "create") => Kind(o) = "create_and_start"
    /\ At(o, "validate") => Kind(o) # "create_and_start"
    /\ exec[o].at \in {"move", "accepted", "look", "compensate"} => Kind(o) \in Moving
    /\ At(o, "stop") => Kind(o) \notin Starts
    /\ exec[o].at \in {"save_branch", "detach"} => Kind(o) \in {"trash", "restore"}
    /\ exec[o].at \in {"reattach", "consume", "stop_again"} => Kind(o) = "restore"
    /\ At(o, "ensure") => Kind(o) \in Starts \cup {"restart"}
    /\ exec[o].at \in {"launch", "failed"} => Kind(o) \in Starts \cup {"restore", "restart"}
    /\ exec[o].at \in {"purge", "mark_deleting", "delete"} => Kind(o) = "delete"

AfterMoveStages == {"accepted", "stop", "save_branch", "detach", "reattach", "consume",
    "ensure", "launch", "failed", "look", "compensate", "stop_again"}

(* On the way to the first and only launch of a start. *)
Fresh(o) == exec[o].at \in {"ensure", "launch"} \/ (At(o, "accepted") /\ exec[o].replayed = FALSE)

(* What the receipts of the move and of its compensation tell. *)
Moved(o) == receipts[o]["move"] = "accepted" /\ receipts[o]["compensate"] = "none"

MoveFacts(o) ==
    /\ Kind(o) \in Moving /\ exec[o].at \in AfterMoveStages => receipts[o]["move"] = "accepted"
    /\ receipts[o]["compensate"] # "none" => receipts[o]["move"] = "accepted"
    /\ receipts[o]["move"] # "none" => Kind(o) \in Moving
    /\ receipts[o]["move"] = "accepted" => board.column # "none"
    /\ Moved(o) /\ Kind(o) \in Starts =>
          /\ board.column \in Work /\ board.unstarted = FALSE
          /\ session.process \in {Nobody, o}
    /\ Moved(o) /\ Kind(o) = "restore" => board.column \in Work
    /\ Moved(o) /\ Kind(o) = "trash" =>
          /\ board.column = "trash"
          /\ board.unstarted = TRUE => journal[o].source = "review"

StartFacts(o) ==
    Kind(o) \in Starts =>
        /\ launches[o] <= 1
        /\ receipts[o]["move"] = "none" \/ Fresh(o) => launches[o] = 0
        /\ Fresh(o) => receipts[o]["compensate"] = "none"
        /\ receipts[o]["compensate"] = "accepted" => board.column = "review" /\ board.unstarted = TRUE
        /\ At(o, "compensate") => ~Launched(o)

(* What the operations without a move found when they were validated. *)
StageFacts(o) ==
    /\ Kind(o) = "restart" /\ exec[o].at \in {"stop", "ensure", "launch", "failed"} =>
          board.column \in Work /\ board.unstarted = FALSE
    /\ Kind(o) = "trash" /\ exec[o].at \in {"save_branch", "detach"} => session.process = Nobody
    /\ Kind(o) = "delete" /\ exec[o].at \in {"stop", "purge", "mark_deleting"} =>
          board.column = "trash" /\ board.pinned = FALSE
    /\ exec[o].at \in {"purge", "mark_deleting", "delete"} => session.process = Nobody
    /\ At(o, "mark_deleting") => tree.head = "absent"
    /\ At(o, "delete") => journal[o].deleting = TRUE
    /\ At(o, "delete") =>
          \/ board.column = "none"
          \/ board.column = "trash" /\ board.pinned = FALSE /\ tree.head = "absent"

DeleteFacts(o) ==
    receipts[o]["delete"] = "accepted" =>
        /\ Kind(o) = "delete" /\ board.column = "none" /\ journal[o].deleting = TRUE
        /\ exec[o].at \in {"idle", "validate", "delete", "finish"}
        /\ At(o, "finish") => exec[o].outcome \in Succeeded \cup {"internal_error"}

(* What an outcome says of the card, the process and the worktree. *)
Real(o, outcome, warned) ==
    /\ outcome \in Succeeded /\ receipts[o]["compensate"] = "none" =>
          /\ Kind(o) = "trash" => /\ board.column = "trash" /\ session.process = Nobody
                                  /\ tree.head = "attached" => warned = TRUE
          /\ Kind(o) = "restore" => board.column \in Work
          /\ Kind(o) = "delete" => board.column = "none"
          /\ Kind(o) = "stop" => session.process = Nobody
          /\ Kind(o) \in Starts \cup {"restart"} => board.column \in Work /\ board.unstarted = FALSE
    /\ Kind(o) \in Starts /\ outcome \in {"superseded", "session_start_failed"} =>
          board.column = "review" /\ board.unstarted = TRUE

Running(o) ==
    /\ KindFacts(o) /\ MoveFacts(o) /\ StartFacts(o) /\ StageFacts(o) /\ DeleteFacts(o)
    /\ At(o, "finish") => Real(o, exec[o].outcome, exec[o].warned)

Reported(o) ==
    /\ Kind(o) \in Starts => launches[o] <= 1
    /\ receipts[o]["delete"] = "accepted" => journal[o].outcome \in Succeeded \cup {"internal_error"}
    /\ (\A p \in Operations : p > o => journal[p].status = "absent") =>
          Real(o, journal[o].outcome, journal[o].warned)

Inv ==
    /\ TypeOK /\ Order /\ CardFacts
    /\ \A o \in Operations : (Pending(o) => Running(o)) /\ (Done(o) => Reported(o))

-----------------------------------------------------------------------------
(* Types, by name.                                                         *)

Cards == [column: Columns, unstarted: BOOLEAN, pinned: BOOLEAN, revision: Nat]
Receipts == [Steps -> {"none", "accepted", "rejected"}]
Entries == [status: {"absent", "pending", "done"}, kind: Kinds, expected: Nat,
            source: Columns, deleting: BOOLEAN, outcome: Outcomes, warned: BOOLEAN]
Execs == [at: Stages, base: Nat, rebases: 0 .. MaxRebases, replayed: BOOLEAN,
          outcome: Outcomes, warned: BOOLEAN]
Sessions == [process: Operations \cup {Nobody}, live: Operations \cup {Nobody},
             saved: Operations \cup {Nobody}]
Trees == [head: {"absent", "attached", "detached"}, marker: BOOLEAN]
Servers == [serving: BOOLEAN, recovering: SUBSET Operations]
Bounds == [edits: 0 .. MaxEdits, faults: 0 .. MaxFaults, crashes: 0 .. MaxCrashes]

LEMMA Types ==
    TypeOK <=> /\ board \in Cards /\ receipts \in [Operations -> Receipts]
               /\ journal \in [Operations -> Entries] /\ exec \in [Operations -> Execs]
               /\ session \in Sessions /\ tree \in Trees /\ server \in Servers
               /\ spent \in Bounds /\ launches \in [Operations -> Nat]
BY DEF TypeOK, Cards, Receipts, Entries, Execs, Sessions, Trees, Servers, Bounds

LEMMA Numbers ==
    /\ \A o \in Operations : o \in Nat /\ o # Nobody
    /\ MaxRebases \in Nat /\ MaxEdits \in Nat /\ MaxFaults \in Nat /\ MaxCrashes \in Nat
BY OperationsAssumption, BoundsAssumption DEF Nobody

LEMMA IdleTyped == Idle \in Execs
BY Numbers DEF Idle, Execs, Stages, Outcomes, Succeeded

LEMMA FaultTyped ==
    ASSUME spent \in Bounds, Fault PROVE spent' \in Bounds
<1>1. spent.faults \in 0 .. MaxFaults /\ spent.faults < MaxFaults
  BY DEF Fault, Bounds
<1>2. spent.faults + 1 \in 0 .. MaxFaults
  BY <1>1, Numbers
<1> QED
  BY <1>2 DEF Fault, Bounds

LEMMA InitInv == Init => Inv
<1> SUFFICES ASSUME Init PROVE Inv
  OBVIOUS
<1>1. PICK card \in {<<"none", FALSE, "absent">>, <<"review", TRUE, "absent">>,
                     <<"review", FALSE, "attached">>, <<"trash", FALSE, "detached">>} :
          /\ board = [column |-> card[1], unstarted |-> card[2], pinned |-> FALSE,
                      revision |-> 1]
          /\ tree = [head |-> card[3], marker |-> card[1] = "trash"]
  BY DEF Init
<1>2. board \in Cards /\ tree \in Trees /\ CardFacts
  <2>1. session.process = Nobody
    BY DEF Init
  <2>2. \/ card = <<"none", FALSE, "absent">>
        \/ card = <<"review", TRUE, "absent">>
        \/ card = <<"review", FALSE, "attached">>
        \/ card = <<"trash", FALSE, "detached">>
    OBVIOUS
  <2>3. CASE card = <<"none", FALSE, "absent">>
    BY <1>1, <2>1, <2>3 DEF Cards, Columns, Trees, CardFacts
  <2>4. CASE card = <<"review", TRUE, "absent">>
    BY <1>1, <2>1, <2>4 DEF Cards, Columns, Trees, CardFacts
  <2>5. CASE card = <<"review", FALSE, "attached">>
    BY <1>1, <2>1, <2>5 DEF Cards, Columns, Trees, CardFacts
  <2>6. CASE card = <<"trash", FALSE, "detached">>
    BY <1>1, <2>1, <2>6 DEF Cards, Columns, Trees, CardFacts
  <2> QED
    BY <2>2, <2>3, <2>4, <2>5, <2>6
<1>3. Absent \in Entries /\ \A s \in Steps : s \in Steps
  BY DEF Absent, Entries, Kinds, Columns, Outcomes, Succeeded
<1>4. TypeOK
  <2>1. receipts \in [Operations -> Receipts] /\ journal \in [Operations -> Entries]
    BY <1>3 DEF Init, Receipts
  <2>2. exec \in [Operations -> Execs] /\ launches \in [Operations -> Nat]
    BY IdleTyped DEF Init
  <2>3. session \in Sessions /\ server \in Servers /\ spent \in Bounds
    BY Numbers DEF Init, Sessions, Servers, Bounds
  <2> QED
    BY <1>2, <2>1, <2>2, <2>3, Types
<1>5. \A o \in Operations : journal[o].status = "absent" /\ At(o, "idle")
  BY DEF Init, Absent, Idle, At
<1>6. Order
  BY <1>5 DEF Init, Order, Pending
<1> QED
  BY <1>2, <1>4, <1>5, <1>6 DEF Inv, Pending, Done

-----------------------------------------------------------------------------
(* Who can take a step                                                     *)

LEMMA OnePending ==
    ASSUME Inv, NEW o \in Operations, Pending(o)
    PROVE  \A p \in Operations : p # o =>
              /\ ~Pending(p)
              /\ Done(p) => p < o
<1>1. ASSUME NEW p \in Operations, p # o, journal[p].status # "absent" PROVE p < o /\ ~Pending(p)
  <2>1. ~(p > o)
    BY <1>1 DEF Inv, Order
  <2>2. p < o
    BY <1>1, <2>1, Numbers
  <2>3. ~Pending(p)
    BY <2>2, <1>1 DEF Inv, Order, Pending
  <2> QED
    BY <2>2, <2>3
<1> QED
  BY <1>1 DEF Pending, Done

Others(o) == \A p \in Operations \ {o} :
    /\ receipts'[p] = receipts[p] /\ journal'[p] = journal[p]
    /\ exec'[p] = exec[p] /\ launches'[p] = launches[p]

(* A step of the pending operation is judged by what it makes of itself.   *)
LEMMA OwnStep ==
    ASSUME Inv, NEW o \in Operations, Pending(o), Others(o), TypeOK',
           server'.serving = server.serving, server'.recovering \subseteq server.recovering \ {o},
           Pending(o)', CardFacts', Running(o)'
    PROVE  Inv'
<1>1. \A p \in Operations : journal'[p].status = journal[p].status
  BY DEF Others, Pending
<1>2. ASSUME NEW p \in Operations, p # o PROVE (Pending(p) => Running(p))' /\ (Done(p) => Reported(p))'
  <2>1. ~Pending(p)' /\ (Done(p)' => Done(p) /\ p < o)
    BY <1>1, <1>2, OnePending DEF Pending, Done
  <2>2. ASSUME Done(p)' PROVE Reported(p)'
    <3>1. Reported(p) /\ o > p /\ journal'[o].status # "absent"
      BY <2>1, <2>2, Numbers DEF Inv, Pending
    <3>2. /\ launches'[p] = launches[p] /\ receipts'[p] = receipts[p] /\ journal'[p] = journal[p]
      BY <1>2 DEF Others
    <3> QED
      BY <3>1, <3>2 DEF Reported, Kind
  <2> QED
    BY <2>1, <2>2
<1>3. Order'
  <2>1. \A p \in Operations : ~Pending(p)' => At(p, "idle")'
    BY <1>1 DEF Inv, Order, Others, Pending, At
  <2>2. \A p \in Operations : journal'[p].status = "absent" =>
           launches'[p] = 0 /\ \A s \in Steps : receipts'[p][s] = "none"
    BY <1>1 DEF Inv, Order, Others, Pending
  <2>3. \A p \in server'.recovering : Pending(p)' /\ At(p, "idle")'
    <3>1. server.recovering \subseteq Operations
      BY Types DEF Inv, Servers
    <3> QED
      BY <1>1, <3>1 DEF Inv, Order, Others, Pending, At
  <2>4. server'.serving = TRUE => server'.recovering = {}
    BY DEF Inv, Order
  <2> QED
    BY <1>1, <2>1, <2>2, <2>3, <2>4 DEF Inv, Order, Pending
<1> QED
  BY <1>2, <1>3 DEF Inv, Done, Pending

LEMMA NotRecovering ==
    ASSUME Inv, NEW o \in Operations, ~At(o, "idle")
    PROVE  Pending(o) /\ o \notin server.recovering /\ Running(o)
BY DEF Inv, Order

(* What only moves the operation to another stage.                         *)
Turns(o, stage, outcome) ==
    /\ exec' \in [Operations -> Execs]
    /\ exec'[o].at = stage /\ exec'[o].outcome = outcome
    /\ \A p \in Operations \ {o} : exec'[p] = exec[p]

(* What a whole new entry of an operation makes of "exec".                 *)
LEMMA Turned ==
    ASSUME exec \in [Operations -> Execs], NEW o \in Operations, NEW entry \in Execs,
           exec' = [exec EXCEPT ![o] = entry], NEW stage, NEW outcome,
           entry.at = stage, entry.outcome = outcome
    PROVE  Turns(o, stage, outcome)
BY DEF Turns

LEMMA Going ==
    ASSUME exec \in [Operations -> Execs], NEW o \in Operations, NEW stage \in Stages, Go(o, stage)
    PROVE  Turns(o, stage, exec[o].outcome) /\ exec'[o].warned = exec[o].warned
           /\ exec'[o].replayed = exec[o].replayed
BY DEF Go, Turns, Execs

LEMMA Ending ==
    ASSUME exec \in [Operations -> Execs], NEW o \in Operations, NEW outcome \in Outcomes,
           End(o, outcome)
    PROVE  /\ Turns(o, "finish", outcome)
           /\ (exec'[o].warned = TRUE) <=> (exec[o].warned = TRUE /\ outcome \in Succeeded)
<1>1. exec' = [exec EXCEPT ![o] = [Idle EXCEPT !.at = "finish", !.outcome = outcome,
                                   !.warned = exec[o].warned /\ outcome \in Succeeded]]
  BY DEF End
<1>2. exec[o].warned \in BOOLEAN /\ "finish" \in Stages
  BY DEF Execs, Stages
<1>3. [Idle EXCEPT !.at = "finish", !.outcome = outcome,
                   !.warned = exec[o].warned /\ outcome \in Succeeded] \in Execs
  BY <1>2, IdleTyped DEF Execs
<1> QED
  BY <1>1, <1>2, <1>3 DEF Turns, Idle

LEMMA Restarting ==
    ASSUME exec \in [Operations -> Execs], NEW o \in Operations, NEW e \in Execs,
           exec' = [exec EXCEPT ![o] = e]
    PROVE  Turns(o, e.at, e.outcome) /\ exec'[o] = e
BY DEF Turns

(* The shape of a step of the pending operation.                           *)
Effect(o) ==
    /\ board' \in Cards /\ tree' \in Trees /\ session' \in Sessions
    /\ spent' \in Bounds /\ server' = server
    /\ receipts' \in [Operations -> Receipts] /\ journal' \in [Operations -> Entries]
    /\ exec' \in [Operations -> Execs] /\ launches' \in [Operations -> Nat]
    /\ Others(o) /\ Pending(o)'

LEMMA Own ==
    ASSUME Inv, NEW o \in Operations, ~At(o, "idle"), Effect(o), CardFacts', Running(o)'
    PROVE  Inv'
<1>1. server \in Servers
  BY Types DEF Inv
<1>2. TypeOK'
  BY <1>1 DEF Effect, TypeOK, Cards, Receipts, Entries, Execs, Sessions, Trees, Servers, Bounds
<1>3. Pending(o) /\ o \notin server.recovering
  BY NotRecovering
<1> QED
  BY <1>2, <1>3, OwnStep DEF Effect

(* A step that leaves everything else as it is.                            *)
LEMMA OnlyTurns ==
    ASSUME Inv, NEW o \in Operations, NEW stage, NEW outcome, ~At(o, "idle"),
           Turns(o, stage, outcome), spent' \in Bounds,
           UNCHANGED <<board, receipts, journal, session, tree, server, launches>>,
           Running(o)'
    PROVE  Inv'
<1>1. Effect(o)
  BY Types, NotRecovering DEF Inv, Turns, Effect, Others, Pending
<1>2. CardFacts'
  BY DEF Inv, CardFacts
<1> QED
  BY <1>1, <1>2, Own

(* What a stage leaves of its own journal entry, its card and its process. *)
SameEntry(o) ==
    /\ UNCHANGED <<board, receipts, launches>>
    /\ journal'[o].kind = journal[o].kind /\ journal'[o].source = journal[o].source
    /\ \/ journal'[o].deleting = journal[o].deleting
       \/ journal'[o].deleting = FALSE /\ receipts[o]["delete"] # "accepted"

SameSession ==
    /\ session'.process \in {session.process, Nobody}
    /\ session'.live = session.live /\ session'.saved = session.saved

(* An operation that has ended only has its outcome to account for.        *)
LEMMA Finished ==
    ASSUME NEW o \in Operations, Running(o), At(o, "finish")', SameEntry(o), SameSession,
           Real(o, exec[o].outcome, exec[o].warned)',
           receipts[o]["delete"] = "accepted" =>
              /\ exec[o].at \in {"idle", "validate", "delete", "finish"}
              /\ exec'[o].outcome \in Succeeded \cup {"internal_error"}
    PROVE  Running(o)'
<1>1. KindFacts(o)'
  BY DEF SameEntry, Running, KindFacts, At, Kind
<1>2. MoveFacts(o)'
  BY DEF SameEntry, SameSession, Running, MoveFacts, Moved, At, Kind, AfterMoveStages
<1>3. StartFacts(o)'
  BY DEF SameEntry, SameSession, Running, StartFacts, At, Kind, Fresh
<1>4. StageFacts(o)' /\ DeleteFacts(o)'
  BY DEF SameEntry, Running, StageFacts, DeleteFacts, At, Kind
<1> QED
  BY <1>1, <1>2, <1>3, <1>4 DEF Running

LEMMA AtFinish ==
    ASSUME NEW o \in Operations, Running(o), At(o, "finish")',
           UNCHANGED <<board, receipts, journal, session, launches>>,
           Real(o, exec[o].outcome, exec[o].warned)',
           receipts[o]["delete"] = "accepted" =>
              /\ exec[o].at \in {"idle", "validate", "delete", "finish"}
              /\ exec'[o].outcome \in Succeeded \cup {"internal_error"}
    PROVE  Running(o)'
BY Finished DEF SameEntry, SameSession

(* A step between two stages before the card is moved or deleted, or after  *)
(* it is moved: what its own facts must say is left to the action.          *)
LEMMA Arrives ==
    ASSUME NEW o \in Operations, NEW stage, Running(o), At(o, stage)',
           exec[o].at # stage \/ exec'[o].replayed = exec[o].replayed,
           stage \notin {"idle", "finish"},
           SameEntry(o), SameSession, KindFacts(o)', StageFacts(o)',
           receipts[o]["delete"] = "accepted" => stage \in {"validate", "delete"},
           Kind(o) \in Moving /\ stage \in AfterMoveStages => receipts[o]["move"] = "accepted",
           Kind(o) \in Starts /\ Fresh(o)' => Fresh(o),
           Kind(o) \in Starts /\ stage = "compensate" => ~Launched(o)
    PROVE  Running(o)'
<1>1. MoveFacts(o)'
  BY DEF SameEntry, SameSession, Running, MoveFacts, Moved, At, Kind
<1>2. StartFacts(o)'
  BY DEF SameEntry, SameSession, Running, StartFacts, At, Kind, Launched
<1>3. DeleteFacts(o)'
  BY DEF SameEntry, Running, DeleteFacts, At, Kind
<1> QED
  BY <1>1, <1>2, <1>3 DEF Running, At

LEMMA ToStage ==
    ASSUME NEW o \in Operations, NEW stage, Running(o), At(o, stage)',
           exec[o].at # stage \/ exec'[o].replayed = exec[o].replayed,
           stage \notin {"idle", "finish"},
           UNCHANGED <<board, receipts, journal, session, launches>>,
           KindFacts(o)', StageFacts(o)',
           receipts[o]["delete"] = "accepted" => stage \in {"validate", "delete"},
           Kind(o) \in Moving /\ stage \in AfterMoveStages => receipts[o]["move"] = "accepted",
           Kind(o) \in Starts /\ Fresh(o)' => Fresh(o),
           Kind(o) \in Starts /\ stage = "compensate" => ~Launched(o)
    PROVE  Running(o)'
<1>1. SameEntry(o) /\ SameSession
  BY DEF SameEntry, SameSession
<1> QED
  BY <1>1, Arrives

-----------------------------------------------------------------------------
(* Steps that only end the operation or send it to another stage.          *)

Failures == {"stale_task", "invalid_transition", "revision_conflict", "stop_failed",
    "worktree_failed", "compensation_failed", "internal_error"}

LEMMA Outcomes1 == Failures \subseteq Outcomes /\ Succeeded \subseteq Outcomes
                   /\ Failures \cap (Succeeded \cup {"superseded", "session_start_failed"}) = {}
BY DEF Failures, Outcomes, Succeeded

(* An operation that ends without success reports nothing to account for.  *)
LEMMA Fails ==
    ASSUME Inv, NEW o \in Operations, NEW outcome \in Failures, ~At(o, "idle"),
           exec[o].at \notin {"validate", "delete", "finish"}
              \/ receipts[o]["delete"] # "accepted" \/ outcome = "internal_error",
           End(o, outcome), spent' \in Bounds,
           UNCHANGED <<board, receipts, journal, session, tree, server, launches>>
    PROVE  Inv'
<1>1. outcome \in Outcomes /\ exec \in [Operations -> Execs] /\ session \in Sessions
  BY Outcomes1, Types DEF Inv
<1>2. Turns(o, "finish", outcome)
  BY <1>1, Ending
<1>3. At(o, "finish")' /\ exec'[o].outcome = outcome
  BY <1>2 DEF Turns, At
<1>4. Running(o)
  BY NotRecovering
<1>5. Real(o, exec[o].outcome, exec[o].warned)'
  BY <1>3, Outcomes1 DEF Real
<1>6. receipts[o]["delete"] = "accepted" =>
         /\ exec[o].at \in {"idle", "validate", "delete", "finish"}
         /\ exec'[o].outcome \in Succeeded \cup {"internal_error"}
  BY <1>3, <1>4 DEF Running, DeleteFacts, At
<1>7. Running(o)'
  BY <1>1, <1>3, <1>4, <1>5, <1>6, AtFinish
<1> QED
  BY <1>2, <1>7, OnlyTurns

LEMMA ValidateKeeps == ASSUME Inv, NEW o \in Operations, Validate(o) PROVE Inv'
<1>1. Running(o) /\ CardFacts /\ board \in Cards /\ exec \in [Operations -> Execs]
      /\ spent \in Bounds /\ ~At(o, "idle") /\ session \in Sessions
  BY NotRecovering, Types DEF Inv, Validate, At
<1>2. UNCHANGED <<board, receipts, journal, session, tree, server, launches>> /\ spent' \in Bounds
  BY <1>1 DEF Validate
<1>3. KindFacts(o) /\ Kind(o) \in Kinds \ {"create_and_start"} /\ At(o, "validate")
  BY <1>1, Types DEF Validate, Running, KindFacts, Kind, Inv, Entries
<1>a. ASSUME board.column = "none", journal[o].deleting = TRUE PROVE Validated(o) = "delete"
  BY <1>a DEF Validated
<1>b. ASSUME board.column = "none", journal[o].deleting # TRUE PROVE Validated(o) = "stale_task"
  <2>1. journal[o].deleting = FALSE
    BY <1>b, Types DEF Inv, Entries
  <2> QED
    BY <1>b, <2>1 DEF Validated
<1>4. \/ Validated(o) \in {"stale_task", "invalid_transition"}
      \/ Validated(o) \in {"move", "stop", "delete"}
  BY <1>3 DEF Validated, Kinds
<1>5. CASE Validated(o) \in {"stale_task", "invalid_transition"}
  <2>1. Validated(o) \in Failures /\ Validated(o) \in Outcomes
    BY <1>5, Outcomes1 DEF Failures
  <2>2. End(o, Validated(o))
    BY <2>1 DEF Validate
  <2>3. receipts[o]["delete"] # "accepted"
    <3> SUFFICES ASSUME receipts[o]["delete"] = "accepted" PROVE FALSE
      OBVIOUS
    <3>1. board.column = "none" /\ journal[o].deleting = TRUE
      BY <1>1 DEF Running, DeleteFacts
    <3> QED
      BY <3>1, <1>5, <1>a
  <2> QED
    BY <1>1, <1>2, <2>1, <2>2, <2>3, Fails
<1>6. CASE Validated(o) \in {"move", "stop", "delete"}
  <2> PICK stage \in {"move", "stop", "delete"} : stage = Validated(o)
    BY <1>6
  <2>1. stage \notin Outcomes /\ stage \in Stages
    BY DEF Outcomes, Succeeded, Stages
  <2>2. Turns(o, stage, exec[o].outcome)
    BY <1>1, <2>1, Going DEF Validate
  <2>3. At(o, stage)'
    BY <2>2 DEF Turns, At
  <2>4. /\ stage = "move" => Kind(o) \in Moving
        /\ stage = "stop" =>
              /\ board.column # "none" /\ Kind(o) \notin Starts
              /\ Kind(o) = "restart" => board.column # "trash" /\ board.unstarted # TRUE
              /\ Kind(o) = "delete" => board.column = "trash" /\ board.pinned # TRUE
        /\ stage = "delete" => board.column = "none" /\ journal[o].deleting = TRUE
    <3>1. CASE board.column = "none"
      BY <3>1, <1>6, <1>a, <1>b
    <3>2. CASE board.column # "none"
      <4>1. CASE Kind(o) \in {"start", "trash", "restore"}
        BY <3>2, <4>1 DEF Validated, Moving, Starts
      <4>2. CASE Kind(o) \in {"restart", "stop"}
        BY <3>2, <4>2, <1>6 DEF Validated, Starts
      <4>3. CASE Kind(o) = "delete"
        BY <3>2, <4>3, <1>6 DEF Validated, Starts
      <4> QED
        BY <4>1, <4>2, <4>3, <1>3 DEF Kinds
    <3> QED
      BY <3>1, <3>2
  <2>5. KindFacts(o)'
    BY <1>2, <1>3, <1>6, <2>3, <2>4 DEF KindFacts, At, Kind
  <2>6. StageFacts(o)'
    <3>1. board.column \in Columns /\ board.unstarted \in BOOLEAN /\ board.pinned \in BOOLEAN
      BY <1>1 DEF Cards
    <3> QED
      BY <1>1, <1>2, <1>6, <2>3, <2>4, <3>1 DEF StageFacts, CardFacts, At, Kind, Columns, Work
  <2>7. receipts[o]["delete"] = "accepted" => stage \in {"validate", "delete"}
    <3>1. receipts[o]["delete"] = "accepted" => board.column = "none" /\ journal[o].deleting = TRUE
      BY <1>1 DEF Running, DeleteFacts
    <3> QED
      BY <3>1, <1>a
  <2>8. Kind(o) \in Moving /\ stage \in AfterMoveStages => receipts[o]["move"] = "accepted"
    <3>1. stage = "stop" => Kind(o) \notin {"trash", "restore"}
      <4>1. ASSUME Kind(o) \in {"trash", "restore"}, board.column # "none" PROVE Validated(o) = "move"
        BY <4>1 DEF Validated
      <4> QED
        BY <4>1, <1>a, <1>b
    <3> QED
      BY <1>6, <1>3, <2>4, <3>1 DEF Moving, AfterMoveStages
  <2>9. ~Fresh(o)'
    BY <1>6, <2>3 DEF Fresh, At
  <2>10. Running(o)'
    BY <1>1, <1>2, <1>3, <1>6, <2>3, <2>5, <2>6, <2>7, <2>8, <2>9, ToStage DEF At
  <2> QED
    BY <1>1, <1>2, <2>2, <2>10, OnlyTurns
<1> QED
  BY <1>4, <1>5, <1>6
(* An operation that ends with an outcome that is so.                      *)
LEMMA Ends ==
    ASSUME Inv, NEW o \in Operations, NEW outcome \in Outcomes, ~At(o, "idle"),
           exec[o].at \notin {"validate", "delete", "finish"},
           End(o, outcome), spent' \in Bounds, Real(o, outcome, FALSE),
           UNCHANGED <<board, receipts, journal, session, tree, server, launches>>
    PROVE  Inv'
<1>1. exec \in [Operations -> Execs] /\ session \in Sessions /\ Running(o)
  BY Types, NotRecovering DEF Inv
<1>2. Turns(o, "finish", outcome)
  BY <1>1, Ending
<1>3. At(o, "finish")' /\ exec'[o].outcome = outcome
  BY <1>2 DEF Turns, At
<1>4. Real(o, exec[o].outcome, exec[o].warned)'
  BY <1>3 DEF Real, Kind
<1>5. receipts[o]["delete"] # "accepted"
  BY <1>1 DEF Running, DeleteFacts, At
<1>6. Running(o)'
  BY <1>1, <1>3, <1>4, <1>5, AtFinish
<1> QED
  BY <1>2, <1>6, OnlyTurns

(* The next stage, when the operation only goes on.                        *)
LEMMA GoesOn ==
    ASSUME Inv, NEW o \in Operations, NEW stage, NEW outcome, ~At(o, "idle"),
           Turns(o, stage, outcome), spent' \in Bounds,
           UNCHANGED <<board, receipts, journal, session, tree, server, launches>>,
           exec[o].at # stage \/ exec'[o].replayed = exec[o].replayed,
           stage \notin {"idle", "finish", "validate"},
           exec[o].at \notin {"idle", "validate", "delete", "finish"} \/ stage = "delete",
           KindFacts(o)', StageFacts(o)',
           Kind(o) \in Moving /\ stage \in AfterMoveStages => receipts[o]["move"] = "accepted",
           Kind(o) \in Starts /\ Fresh(o)' => Fresh(o),
           Kind(o) \in Starts /\ stage = "compensate" => ~Launched(o)
    PROVE  Inv'
<1>1. Running(o)
  BY NotRecovering
<1>2. At(o, stage)'
  BY DEF Turns, At
<1>3. receipts[o]["delete"] = "accepted" => stage \in {"validate", "delete"}
  BY <1>1 DEF Running, DeleteFacts, At
<1>4. Running(o)'
  BY <1>1, <1>2, <1>3, ToStage
<1> QED
  BY <1>4, OnlyTurns

LEMMA ConflictKeeps ==
    ASSUME Inv, NEW o \in Operations, NEW step \in {"create", "move", "delete"}, Conflict(o, step)
    PROVE  Inv'
<1>1. /\ Running(o) /\ exec \in [Operations -> Execs] /\ spent \in Bounds
      /\ ~At(o, "idle") /\ At(o, step) /\ board \in Cards /\ step \in Steps
  BY NotRecovering, Types DEF Inv, Conflict, At, Steps
<1>2. UNCHANGED <<board, receipts, journal, session, tree, server, launches>> /\ spent' \in Bounds
  BY <1>1 DEF Conflict
<1>3. receipts[o]["delete"] # "accepted"
  BY <1>1 DEF Conflict, Conflicts, Replayed, Running, DeleteFacts, At
<1>4. CASE End(o, "revision_conflict")
  <2>1. "revision_conflict" \in Failures
    BY DEF Failures
  <2> QED
    BY <1>1, <1>2, <1>3, <1>4, <2>1, Fails
<1>5. CASE /\ exec[o].rebases < MaxRebases
           /\ exec' = [exec EXCEPT ![o].base = board.revision, ![o].rebases = @ + 1]
  <2>1. exec[o].rebases \in 0 .. MaxRebases /\ board.revision \in Nat
    BY <1>1 DEF Execs, Cards
  <2>2. exec[o].rebases + 1 \in 0 .. MaxRebases
    BY <2>1, <1>5, Numbers
  <2>3. Turns(o, step, exec[o].outcome) /\ exec'[o].replayed = exec[o].replayed
    BY <1>1, <1>5, <2>1, <2>2 DEF Turns, Execs, At
  <2>4. exec'[o].at = exec[o].at
    BY <1>1, <2>3 DEF Turns, At
  <2>5. KindFacts(o)' /\ StageFacts(o)'
    BY <1>1, <1>2, <2>4 DEF Running, KindFacts, StageFacts, At, Kind
  <2>6. At(o, step)'
    BY <1>1, <2>4 DEF At
  <2>7. Running(o)'
    <3>1. step \notin AfterMoveStages /\ step \notin {"idle", "finish", "compensate"}
      BY DEF AfterMoveStages
    <3>2. ~Fresh(o)'
      BY <2>6 DEF Fresh, At
    <3> QED
      BY <1>1, <1>2, <1>3, <2>3, <2>5, <2>6, <3>1, <3>2, ToStage
  <2> QED
    BY <1>1, <1>2, <2>3, <2>7, OnlyTurns
<1> QED
  BY <1>4, <1>5 DEF Conflict, MayRebase

(* What an operation that started a session reports is so.                 *)
LEMMA StartedReal ==
    ASSUME Inv, NEW o \in Operations, NEW outcome \in Succeeded, NEW warned,
           Kind(o) \in Starts \cup {"restore", "restart"},
           exec[o].at \in {"accepted", "consume", "launch", "failed"},
           Kind(o) = "restart" => exec[o].at \in {"launch", "failed"}
    PROVE  Real(o, outcome, warned)
<1>1. Running(o)
  BY NotRecovering DEF At
<1>2. Kind(o) # "restart" => Kind(o) \in Moving
  BY DEF Moving
<1>3. Kind(o) # "restart" => receipts[o]["move"] = "accepted"
  BY <1>1, <1>2 DEF Running, MoveFacts, AfterMoveStages
<1>4. receipts[o]["compensate"] = "none" /\ Kind(o) \in Starts \cup {"restart"} =>
         board.column \in Work /\ board.unstarted = FALSE
  BY <1>1, <1>3 DEF Running, MoveFacts, Moved, StageFacts
<1>5. receipts[o]["compensate"] = "none" /\ Kind(o) = "restore" => board.column \in Work
  BY <1>1, <1>3 DEF Running, MoveFacts, Moved
<1>6. outcome \notin {"superseded", "session_start_failed"}
  BY DEF Succeeded
<1> QED
  BY <1>4, <1>5, <1>6 DEF Real, Starts

LEMMA SucceedTurns ==
    ASSUME exec \in [Operations -> Execs], NEW o \in Operations,
           NEW outcome \in {"completed", "already_applied"}, Succeed(o, outcome)
    PROVE  /\ Kind(o) = "restore" => Turns(o, "consume", outcome)
           /\ Kind(o) # "restore" => \E oc \in Succeeded : End(o, oc)
<1>1. ASSUME Kind(o) = "restore" PROVE Turns(o, "consume", outcome)
  <2>1. exec' = [exec EXCEPT ![o].at = "consume", ![o].outcome = outcome]
    BY <1>1 DEF Succeed
  <2>2. "consume" \in Stages /\ outcome \in Outcomes
    BY DEF Stages, Outcomes, Succeeded
  <2> QED
    BY <2>1, <2>2 DEF Turns, Execs
<1>2. ASSUME Kind(o) # "restore" PROVE \E oc \in Succeeded : End(o, oc)
  <2>1. {"completed", "already_applied", "completed_with_warning"} \subseteq Succeeded
    BY DEF Succeeded
  <2>2. CASE exec[o].warned
    BY <1>2, <2>1, <2>2 DEF Succeed
  <2>3. CASE ~exec[o].warned
    BY <1>2, <2>1, <2>3 DEF Succeed
  <2> QED
    BY <2>2, <2>3
<1> QED
  BY <1>1, <1>2

LEMMA SucceedKeeps ==
    ASSUME Inv, NEW o \in Operations, NEW outcome \in {"completed", "already_applied"},
           Kind(o) \in Starts \cup {"restore", "restart"},
           exec[o].at \in {"accepted", "failed"}, Kind(o) = "restart" => exec[o].at = "failed",
           Succeed(o, outcome), spent' \in Bounds,
           UNCHANGED <<board, receipts, journal, session, tree, server, launches>>
    PROVE  Inv'
<1>1. Running(o) /\ exec \in [Operations -> Execs] /\ ~At(o, "idle")
  BY NotRecovering, Types DEF Inv, At
<1>2. CASE Kind(o) = "restore"
  <2>1. Turns(o, "consume", outcome)
    BY <1>1, <1>2, SucceedTurns
  <2>2. KindFacts(o)' /\ StageFacts(o)' /\ Kind(o) \notin Starts
    BY <1>1, <1>2, <2>1 DEF Running, KindFacts, StageFacts, Turns, At, Kind, Starts
  <2>3. receipts[o]["move"] = "accepted"
    BY <1>1, <1>2 DEF Running, MoveFacts, AfterMoveStages, Moving
  <2> QED
    BY <1>1, <2>1, <2>2, <2>3, GoesOn
<1>3. CASE Kind(o) # "restore"
  <2>1. PICK oc \in Succeeded : End(o, oc)
    BY <1>1, <1>3, SucceedTurns
  <2>2. Real(o, oc, FALSE) /\ oc \in Outcomes
    BY StartedReal, Outcomes1
  <2> QED
    BY <1>1, <2>1, <2>2, Ends
<1> QED
  BY <1>2, <1>3
(* A stage reached without what the operation knew before (Idle EXCEPT).   *)
LEMMA Anew ==
    ASSUME exec \in [Operations -> Execs], NEW o \in Operations, NEW stage \in Stages,
           NEW outcome \in Outcomes,
           exec' = [exec EXCEPT ![o] = [Idle EXCEPT !.at = stage, !.outcome = outcome]]
    PROVE  Turns(o, stage, outcome)
BY IdleTyped DEF Turns, Execs

LEMMA AnewWithout ==
    ASSUME exec \in [Operations -> Execs], NEW o \in Operations, NEW stage \in Stages,
           exec' = [exec EXCEPT ![o] = [Idle EXCEPT !.at = stage]]
    PROVE  Turns(o, stage, "")
BY IdleTyped DEF Turns, Execs, Idle

LEMMA AfterMoveKeeps == ASSUME Inv, NEW o \in Operations, AfterMove(o) PROVE Inv'
<1>1. /\ Running(o) /\ exec \in [Operations -> Execs] /\ spent \in Bounds
      /\ ~At(o, "idle") /\ exec[o].at = "accepted"
  BY NotRecovering, Types DEF Inv, AfterMove, At
<1>2. UNCHANGED <<board, receipts, journal, session, tree, server, launches>> /\ spent' \in Bounds
  BY <1>1 DEF AfterMove
<1>3. Kind(o) \in Moving /\ receipts[o]["move"] = "accepted"
  BY <1>1 DEF Running, KindFacts, MoveFacts, AfterMoveStages
<1>4. ASSUME NEW stage \in {"stop", "look", "ensure"}, NEW outcome, Turns(o, stage, outcome),
             stage = "stop" => Kind(o) \in {"trash", "restore"},
             stage = "ensure" => Kind(o) \in Starts /\ exec[o].replayed = FALSE
      PROVE  Inv'
  <2>1. exec'[o].at = stage
    BY <1>4 DEF Turns
  <2>2. KindFacts(o)'
    BY <1>1, <1>2, <1>3, <1>4, <2>1 DEF Running, KindFacts, At, Kind, Starts
  <2>3. StageFacts(o)'
    BY <1>1, <1>2, <1>3, <1>4, <2>1 DEF Running, StageFacts, At, Kind, Starts, Moving
  <2>4. Kind(o) \in Starts /\ Fresh(o)' => Fresh(o)
    BY <1>1, <1>4, <2>1 DEF Fresh, At
  <2> QED
    BY <1>1, <1>2, <1>3, <1>4, <2>2, <2>3, <2>4, GoesOn
<1>5. CASE Kind(o) = "trash"
  <2>0. exec' = [exec EXCEPT ![o] = [Idle EXCEPT !.at = "stop"]]
    BY <1>5 DEF AfterMove, Starts
  <2>1. Turns(o, "stop", "")
    BY <1>1, <2>0, AnewWithout DEF Stages
  <2>2. "stop" \in {"stop", "look", "ensure"} /\ "stop" # "ensure" /\ Kind(o) \in {"trash", "restore"}
    BY <1>5
  <2> QED
    BY <1>4, <2>1, <2>2
<1>6. CASE Kind(o) # "trash" /\ Launched(o)
  <2>1. Succeed(o, "already_applied")
    BY <1>6 DEF AfterMove
  <2>2. Kind(o) \in Starts \cup {"restore", "restart"} /\ Kind(o) # "restart"
    BY <1>3, <1>6 DEF Moving, Starts
  <2> QED
    BY <1>1, <1>2, <2>1, <2>2, SucceedKeeps
<1>7. CASE Kind(o) = "restore" /\ ~Launched(o)
  <2>0. exec' = [exec EXCEPT ![o] = [Idle EXCEPT !.at = "stop"]]
    BY <1>7 DEF AfterMove, Starts
  <2>1. Turns(o, "stop", "")
    BY <1>1, <2>0, AnewWithout DEF Stages
  <2> QED
    BY <1>4, <1>7, <2>1
<1>8. CASE Kind(o) \in Starts /\ ~Launched(o)
  <2>1. exec' = [exec EXCEPT ![o] = IF Interrupted(o)
                  THEN [Idle EXCEPT !.at = "look", !.outcome = "superseded"]
                  ELSE [Idle EXCEPT !.at = "ensure"]]
    BY <1>8 DEF AfterMove, Starts
  <2>2. CASE Interrupted(o)
    <3>1. Turns(o, "look", "superseded")
      BY <1>1, <2>1, <2>2, Anew DEF Stages, Outcomes
    <3> QED
      BY <1>4, <3>1
  <2>3. CASE ~Interrupted(o)
    <3>1. exec' = [exec EXCEPT ![o] = [Idle EXCEPT !.at = "ensure"]]
      BY <2>1, <2>3
    <3>2. Turns(o, "ensure", "")
      BY <1>1, <3>1, AnewWithout DEF Stages
    <3>3. exec[o].replayed \in BOOLEAN /\ ~exec[o].replayed
      BY <1>1, <2>3 DEF Interrupted, Execs
    <3>4. exec[o].replayed = FALSE
      BY <3>3
    <3>5. "ensure" \in {"stop", "look", "ensure"} /\ "ensure" # "stop"
      OBVIOUS
    <3> QED
      BY <1>4, <1>8, <3>2, <3>4, <3>5
  <2> QED
    BY <2>2, <2>3
<1> QED
  BY <1>3, <1>5, <1>6, <1>7, <1>8 DEF Moving, Starts

(* The launch is refused or fails before a process runs.                   *)
LEMMA RefuseKeeps ==
    ASSUME Inv, NEW o \in Operations, Refuse(o) \/ LaunchFails(o)
    PROVE  Inv'
<1>1. /\ Running(o) /\ exec \in [Operations -> Execs] /\ spent \in Bounds
      /\ ~At(o, "idle") /\ exec[o].at = "launch"
  BY NotRecovering, Types DEF Inv, Refuse, LaunchFails, At
<1>2. UNCHANGED <<board, receipts, journal, session, tree, server, launches>> /\ spent' \in Bounds
  BY <1>1, FaultTyped DEF Refuse, LaunchFails
<1>3. Turns(o, "failed", exec[o].outcome)
  BY <1>1, Going DEF Refuse, LaunchFails, Stages
<1>4. KindFacts(o)' /\ StageFacts(o)' /\ ~Fresh(o)'
  BY <1>1, <1>2, <1>3 DEF Running, KindFacts, StageFacts, Turns, At, Kind, Fresh
<1>5. Kind(o) \in Moving => receipts[o]["move"] = "accepted"
  BY <1>1 DEF Running, MoveFacts, AfterMoveStages
<1> QED
  BY <1>1, <1>2, <1>3, <1>4, <1>5, GoesOn

LEMMA AfterFailureKeeps == ASSUME Inv, NEW o \in Operations, AfterFailure(o) PROVE Inv'
<1>1. /\ Running(o) /\ exec \in [Operations -> Execs] /\ spent \in Bounds
      /\ ~At(o, "idle") /\ exec[o].at = "failed"
  BY NotRecovering, Types DEF Inv, AfterFailure, At
<1>2. UNCHANGED <<board, receipts, journal, session, tree, server, launches>> /\ spent' \in Bounds
  BY <1>1 DEF AfterFailure
<1>3. Kind(o) \in Starts \cup {"restore", "restart"}
  BY <1>1 DEF Running, KindFacts
<1>4. CASE Launched(o)
  BY <1>1, <1>2, <1>3, <1>4, SucceedKeeps DEF AfterFailure
<1>5. CASE ~Launched(o) /\ Kind(o) = "restart"
  <2>1. End(o, "session_start_failed") /\ "session_start_failed" \in Outcomes
    BY <1>5 DEF AfterFailure, Outcomes
  <2>2. Real(o, "session_start_failed", FALSE)
    BY <1>5 DEF Real, Starts, Succeeded
  <2> QED
    BY <1>1, <1>2, <2>1, <2>2, Ends
<1>6. CASE ~Launched(o) /\ Kind(o) # "restart"
  <2>1. Turns(o, "look", "session_start_failed")
    BY <1>1, <1>6, Anew DEF AfterFailure, Stages, Outcomes
  <2>2. Kind(o) \in Moving /\ receipts[o]["move"] = "accepted"
    BY <1>1, <1>3, <1>6 DEF Moving, Running, MoveFacts, AfterMoveStages
  <2>3. KindFacts(o)' /\ StageFacts(o)' /\ ~Fresh(o)'
    BY <1>1, <1>2, <2>1, <2>2 DEF Running, KindFacts, StageFacts, Turns, At, Kind, Fresh
  <2> QED
    BY <1>1, <1>2, <2>1, <2>2, <2>3, GoesOn
<1> QED
  BY <1>4, <1>5, <1>6

LEMMA UncompensatedFails ==
    ASSUME NEW o \in Operations, Uncompensated(o)
    PROVE  \E outcome \in Failures : End(o, outcome)
BY DEF Uncompensated, Failures

LEMMA LookKeeps == ASSUME Inv, NEW o \in Operations, Look(o) PROVE Inv'
<1>1. /\ Running(o) /\ exec \in [Operations -> Execs] /\ spent \in Bounds
      /\ ~At(o, "idle") /\ exec[o].at = "look" /\ board \in Cards
  BY NotRecovering, Types DEF Inv, Look, At
<1>2. UNCHANGED <<board, receipts, journal, session, tree, server, launches>> /\ spent' \in Bounds
  BY <1>1 DEF Look
<1>3. CASE MayCompensate(o)
  <2>1. exec' = [exec EXCEPT ![o].at = "compensate", ![o].base = board.revision]
    BY <1>3 DEF Look
  <2>2. board.revision \in Nat /\ "compensate" \in Stages
    BY <1>1 DEF Cards, Stages
  <2>3. Turns(o, "compensate", exec[o].outcome)
    BY <1>1, <2>1, <2>2 DEF Turns, Execs
  <2>4. KindFacts(o)' /\ StageFacts(o)' /\ ~Fresh(o)'
    BY <1>1, <1>2, <2>3 DEF Running, KindFacts, StageFacts, Turns, At, Kind, Fresh
  <2>5. Kind(o) \in Moving => receipts[o]["move"] = "accepted"
    BY <1>1 DEF Running, MoveFacts, AfterMoveStages
  <2>6. ~Launched(o)
    BY <1>3 DEF MayCompensate
  <2> QED
    BY <1>1, <1>2, <2>3, <2>4, <2>5, <2>6, GoesOn
<1>4. CASE ~MayCompensate(o)
  <2>1. PICK outcome \in Failures : End(o, outcome)
    BY <1>4, UncompensatedFails DEF Look
  <2> QED
    BY <1>1, <1>2, <2>1, Fails
<1> QED
  BY <1>3, <1>4

LEMMA PhaseWriteFailsKeeps == ASSUME Inv, NEW o \in Operations, PhaseWriteFails(o) PROVE Inv'
<1>1. ~At(o, "idle") /\ spent \in Bounds /\ "internal_error" \in Failures
  BY Types DEF Inv, PhaseWriteFails, At, Failures
<1>2. UNCHANGED <<board, receipts, journal, session, tree, server, launches>>
      /\ spent' \in Bounds /\ End(o, "internal_error")
  BY <1>1, FaultTyped DEF PhaseWriteFails
<1> QED
  BY <1>1, <1>2, Fails

-----------------------------------------------------------------------------
(* Stages that act on the worktree or on the process                       *)

(* A step on the worktree: a card that is gone keeps no worktree.          *)
LEMMA OnTree ==
    ASSUME Inv, NEW o \in Operations, NEW stage, NEW outcome, ~At(o, "idle"),
           Turns(o, stage, outcome), spent' \in Bounds, tree' \in Trees,
           board.column # "none" \/ tree'.head = "absent",
           UNCHANGED <<board, receipts, journal, session, server, launches>>,
           Running(o)'
    PROVE  Inv'
<1>1. Effect(o)
  BY Types, NotRecovering DEF Inv, Turns, Effect, Others, Pending
<1>2. CardFacts'
  BY DEF Inv, CardFacts
<1> QED
  BY <1>1, <1>2, Own

(* A step on the process, and on whether the card may be gone already.     *)
LEMMA OnProcess ==
    ASSUME Inv, NEW o \in Operations, NEW stage, NEW outcome, ~At(o, "idle"),
           Turns(o, stage, outcome), spent' \in Bounds,
           NEW survivor \in {session.process, Nobody},
           session' = [session EXCEPT !.process = survivor],
           journal' = journal \/ journal' = [journal EXCEPT ![o].deleting = FALSE],
           UNCHANGED <<board, receipts, tree, server, launches>>,
           SameSession => Running(o)'
    PROVE  Inv'
<1>1. session \in Sessions /\ journal \in [Operations -> Entries] /\ Pending(o)
  BY Types, NotRecovering DEF Inv
<1>2. SameSession /\ session' \in Sessions
  BY <1>1 DEF SameSession, Sessions
<1>3. /\ journal' \in [Operations -> Entries] /\ journal'[o].status = journal[o].status
      /\ \A p \in Operations \ {o} : journal'[p] = journal[p]
  <2>1. CASE journal' = journal
    BY <1>1, <2>1
  <2>2. CASE journal' = [journal EXCEPT ![o].deleting = FALSE]
    <3>1. PICK entry : entry = [journal[o] EXCEPT !.deleting = FALSE]
      OBVIOUS
    <3>2. entry \in Entries /\ entry.status = journal[o].status
      BY <1>1, <3>1 DEF Entries
    <3>3. journal' = [journal EXCEPT ![o] = entry]
      BY <2>2, <3>1
    <3> QED
      BY <1>1, <3>2, <3>3
  <2> QED
    BY <2>1, <2>2
<1>4. Effect(o)
  BY <1>1, <1>2, <1>3, Types DEF Inv, Turns, Effect, Others, Pending
<1>5. CardFacts'
  BY <1>2 DEF Inv, CardFacts, SameSession
<1> QED
  BY <1>2, <1>4, <1>5, Own
LEMMA GoingWarned ==
    ASSUME exec \in [Operations -> Execs], NEW o \in Operations, NEW stage \in Stages,
           GoWarned(o, stage)
    PROVE  Turns(o, stage, exec[o].outcome) /\ exec'[o].warned = TRUE
<1>1. exec[o] \in Execs
  OBVIOUS
<1>2. [exec[o] EXCEPT !.at = stage, !.warned = TRUE] \in Execs
  BY <1>1 DEF Execs
<1>3. exec'[o] = [exec[o] EXCEPT !.at = stage, !.warned = TRUE]
      /\ exec' = [exec EXCEPT ![o] = [exec[o] EXCEPT !.at = stage, !.warned = TRUE]]
  BY DEF GoWarned
<1>4. exec'[o].at = stage /\ exec'[o].outcome = exec[o].outcome /\ exec'[o].warned = TRUE
  BY <1>1, <1>3 DEF Execs
<1> QED
  BY <1>2, <1>3, <1>4 DEF Turns

LEMMA StopKeeps == ASSUME Inv, NEW o \in Operations, Stop(o) PROVE Inv'
<1>1. /\ Running(o) /\ exec \in [Operations -> Execs] /\ spent \in Bounds /\ journal \in [Operations -> Entries]
      /\ ~At(o, "idle") /\ exec[o].at = "stop" /\ KindFacts(o) /\ StageFacts(o)
  BY NotRecovering, Types DEF Inv, Stop, At, Running
<1>2. /\ UNCHANGED <<board, receipts, tree, server, launches>> /\ spent' \in Bounds
      /\ session' = [session EXCEPT !.process = Nobody]
      /\ journal' = [journal EXCEPT ![o].deleting = FALSE]
  BY <1>1 DEF Stop
<1>3. receipts[o]["delete"] # "accepted"
  BY <1>1 DEF Running, DeleteFacts
<1>4. /\ SameEntry(o) /\ Kind(o)' = Kind(o) /\ session'.process = Nobody
      /\ journal'[o].source = journal[o].source /\ journal'[o].deleting = FALSE
  <2>1. session \in Sessions
    BY Types DEF Inv
  <2> QED
    BY <1>1, <1>2, <1>3, <2>1 DEF SameEntry, Kind, Entries, Sessions
<1>5. CASE Kind(o) = "stop"
  <2>1. End(o, "completed") /\ "completed" \in Outcomes
    BY <1>5 DEF Stop, Outcomes, Succeeded
  <2>2. Turns(o, "finish", "completed")
    BY <1>1, <2>1, Ending
  <2>3. Real(o, exec[o].outcome, exec[o].warned)'
    BY <1>4, <1>5, <2>2 DEF Real, Turns, Starts
  <2>4. SameSession => Running(o)'
    BY <1>1, <1>3, <1>4, <2>2, <2>3, Finished DEF Turns, At
  <2> QED
    BY <1>1, <1>2, <2>2, <2>4, OnProcess
<1>6. CASE Kind(o) # "stop"
  <2>1. Kind(o) \in {"trash", "restore", "restart", "delete"}
    BY <1>1, <1>6, Types DEF Inv, Entries, KindFacts, At, Kinds, Starts, Kind
  <2> PICK stage \in {"save_branch", "reattach", "ensure", "purge"} : stage = AfterStop(o)
    BY <2>1 DEF AfterStop
  <2>2. /\ stage = "save_branch" => Kind(o) = "trash"
        /\ stage = "reattach" => Kind(o) = "restore"
        /\ stage = "ensure" => Kind(o) = "restart"
        /\ stage = "purge" => Kind(o) = "delete"
    BY <2>1 DEF AfterStop
  <2>3. Turns(o, stage, exec[o].outcome)
    <3>1. Go(o, stage) /\ stage \in Stages
      BY <1>6 DEF Stop, Stages
    <3> QED
      BY <1>1, <3>1, Going
  <2>4. exec'[o].at = stage
    BY <2>3 DEF Turns
  <2>5. KindFacts(o)'
    BY <1>1, <1>4, <2>2, <2>4 DEF KindFacts, At, Kind
  <2>6. StageFacts(o)'
    BY <1>1, <1>2, <1>4, <2>2, <2>4 DEF StageFacts, At, Kind
  <2>7. Kind(o) \in Moving => receipts[o]["move"] = "accepted"
    BY <1>1 DEF Running, MoveFacts, AfterMoveStages
  <2>8. Kind(o) \notin Starts /\ stage \notin {"idle", "finish", "validate", "delete", "stop"}
    BY <2>1 DEF Starts
  <2>9. SameSession => Running(o)'
    <3>1. At(o, stage)' /\ exec[o].at # stage
      BY <1>1, <2>4, <2>8 DEF At
    <3> QED
      BY <1>1, <1>3, <1>4, <2>5, <2>6, <2>7, <2>8, <3>1, Arrives
  <2> QED
    BY <1>1, <1>2, <2>3, <2>9, OnProcess
<1> QED
  BY <1>5, <1>6

LEMMA StopFailsKeeps == ASSUME Inv, NEW o \in Operations, StopFails(o) PROVE Inv'
<1>1. /\ Running(o) /\ exec \in [Operations -> Execs] /\ spent \in Bounds /\ journal \in [Operations -> Entries]
      /\ ~At(o, "idle") /\ exec[o].at = "stop" /\ KindFacts(o) /\ StageFacts(o)
  BY NotRecovering, Types DEF Inv, StopFails, At, Running
<1>2. /\ UNCHANGED <<board, receipts, tree, server, launches>> /\ spent' \in Bounds
      /\ journal' = [journal EXCEPT ![o].deleting = FALSE]
  BY <1>1, FaultTyped DEF StopFails
<1> PICK survivor \in {session.process, Nobody} : session' = [session EXCEPT !.process = survivor]
  BY DEF StopFails
<1> PICK stage \in {"look", "finish"} :
        stage = IF Kind(o) \in {"trash", "restore"} THEN "look" ELSE "finish"
  OBVIOUS
<1>3. receipts[o]["delete"] # "accepted"
  BY <1>1 DEF Running, DeleteFacts
<1>4. /\ SameEntry(o) /\ Kind(o)' = Kind(o)
      /\ journal'[o].source = journal[o].source /\ journal'[o].deleting = FALSE
  BY <1>1, <1>2, <1>3 DEF SameEntry, Kind, Entries
<1>5. Turns(o, stage, "stop_failed")
  <2>1. exec' = [exec EXCEPT ![o].outcome = "stop_failed", ![o].at = stage]
    BY DEF StopFails
  <2>2. stage \in Stages /\ "stop_failed" \in Outcomes
    BY DEF Stages, Outcomes
  <2> QED
    BY <1>1, <2>1, <2>2 DEF Turns, Execs
<1>6. exec'[o].at = stage /\ exec'[o].outcome = "stop_failed"
  BY <1>5 DEF Turns
<1>7. SameSession => Running(o)'
  <2>1. CASE stage = "finish"
    <3>1. Real(o, exec[o].outcome, exec[o].warned)'
      BY <1>6 DEF Real, Succeeded
    <3> QED
      BY <1>1, <1>3, <1>4, <1>6, <2>1, <3>1, Finished DEF At
  <2>2. CASE stage = "look"
    <3>1. Kind(o) \in {"trash", "restore"}
      BY <2>2
    <3>2. KindFacts(o)' /\ StageFacts(o)'
      BY <1>1, <1>4, <1>6, <2>2, <3>1 DEF KindFacts, StageFacts, At, Kind, Moving
    <3>3. receipts[o]["move"] = "accepted" /\ Kind(o) \notin Starts
      BY <1>1, <3>1 DEF Running, MoveFacts, AfterMoveStages, Moving, Starts
    <3> QED
      BY <1>1, <1>3, <1>4, <1>6, <2>2, <3>2, <3>3, Arrives DEF At
  <2> QED
    BY <2>1, <2>2
<1> QED
  BY <1>1, <1>2, <1>5, <1>7, OnProcess

LEMMA StopAgainKeeps == ASSUME Inv, NEW o \in Operations, StopAgain(o) PROVE Inv'
<1>1. /\ Running(o) /\ exec \in [Operations -> Execs] /\ spent \in Bounds
      /\ ~At(o, "idle") /\ exec[o].at = "stop_again" /\ KindFacts(o) /\ StageFacts(o)
  BY NotRecovering, Types DEF Inv, StopAgain, At, Running
<1>2. UNCHANGED <<board, receipts, journal, tree, server, launches>> /\ spent' \in Bounds
  BY <1>1, FaultTyped DEF StopAgain
<1>3. /\ receipts[o]["delete"] # "accepted" /\ Kind(o) = "restore" /\ Kind(o) \notin Starts
      /\ receipts[o]["move"] = "accepted" /\ SameEntry(o)
  <2>1. Kind(o) = "restore"
    BY <1>1 DEF KindFacts
  <2> QED
    BY <1>1, <1>2, <2>1 DEF Running, DeleteFacts, MoveFacts, AfterMoveStages, Moving, Starts, SameEntry
<1>4. CASE session' = [session EXCEPT !.process = Nobody] /\ Go(o, "save_branch")
  <2>1. Turns(o, "save_branch", exec[o].outcome)
    BY <1>1, <1>4, Going DEF Stages
  <2>2. exec'[o].at = "save_branch"
    BY <2>1 DEF Turns
  <2>3. KindFacts(o)' /\ StageFacts(o)'
    BY <1>1, <1>2, <1>3, <2>2 DEF KindFacts, StageFacts, At, Kind
  <2>4. SameSession => Running(o)'
    BY <1>1, <1>3, <2>2, <2>3, Arrives DEF At
  <2> QED
    BY <1>1, <1>2, <1>4, <2>1, <2>4, OnProcess
<1>5. CASE GoWarned(o, "finish") /\ UNCHANGED session
  <2>1. Turns(o, "finish", exec[o].outcome)
    BY <1>1, <1>5, GoingWarned DEF Stages
  <2>2. Real(o, exec[o].outcome, exec[o].warned)'
    <3>1. receipts[o]["compensate"] = "none" => board.column \in Work
      BY <1>1, <1>3 DEF Running, MoveFacts, Moved
    <3> QED
      BY <1>2, <1>3, <3>1 DEF Real, Kind, Starts
  <2>3. Running(o)'
    BY <1>1, <1>2, <1>3, <1>5, <2>1, <2>2, AtFinish DEF Turns, At
  <2> QED
    BY <1>1, <1>2, <1>5, <2>1, <2>3, OnlyTurns
<1> QED
  BY <1>4, <1>5 DEF StopAgain
(* What a later stage of an operation with a move has left to show.        *)
LEMMA TreeFinish ==
    ASSUME Inv, NEW o \in Operations, NEW outcome, ~At(o, "idle"),
           exec[o].at \notin {"validate", "delete", "finish"},
           Turns(o, "finish", outcome), spent' \in Bounds, tree' \in Trees,
           board.column # "none" \/ tree'.head = "absent",
           UNCHANGED <<board, receipts, journal, session, server, launches>>,
           Real(o, exec[o].outcome, exec[o].warned)'
    PROVE  Inv'
<1>1. Running(o) /\ At(o, "finish")'
  BY NotRecovering DEF Turns, At
<1>2. receipts[o]["delete"] # "accepted"
  BY <1>1 DEF Running, DeleteFacts, At
<1>3. Running(o)'
  BY <1>1, <1>2, AtFinish
<1> QED
  BY <1>3, OnTree

LEMMA TreeStage ==
    ASSUME Inv, NEW o \in Operations, NEW stage, NEW outcome, ~At(o, "idle"),
           Turns(o, stage, outcome), spent' \in Bounds, tree' \in Trees,
           board.column # "none" \/ tree'.head = "absent",
           UNCHANGED <<board, receipts, journal, session, server, launches>>,
           exec[o].at # stage, stage \notin {"idle", "finish", "validate", "delete", "compensate"},
           exec[o].at \notin {"idle", "validate", "delete", "finish"},
           KindFacts(o)', StageFacts(o)',
           Kind(o) \in Moving => receipts[o]["move"] = "accepted",
           Kind(o) \in Starts /\ Fresh(o)' => Fresh(o)
    PROVE  Inv'
<1>1. Running(o) /\ At(o, stage)'
  BY NotRecovering DEF Turns, At
<1>2. receipts[o]["delete"] # "accepted"
  BY <1>1 DEF Running, DeleteFacts, At
<1>3. Running(o)'
  BY <1>1, <1>2, ToStage
<1> QED
  BY <1>3, OnTree

LEMMA ReattachKeeps == ASSUME Inv, NEW o \in Operations, Reattach(o) PROVE Inv'
<1>1. /\ Running(o) /\ exec \in [Operations -> Execs] /\ spent \in Bounds /\ tree \in Trees
      /\ ~At(o, "idle") /\ exec[o].at = "reattach" /\ KindFacts(o) /\ StageFacts(o)
  BY NotRecovering, Types DEF Inv, Reattach, At, Running
<1>2. UNCHANGED <<board, receipts, journal, session, server, launches>> /\ spent' \in Bounds
  BY <1>1, FaultTyped DEF Reattach
<1>3. Kind(o) = "restore" /\ Kind(o) \notin Starts /\ receipts[o]["move"] = "accepted"
  <2>1. Kind(o) = "restore"
    BY <1>1 DEF KindFacts
  <2> QED
    BY <1>1, <2>1 DEF Running, MoveFacts, AfterMoveStages, Moving, Starts
<1>4. board.column # "none"
  BY <1>1, <1>3 DEF Running, MoveFacts
<1>5. tree' \in Trees
  <2>1. tree' = tree \/ \E head \in {"absent", "attached", tree.head} : tree' = [tree EXCEPT !.head = head]
    BY DEF Reattach
  <2> QED
    BY <1>1, <2>1 DEF Trees
<1>6. \E stage \in {"consume", "launch", "look"} : \E outcome \in Outcomes : Turns(o, stage, outcome)
  <2> PICK next \in {"consume", "launch"} : next = IF board.unstarted THEN "consume" ELSE "launch"
    OBVIOUS
  <2>1. {"consume", "launch", "look"} \subseteq Stages /\ {"completed", "worktree_failed"} \subseteq Outcomes
    BY DEF Stages, Outcomes, Succeeded
  <2>2. CASE exec' = [exec EXCEPT ![o].at = next, ![o].outcome = "completed"]
    <3>1. exec[o] \in Execs /\ next \in Stages /\ "completed" \in Outcomes
      BY <1>1, <2>1
    <3>2. PICK entry : entry = [exec[o] EXCEPT !.at = next, !.outcome = "completed"]
      OBVIOUS
    <3>3. entry \in Execs /\ entry.at = next /\ entry.outcome = "completed"
      BY <3>1, <3>2 DEF Execs
    <3>4. exec' = [exec EXCEPT ![o] = entry]
      BY <2>2, <3>2
    <3>5. Turns(o, next, "completed")
      BY <1>1, <3>3, <3>4, Turned
    <3> QED
      BY <3>1, <3>5
  <2>3. CASE exec' = [exec EXCEPT ![o].at = next, ![o].outcome = "completed", ![o].warned = TRUE]
    <3>1. exec[o] \in Execs /\ next \in Stages /\ "completed" \in Outcomes
      BY <1>1, <2>1
    <3>2. [exec[o] EXCEPT !.at = next, !.outcome = "completed", !.warned = TRUE] \in Execs
      BY <3>1 DEF Execs
    <3>3. exec' = [exec EXCEPT ![o] = [exec[o] EXCEPT !.at = next, !.outcome = "completed", !.warned = TRUE]]
      BY <2>3
    <3>4. exec'[o].at = next /\ exec'[o].outcome = "completed"
      BY <1>1, <3>1, <3>3 DEF Execs
    <3>5. Turns(o, next, "completed")
      BY <1>1, <3>2, <3>3, <3>4 DEF Turns
    <3> QED
      BY <3>1, <3>5
  <2>4. CASE exec' = [exec EXCEPT ![o].at = "look", ![o].outcome = "worktree_failed"]
    <3>1. exec[o] \in Execs /\ "look" \in Stages /\ "worktree_failed" \in Outcomes
      BY <1>1, <2>1
    <3>2. PICK entry : entry = [exec[o] EXCEPT !.at = "look", !.outcome = "worktree_failed"]
      OBVIOUS
    <3>3. entry \in Execs /\ entry.at = "look" /\ entry.outcome = "worktree_failed"
      BY <3>1, <3>2 DEF Execs
    <3>4. exec' = [exec EXCEPT ![o] = entry]
      BY <2>4, <3>2
    <3>5. Turns(o, "look", "worktree_failed")
      BY <1>1, <3>3, <3>4, Turned
    <3> QED
      BY <3>1, <3>5
  <2> QED
    BY <2>2, <2>3, <2>4 DEF Reattach
<1> PICK stage \in {"consume", "launch", "look"} : \E outcome \in Outcomes : Turns(o, stage, outcome)
  BY <1>6
<1> PICK outcome \in Outcomes : Turns(o, stage, outcome)
  OBVIOUS
<1>7. exec'[o].at = stage
  BY DEF Turns
<1>8. KindFacts(o)' /\ StageFacts(o)'
  BY <1>1, <1>2, <1>3, <1>7 DEF KindFacts, StageFacts, At, Kind, Moving
<1> QED
  BY <1>1, <1>2, <1>3, <1>4, <1>5, <1>8, TreeStage

LEMMA ConsumeKeeps == ASSUME Inv, NEW o \in Operations, Consume(o) PROVE Inv'
<1>1. /\ Running(o) /\ exec \in [Operations -> Execs] /\ spent \in Bounds /\ tree \in Trees
      /\ ~At(o, "idle") /\ exec[o].at = "consume" /\ KindFacts(o)
  BY NotRecovering, Types DEF Inv, Consume, At, Running
<1>2. UNCHANGED <<board, receipts, journal, session, server, launches>> /\ spent' \in Bounds
  BY <1>1, FaultTyped DEF Consume
<1>3. Kind(o) = "restore" /\ receipts[o]["move"] = "accepted"
  <2>1. Kind(o) = "restore"
    BY <1>1 DEF KindFacts
  <2> QED
    BY <1>1, <2>1 DEF Running, MoveFacts, AfterMoveStages, Moving
<1>4. board.column # "none"
  BY <1>1, <1>3 DEF Running, MoveFacts
<1>5. tree' \in Trees
  BY <1>1 DEF Consume, Trees
<1>6. \E outcome \in Outcomes : Turns(o, "finish", outcome)
  <2>1. exec[o].outcome \in Outcomes /\ "completed_with_warning" \in Outcomes /\ "finish" \in Stages
    BY <1>1 DEF Execs, Outcomes, Succeeded, Stages
  <2>2. CASE End(o, IF exec[o].warned THEN "completed_with_warning" ELSE exec[o].outcome)
    BY <1>1, <2>1, <2>2, Ending
  <2>3. CASE exec' = [exec EXCEPT ![o].at = "finish", ![o].warned = TRUE,
                                  ![o].outcome = "completed_with_warning"]
    <3>1. exec[o] \in Execs
      BY <1>1
    <3>2. [exec[o] EXCEPT !.at = "finish", !.warned = TRUE, !.outcome = "completed_with_warning"] \in Execs
      BY <2>1, <3>1 DEF Execs
    <3>3. exec' = [exec EXCEPT ![o] =
             [exec[o] EXCEPT !.at = "finish", !.warned = TRUE, !.outcome = "completed_with_warning"]]
      BY <2>3
    <3>4. exec'[o].at = "finish" /\ exec'[o].outcome = "completed_with_warning"
      BY <1>1, <3>1, <3>3 DEF Execs
    <3>5. Turns(o, "finish", "completed_with_warning")
      BY <1>1, <3>2, <3>3, <3>4 DEF Turns
    <3> QED
      BY <2>1, <3>5
  <2> QED
    BY <2>2, <2>3 DEF Consume
<1>7. Real(o, exec[o].outcome, exec[o].warned)'
  <2>1. receipts[o]["compensate"] = "none" => board.column \in Work
    BY <1>1, <1>3 DEF Running, MoveFacts, Moved
  <2> QED
    BY <1>2, <1>3, <2>1 DEF Real, Kind, Starts
<1> QED
  BY <1>1, <1>2, <1>4, <1>5, <1>6, <1>7, TreeFinish

LEMMA EnsureKeeps == ASSUME Inv, NEW o \in Operations, Ensure(o) PROVE Inv'
<1>1. /\ Running(o) /\ exec \in [Operations -> Execs] /\ spent \in Bounds /\ tree \in Trees
      /\ ~At(o, "idle") /\ exec[o].at = "ensure" /\ KindFacts(o) /\ StageFacts(o)
  BY NotRecovering, Types DEF Inv, Ensure, At, Running
<1>2. UNCHANGED <<board, receipts, journal, session, server, launches>> /\ spent' \in Bounds
  <2>1. UNCHANGED <<board, receipts, journal, session, server, launches>> /\ (spent' = spent \/ Fault)
    BY DEF Ensure
  <2> QED
    BY <1>1, <2>1, FaultTyped
<1>3. Kind(o) \in Starts \cup {"restart"}
  BY <1>1 DEF KindFacts, At
<1>4. Kind(o) \in Moving => receipts[o]["move"] = "accepted"
  BY <1>1 DEF Running, MoveFacts, AfterMoveStages
<1>5. board.column # "none"
  BY <1>1, <1>3, <1>4 DEF Running, MoveFacts, StageFacts, Moving, Work
<1>6. tree' \in Trees
  BY <1>1 DEF Ensure, Trees
<1>7. \E stage \in {"launch", "failed"} : Turns(o, stage, exec[o].outcome)
  <2>1. PICK stage \in {"launch", "failed"} : Go(o, stage)
    BY DEF Ensure
  <2>2. stage \in Stages
    BY DEF Stages
  <2> QED
    BY <1>1, <2>1, <2>2, Going
<1> PICK stage \in {"launch", "failed"} : Turns(o, stage, exec[o].outcome)
  BY <1>7
<1>8. exec'[o].at = stage
  BY DEF Turns
<1>9. KindFacts(o)'
  BY <1>1, <1>2, <1>3, <1>8 DEF KindFacts, At, Kind
<1>10. StageFacts(o)'
  BY <1>1, <1>2, <1>3, <1>8 DEF StageFacts, At, Kind
<1>11. Fresh(o)
  BY <1>1 DEF Fresh
<1> QED
  BY <1>1, <1>2, <1>4, <1>5, <1>6, <1>9, <1>10, <1>11, TreeStage
(* What archiving leaves is what it reports.                               *)
LEMMA ArchivedReal ==
    ASSUME Inv, NEW o \in Operations, exec[o].at \in {"save_branch", "detach"},
           UNCHANGED <<board, receipts, journal, session>>,
           Kind(o) = "trash" => tree'.head # "attached" \/ exec'[o].warned = TRUE
    PROVE  Real(o, exec[o].outcome, exec[o].warned)'
<1>1. Running(o) /\ KindFacts(o) /\ StageFacts(o) /\ MoveFacts(o)
  BY NotRecovering DEF At, Running
<1>2. Kind(o) \in {"trash", "restore"} /\ Kind(o) \in Moving /\ Kind(o) \notin Starts
  <2>1. Kind(o) \in {"trash", "restore"}
    BY <1>1 DEF KindFacts
  <2> QED
    BY <2>1 DEF Moving, Starts
<1>3. receipts[o]["move"] = "accepted"
  BY <1>1, <1>2 DEF MoveFacts, AfterMoveStages
<1>4. receipts[o]["compensate"] = "none" =>
         /\ Kind(o) = "trash" => board.column = "trash"
         /\ Kind(o) = "restore" => board.column \in Work
  BY <1>1, <1>3 DEF MoveFacts, Moved
<1>5. Kind(o) = "trash" => session.process = Nobody
  BY <1>1 DEF StageFacts
<1> QED
  BY <1>2, <1>4, <1>5 DEF Real, Kind

(* The last stage of archiving.                                            *)
LEMMA Archived ==
    ASSUME Inv, NEW o \in Operations, exec[o].at \in {"save_branch", "detach"}, tree' \in Trees,
           \/ Released(o) /\ UNCHANGED spent /\ tree'.head # "attached"
           \/ ReleaseFails(o),
           UNCHANGED <<board, receipts, journal, session, server, launches>>
    PROVE  Inv'
<1>1. exec \in [Operations -> Execs] /\ spent \in Bounds /\ Running(o) /\ ~At(o, "idle") /\ KindFacts(o)
  BY NotRecovering, Types DEF Inv, At, Running
<1>2. spent' \in Bounds
  BY <1>1, FaultTyped DEF ReleaseFails
<1>3. board.column # "none"
  <2>1. Kind(o) \in Moving
    BY <1>1 DEF KindFacts, Moving
  <2> QED
    BY <1>1, <2>1 DEF Running, MoveFacts, AfterMoveStages
<1>4. CASE Released(o) /\ tree'.head # "attached"
  <2>1. \E outcome \in Outcomes : Turns(o, "finish", outcome)
    <3>1. CASE Kind(o) = "trash"
      <4>1. End(o, "completed") /\ "completed" \in Outcomes
        BY <1>4, <3>1 DEF Released, Outcomes, Succeeded
      <4> QED
        BY <1>1, <4>1, Ending
    <3>2. CASE Kind(o) # "trash"
      <4>1. Go(o, "finish") /\ "finish" \in Stages /\ exec[o].outcome \in Outcomes
        BY <1>1, <1>4, <3>2 DEF Released, Stages, Execs
      <4> QED
        BY <1>1, <4>1, Going
    <3> QED
      BY <3>1, <3>2
  <2>2. Real(o, exec[o].outcome, exec[o].warned)'
    BY <1>4, ArchivedReal
  <2> QED
    BY <1>1, <1>2, <1>3, <2>1, <2>2, TreeFinish
<1>5. CASE ReleaseFails(o)
  <2> PICK outcome \in Outcomes :
         outcome = IF Kind(o) = "trash" THEN "completed_with_warning" ELSE exec[o].outcome
    <3>1. exec[o].outcome \in Outcomes /\ "completed_with_warning" \in Outcomes
      BY <1>1 DEF Execs, Outcomes, Succeeded
    <3> QED
      BY <3>1
  <2>1. exec[o] \in Execs /\ "finish" \in Stages
    BY <1>1 DEF Stages
  <2>2. [exec[o] EXCEPT !.at = "finish", !.warned = TRUE, !.outcome = outcome] \in Execs
    BY <2>1 DEF Execs
  <2>3. exec' = [exec EXCEPT ![o] = [exec[o] EXCEPT !.at = "finish", !.warned = TRUE, !.outcome = outcome]]
    <3>1. exec' = [exec EXCEPT ![o].at = "finish", ![o].warned = TRUE,
             ![o].outcome = IF Kind(o) = "trash" THEN "completed_with_warning" ELSE @]
      BY <1>5 DEF ReleaseFails
    <3> QED
      BY <1>1, <2>1, <3>1 DEF Execs
  <2>4. exec'[o].at = "finish" /\ exec'[o].outcome = outcome /\ exec'[o].warned = TRUE
    BY <1>1, <2>1, <2>3 DEF Execs
  <2>5. Turns(o, "finish", outcome)
    BY <1>1, <2>2, <2>3, <2>4 DEF Turns
  <2>6. Real(o, exec[o].outcome, exec[o].warned)'
    BY <2>4, ArchivedReal
  <2> QED
    BY <1>1, <1>2, <1>3, <2>5, <2>6, TreeFinish
<1> QED
  BY <1>4, <1>5

LEMMA SaveBranchKeeps == ASSUME Inv, NEW o \in Operations, SaveBranch(o) PROVE Inv'
<1>1. /\ Running(o) /\ exec \in [Operations -> Execs] /\ spent \in Bounds /\ tree \in Trees
      /\ ~At(o, "idle") /\ exec[o].at = "save_branch" /\ KindFacts(o) /\ StageFacts(o)
  BY NotRecovering, Types DEF Inv, SaveBranch, At, Running
<1>2. UNCHANGED <<board, receipts, journal, session, server, launches>>
  BY DEF SaveBranch
<1>3. CASE tree' = [tree EXCEPT !.marker = TRUE] /\ Go(o, "detach") /\ UNCHANGED spent
  <2>1. Turns(o, "detach", exec[o].outcome) /\ tree' \in Trees
    BY <1>1, <1>3, Going DEF Stages, Trees
  <2>2. exec'[o].at = "detach"
    BY <2>1 DEF Turns
  <2>3. KindFacts(o)' /\ StageFacts(o)'
    BY <1>1, <1>2, <2>2 DEF KindFacts, StageFacts, At, Kind
  <2>4. Kind(o) \in Moving /\ Kind(o) \notin Starts
    BY <1>1 DEF KindFacts, Moving, Starts
  <2>5. receipts[o]["move"] = "accepted" /\ board.column # "none"
    BY <1>1, <2>4 DEF Running, MoveFacts, AfterMoveStages
  <2> QED
    BY <1>1, <1>2, <1>3, <2>1, <2>3, <2>4, <2>5, TreeStage
<1>4. CASE tree.head # "attached" /\ Released(o) /\ UNCHANGED <<tree, spent>>
  BY <1>1, <1>2, <1>4, Archived
<1>5. CASE ReleaseFails(o)
  <2>1. tree' \in Trees
    BY <1>1, <1>5 DEF ReleaseFails
  <2> QED
    BY <1>1, <1>2, <1>5, <2>1, Archived
<1> QED
  BY <1>3, <1>4, <1>5 DEF SaveBranch

LEMMA DetachKeeps == ASSUME Inv, NEW o \in Operations, Detach(o) PROVE Inv'
<1>1. tree \in Trees /\ exec[o].at = "detach"
  BY Types DEF Inv, Detach, At
<1>2. UNCHANGED <<board, receipts, journal, session, server, launches>>
  BY DEF Detach
<1>3. tree' \in Trees
  BY <1>1 DEF Detach, ReleaseFails, Trees
<1>4. \/ Released(o) /\ UNCHANGED spent /\ tree'.head # "attached"
      \/ ReleaseFails(o)
  BY <1>1 DEF Detach, Trees
<1> QED
  BY <1>1, <1>2, <1>3, <1>4, Archived

LEMMA PurgeKeeps == ASSUME Inv, NEW o \in Operations, Purge(o) PROVE Inv'
<1>1. /\ Running(o) /\ exec \in [Operations -> Execs] /\ spent \in Bounds /\ tree \in Trees
      /\ ~At(o, "idle") /\ exec[o].at = "purge" /\ KindFacts(o) /\ StageFacts(o)
  BY NotRecovering, Types DEF Inv, Purge, At, Running
<1>2. UNCHANGED <<board, receipts, journal, session, server, launches>>
  BY DEF Purge
<1>3. Kind(o) = "delete" /\ Kind(o) \notin Moving /\ Kind(o) \notin Starts
  BY <1>1 DEF KindFacts, Moving, Starts
<1>4. CASE tree' = [head |-> "absent", marker |-> FALSE] /\ Go(o, "mark_deleting") /\ UNCHANGED spent
  <2>1. Turns(o, "mark_deleting", exec[o].outcome) /\ tree' \in Trees /\ tree'.head = "absent"
    BY <1>1, <1>4, Going DEF Stages, Trees
  <2>2. exec'[o].at = "mark_deleting"
    BY <2>1 DEF Turns
  <2>3. KindFacts(o)' /\ StageFacts(o)'
    BY <1>1, <1>2, <1>3, <2>1, <2>2 DEF KindFacts, StageFacts, At, Kind
  <2> QED
    BY <1>1, <1>2, <1>3, <1>4, <2>1, <2>3, TreeStage
<1>5. CASE Fault /\ End(o, "worktree_failed") /\ UNCHANGED tree
  BY <1>1, <1>2, <1>5, FaultTyped, Fails DEF Failures
<1> QED
  BY <1>4, <1>5 DEF Purge
LEMMA LaunchKeeps == ASSUME Inv, NEW o \in Operations, Launch(o) PROVE Inv'
<1>1. /\ Running(o) /\ exec \in [Operations -> Execs] /\ spent \in Bounds /\ session \in Sessions
      /\ launches \in [Operations -> Nat]
      /\ ~At(o, "idle") /\ exec[o].at = "launch" /\ KindFacts(o) /\ StageFacts(o)
  BY NotRecovering, Types DEF Inv, Launch, At, Running
<1>2. /\ UNCHANGED <<board, receipts, journal, tree, server>>
      /\ session' = [session EXCEPT !.process = o, !.live = o]
      /\ launches' = [launches EXCEPT ![o] = @ + 1]
  BY DEF Launch
<1>3. spent' \in Bounds
  <2>1. spent' = spent \/ Fault
    BY DEF Launch
  <2> QED
    BY <1>1, <2>1, FaultTyped
<1>4. /\ session' \in Sessions /\ session'.process = o /\ session'.live = o
      /\ launches' \in [Operations -> Nat] /\ launches'[o] = launches[o] + 1
      /\ \A p \in Operations \ {o} : launches'[p] = launches[p]
  <2>1. session' \in Sessions /\ session'.process = o /\ session'.live = o
    BY <1>1, <1>2 DEF Sessions
  <2>2. launches[o] \in Nat /\ launches[o] + 1 \in Nat
    BY <1>1
  <2>3. /\ launches' \in [Operations -> Nat] /\ launches'[o] = launches[o] + 1
        /\ \A p \in Operations \ {o} : launches'[p] = launches[p]
    BY <1>1, <1>2, <2>2
  <2> QED
    BY <2>1, <2>3
<1>5. Kind(o) \in Starts \cup {"restore", "restart"} /\ board.column \in Work /\ board.unstarted # TRUE
  BY <1>1 DEF KindFacts, Launch, MayLaunch, Work
<1>6. CardFacts'
  BY <1>2, <1>4, <1>5 DEF Inv, CardFacts, Work
<1>7. /\ Kind(o) \in Moving => receipts[o]["move"] = "accepted"
      /\ receipts[o]["delete"] # "accepted"
      /\ Kind(o) \in Starts => launches[o] = 0 /\ receipts[o]["compensate"] = "none"
  <2>1. Fresh(o)
    BY <1>1 DEF Fresh
  <2> QED
    BY <1>1, <2>1 DEF Running, MoveFacts, AfterMoveStages, DeleteFacts, StartFacts
<1>8. \E stage \in {"consume", "failed", "finish"} : \E outcome \in Outcomes :
         /\ Turns(o, stage, outcome)
         /\ stage = "consume" => Kind(o) = "restore"
         /\ stage = "finish" => outcome \in Succeeded
  <2>1. CASE Succeed(o, "completed")
    <3>1. CASE Kind(o) = "restore"
      <4>1. Turns(o, "consume", "completed") /\ "completed" \in Outcomes
        BY <1>1, <2>1, <3>1, SucceedTurns DEF Outcomes, Succeeded
      <4> QED
        BY <3>1, <4>1
    <3>2. CASE Kind(o) # "restore"
      <4>1. PICK oc \in Succeeded : End(o, oc)
        BY <1>1, <2>1, <3>2, SucceedTurns
      <4>2. oc \in Outcomes
        BY Outcomes1
      <4>3. Turns(o, "finish", oc)
        BY <1>1, <4>1, <4>2, Ending
      <4> QED
        BY <4>2, <4>3
    <3> QED
      BY <3>1, <3>2
  <2>2. CASE Go(o, "failed")
    <3>1. Turns(o, "failed", exec[o].outcome) /\ exec[o].outcome \in Outcomes
      BY <1>1, <2>2, Going DEF Stages, Execs
    <3> QED
      BY <3>1
  <2> QED
    BY <2>1, <2>2 DEF Launch
<1> PICK stage \in {"consume", "failed", "finish"} : \E outcome \in Outcomes :
         /\ Turns(o, stage, outcome)
         /\ stage = "consume" => Kind(o) = "restore"
         /\ stage = "finish" => outcome \in Succeeded
  BY <1>8
<1> PICK outcome \in Outcomes :
         /\ Turns(o, stage, outcome)
         /\ stage = "consume" => Kind(o) = "restore"
         /\ stage = "finish" => outcome \in Succeeded
  OBVIOUS
<1>9. exec'[o].at = stage /\ exec'[o].outcome = outcome
  BY DEF Turns
<1>10. Effect(o)
  BY <1>1, <1>2, <1>3, <1>4, NotRecovering, Types DEF Inv, Turns, Effect, Others, Pending
<1>11. Running(o)'
  <2>1. KindFacts(o)'
    BY <1>1, <1>2, <1>5, <1>9 DEF KindFacts, At, Kind
  <2>2. MoveFacts(o)'
    BY <1>1, <1>2, <1>4, <1>7, <1>9 DEF Running, MoveFacts, Moved, Kind
  <2>3. StartFacts(o)'
    <3>1. Kind(o) \in Starts => launches'[o] = 1 /\ receipts[o]["move"] = "accepted"
      BY <1>4, <1>7 DEF Moving
    <3>2. ~Fresh(o)' /\ ~At(o, "compensate")'
      BY <1>9 DEF Fresh, At
    <3> QED
      BY <1>2, <1>7, <3>1, <3>2 DEF StartFacts, Kind
  <2>4. StageFacts(o)'
    BY <1>1, <1>2, <1>5, <1>9 DEF StageFacts, At, Kind
  <2>5. DeleteFacts(o)'
    BY <1>2, <1>7 DEF DeleteFacts
  <2>6. ASSUME At(o, "finish")' PROVE Real(o, exec[o].outcome, exec[o].warned)'
    <3>1. outcome \in Succeeded
      BY <1>9, <2>6 DEF At
    <3>2. /\ outcome \notin {"superseded", "session_start_failed"}
          /\ Kind(o) \notin {"trash", "delete", "stop"} /\ board.unstarted = FALSE
      <4>1. board.unstarted \in BOOLEAN
        BY Types DEF Inv, Cards
      <4> QED
        BY <1>5, <3>1, <4>1 DEF Succeeded, Starts
    <3> QED
      BY <1>2, <1>5, <1>9, <3>1, <3>2 DEF Real, Kind
  <2> QED
    BY <2>1, <2>2, <2>3, <2>4, <2>5, <2>6 DEF Running
<1> QED
  BY <1>1, <1>6, <1>10, <1>11, Own

LEMMA MarkDeletingKeeps == ASSUME Inv, NEW o \in Operations, MarkDeleting(o) PROVE Inv'
<1>1. /\ Running(o) /\ exec \in [Operations -> Execs] /\ spent \in Bounds /\ Pending(o)
      /\ journal \in [Operations -> Entries]
      /\ ~At(o, "idle") /\ exec[o].at = "mark_deleting" /\ KindFacts(o) /\ StageFacts(o)
  BY NotRecovering, Types DEF Inv, MarkDeleting, At, Running
<1>2. UNCHANGED <<board, receipts, session, tree, server, spent, launches>>
      /\ journal' = [journal EXCEPT ![o].deleting = TRUE]
  BY DEF MarkDeleting
<1>3. /\ journal' \in [Operations -> Entries] /\ journal'[o].status = journal[o].status
      /\ Kind(o)' = Kind(o) /\ journal'[o].source = journal[o].source /\ journal'[o].deleting = TRUE
      /\ \A p \in Operations \ {o} : journal'[p] = journal[p]
  BY <1>1, <1>2 DEF Entries, Kind
<1>4. Kind(o) = "delete" /\ Kind(o) \notin Moving /\ Kind(o) \notin Starts
  BY <1>1 DEF KindFacts, Moving, Starts
<1>5. Turns(o, "delete", exec[o].outcome)
  BY <1>1, Going DEF MarkDeleting, Stages
<1>6. exec'[o].at = "delete"
  BY <1>5 DEF Turns
<1>7. Effect(o)
  BY <1>1, <1>2, <1>3, <1>5, Types DEF Inv, Turns, Effect, Others, Pending
<1>8. CardFacts'
  BY <1>2 DEF Inv, CardFacts
<1>9. Running(o)'
  <2>1. KindFacts(o)'
    BY <1>1, <1>3, <1>4, <1>6 DEF KindFacts, At
  <2>2. MoveFacts(o)' /\ StartFacts(o)'
    BY <1>1, <1>2, <1>3, <1>4 DEF Running, MoveFacts, StartFacts, Moved, Starts
  <2>3. StageFacts(o)'
    BY <1>1, <1>2, <1>3, <1>4, <1>6 DEF StageFacts, At
  <2>4. DeleteFacts(o)'
    BY <1>1, <1>2 DEF Running, DeleteFacts
  <2>5. ~At(o, "finish")'
    BY <1>6 DEF At
  <2> QED
    BY <2>1, <2>2, <2>3, <2>4, <2>5 DEF Running
<1> QED
  BY <1>1, <1>7, <1>8, <1>9, Own
-----------------------------------------------------------------------------
(* Board steps                                                             *)

(* What a command of an operation does: answered from its receipt, or      *)
(* taken, with the card it describes or without a change.                  *)
Taken(o, step) ==
    /\ ~Replayed(o, step) /\ Accepted(o, step)
    /\ receipts'[o][step] = "accepted"
    /\ board'.column = Card(o, step).column /\ board'.unstarted = Card(o, step).unstarted
    /\ board'.pinned = Card(o, step).pinned
Rejected(o, step) ==
    /\ ~Replayed(o, step) /\ ~Accepted(o, step)
    /\ receipts'[o][step] = "rejected"
    /\ board'.column = board.column /\ board'.unstarted = board.unstarted
    /\ board'.pinned = board.pinned

Committed(o, step) ==
    /\ board' \in Cards /\ receipts' \in [Operations -> Receipts]
    /\ \A p \in Operations \ {o} : receipts'[p] = receipts[p]
    /\ \A s \in Steps \ {step} : receipts'[o][s] = receipts[o][s]
    /\ \/ Replayed(o, step) /\ UNCHANGED <<board, receipts>>
       \/ Taken(o, step)
       \/ Rejected(o, step)

LEMMA Columned ==
    ASSUME board \in Cards, NEW o \in Operations, NEW step \in Steps, journal[o].source \in Work
    PROVE  Card(o, step) \in Cards /\ Card(o, step).revision = board.revision
<1>1. Source(o) \in Columns /\ Target(o) \in Columns /\ {"none", "review"} \subseteq Columns
  BY DEF Source, Target, Columns, Work
<1>2. board.unstarted \in BOOLEAN
  BY DEF Cards
<1>3. CASE step = "create"
  BY <1>1, <1>3 DEF Card, Cards
<1>4. CASE step = "move"
  BY <1>1, <1>2, <1>4 DEF Card, Cards
<1>5. CASE step = "compensate"
  BY <1>1, <1>2, <1>5 DEF Card, Cards
<1>6. CASE step = "delete"
  BY <1>1, <1>6 DEF Card, Cards
<1> QED
  BY <1>3, <1>4, <1>5, <1>6 DEF Steps

LEMMA CommitEffect ==
    ASSUME board \in Cards, receipts \in [Operations -> Receipts],
           NEW o \in Operations, NEW step \in Steps, journal[o].source \in Work, Commit(o, step)
    PROVE  Committed(o, step)
<1>1. CASE Replayed(o, step)
  <2>1. UNCHANGED <<board, receipts>>
    BY <1>1 DEF Commit
  <2> QED
    BY <1>1, <2>1 DEF Committed
<1>2. CASE ~Replayed(o, step)
  <2>1. PICK card \in Cards : /\ card = IF Changes(o, step) THEN Card(o, step) ELSE board
                              /\ card.revision = board.revision
    BY Columned
  <2>2. PICK verdict \in {"accepted", "rejected"} :
            verdict = IF Changes(o, step) THEN "accepted" ELSE "rejected"
    OBVIOUS
  <2>3. board' = [card EXCEPT !.revision = @ + 1] /\ receipts' = [receipts EXCEPT ![o][step] = verdict]
    BY <1>2, <2>1, <2>2 DEF Commit
  <2>4. board' \in Cards /\ board'.column = card.column /\ board'.unstarted = card.unstarted
        /\ board'.pinned = card.pinned
    BY <2>3 DEF Cards
  <2>5. /\ receipts' \in [Operations -> Receipts] /\ receipts'[o][step] = verdict
        /\ \A p \in Operations \ {o} : receipts'[p] = receipts[p]
        /\ \A s \in Steps \ {step} : receipts'[o][s] = receipts[o][s]
    BY <2>3 DEF Receipts
  <2>6. Accepted(o, step) <=> Changes(o, step)
    BY <1>2 DEF Accepted
  <2>7. CASE Changes(o, step)
    BY <1>2, <2>1, <2>2, <2>4, <2>5, <2>6, <2>7 DEF Committed, Taken
  <2>8. CASE ~Changes(o, step)
    BY <1>2, <2>1, <2>2, <2>4, <2>5, <2>6, <2>8 DEF Committed, Rejected
  <2> QED
    BY <2>7, <2>8
<1> QED
  BY <1>1, <1>2

LEMMA BoardEffect ==
    ASSUME Inv, NEW o \in Operations, NEW step \in Steps, NEW stage, NEW outcome, ~At(o, "idle"),
           Committed(o, step), Turns(o, stage, outcome),
           UNCHANGED <<journal, session, tree, server, spent, launches>>
    PROVE  Effect(o)
BY Types, NotRecovering DEF Inv, Committed, Turns, Effect, Others, Pending
(* A board step that changed nothing ends the operation.                   *)
LEMMA RejectedEnds ==
    ASSUME Inv, NEW o \in Operations, NEW step \in Steps, NEW outcome \in Outcomes,
           exec[o].at = step, Committed(o, step), Rejected(o, step), End(o, outcome),
           UNCHANGED <<journal, session, tree, server, spent, launches>>,
           Real(o, exec[o].outcome, exec[o].warned)'
    PROVE  Inv'
<1>1. Running(o) /\ exec \in [Operations -> Execs] /\ ~At(o, "idle")
  BY NotRecovering, Types DEF Inv, At, Steps
<1>2. Turns(o, "finish", outcome)
  BY <1>1, Ending
<1>3. exec'[o].at = "finish"
  BY <1>2 DEF Turns
<1>4. /\ receipts[o][step] = "none" /\ receipts'[o][step] = "rejected"
      /\ board'.column = board.column /\ board'.unstarted = board.unstarted /\ board'.pinned = board.pinned
      /\ \A s \in Steps \ {step} : receipts'[o][s] = receipts[o][s]
  BY DEF Rejected, Replayed, Committed
<1>5. /\ \A s \in {"move", "compensate", "delete"} :
            \/ receipts'[o][s] = receipts[o][s]
            \/ receipts[o][s] = "none" /\ receipts'[o][s] = "rejected"
      /\ receipts'[o]["compensate"] # receipts[o]["compensate"] => step = "compensate"
  BY <1>4 DEF Steps
<1>6. CardFacts'
  BY <1>4 DEF Inv, CardFacts
<1>7. Running(o)'
  <2>1. KindFacts(o)'
    BY <1>1, <1>3 DEF Running, KindFacts, At, Kind
  <2>2. step = "compensate" => receipts'[o]["move"] = "accepted"
    <3>1. step = "compensate" => Kind(o) \in Moving
      BY <1>1 DEF Running, KindFacts
    <3>2. step = "compensate" => receipts[o]["move"] = "accepted"
      BY <1>1, <3>1 DEF Running, MoveFacts, AfterMoveStages
    <3> QED
      BY <1>5, <3>2
  <2>3. MoveFacts(o)'
    <3>1. receipts'[o]["move"] # "none" => Kind(o) \in Moving
      <4>1. step = "move" => Kind(o) \in Moving
        BY <1>1 DEF Running, KindFacts
      <4>2. step # "move" => receipts'[o]["move"] = receipts[o]["move"]
        BY <1>4 DEF Steps
      <4> QED
        BY <1>1, <4>1, <4>2 DEF Running, MoveFacts
    <3> QED
      BY <3>1, <1>1, <1>3, <1>4, <1>5, <2>2 DEF Running, MoveFacts, Moved, Kind, AfterMoveStages
  <2>4. StartFacts(o)'
    BY <1>1, <1>3, <1>4, <1>5 DEF Running, StartFacts, Fresh, At, Kind
  <2>5. StageFacts(o)' /\ DeleteFacts(o)'
    <3>1. receipts'[o]["delete"] # "accepted"
      BY <1>1, <1>5, <1>4 DEF Running, DeleteFacts, Steps
    <3> QED
      BY <1>3, <3>1 DEF StageFacts, DeleteFacts, At
  <2> QED
    BY <2>1, <2>3, <2>4, <2>5 DEF Running
<1>8. Effect(o)
  BY <1>1, <1>2, BoardEffect
<1> QED
  BY <1>1, <1>6, <1>7, <1>8, Own

LEMMA FailureReal ==
    ASSUME exec \in [Operations -> Execs], NEW o \in Operations, NEW outcome \in Failures,
           End(o, outcome)
    PROVE  Real(o, exec[o].outcome, exec[o].warned)'
<1>1. outcome \in Outcomes
  BY Outcomes1
<1>2. exec'[o].outcome = outcome
  BY <1>1, Ending DEF Turns
<1> QED
  BY <1>2, Outcomes1 DEF Real

LEMMA CreateCardKeeps == ASSUME Inv, NEW o \in Operations, CreateCard(o) PROVE Inv'
<1>1. /\ Running(o) /\ exec \in [Operations -> Execs] /\ spent \in Bounds /\ board \in Cards
      /\ receipts \in [Operations -> Receipts] /\ CardFacts
      /\ ~At(o, "idle") /\ exec[o].at = "create" /\ KindFacts(o) /\ "create" \in Steps
  BY NotRecovering, Types DEF Inv, CreateCard, At, Running, Steps
<1>2. UNCHANGED <<journal, session, tree, server, spent, launches>>
  BY DEF CreateCard
<1>3. Kind(o) = "create_and_start" /\ Kind(o) \in Starts
  BY <1>1 DEF KindFacts, At, Starts
<1>4. Committed(o, "create")
  BY <1>1, CommitEffect DEF CreateCard, KindFacts
<1>5. receipts[o]["delete"] # "accepted"
  BY <1>1 DEF Running, DeleteFacts
<1>6. CASE ~Accepted(o, "create")
  <2>1. End(o, "invalid_transition") /\ "invalid_transition" \in Failures
    BY <1>6 DEF CreateCard, Failures
  <2>2. CASE Replayed(o, "create")
    <3>1. UNCHANGED <<board, receipts>>
      BY <2>2 DEF CreateCard, Commit
    <3> QED
      BY <1>1, <1>2, <1>5, <2>1, <3>1, Fails
  <2>3. CASE ~Replayed(o, "create")
    <3>1. Rejected(o, "create")
      BY <1>4, <1>6, <2>3 DEF Committed, Taken
    <3>2. Real(o, exec[o].outcome, exec[o].warned)'
      BY <1>1, <2>1, FailureReal
    <3> QED
      BY <1>1, <1>2, <1>4, <2>1, <3>1, <3>2, Outcomes1, RejectedEnds
  <2> QED
    BY <2>2, <2>3
<1>7. CASE Accepted(o, "create")
  <2>1. Turns(o, "move", exec[o].outcome)
    <3>1. exec' = [exec EXCEPT ![o].at = "move", ![o].base = board'.revision, ![o].rebases = 0]
      BY <1>7 DEF CreateCard
    <3>2. board'.revision \in Nat /\ "move" \in Stages /\ 0 \in 0 .. MaxRebases
      BY <1>4, Numbers DEF Committed, Cards, Stages
    <3>3. PICK entry : entry = [exec[o] EXCEPT !.at = "move", !.base = board'.revision, !.rebases = 0]
      OBVIOUS
    <3>4. entry \in Execs /\ entry.at = "move" /\ entry.outcome = exec[o].outcome
      BY <1>1, <3>2, <3>3 DEF Execs
    <3>5. exec' = [exec EXCEPT ![o] = entry]
      BY <3>1, <3>3
    <3> QED
      BY <1>1, <3>4, <3>5, Turned
  <2>2. exec'[o].at = "move"
    BY <2>1 DEF Turns
  <2>3. KindFacts(o)' /\ StageFacts(o)' /\ ~Fresh(o)'
    BY <1>1, <1>2, <1>3, <2>2 DEF KindFacts, StageFacts, Fresh, At, Kind, Moving
  <2>4. CASE Replayed(o, "create")
    <3>1. UNCHANGED <<board, receipts>>
      BY <2>4 DEF CreateCard, Commit
    <3> QED
      BY <1>1, <1>2, <1>5, <2>1, <2>3, <3>1, GoesOn DEF AfterMoveStages
  <2>5. CASE ~Replayed(o, "create")
    <3>1. Taken(o, "create")
      BY <1>4, <1>7, <2>5 DEF Committed, Rejected
    <3>2. board.column = "none"
      BY <1>7, <2>5 DEF Accepted, Changes
    <3>3. board'.column = "review" /\ board'.unstarted = TRUE
      BY <1>1, <3>1 DEF Taken, Card, Cards
    <3>4. CardFacts'
      BY <1>1, <1>2, <3>2, <3>3 DEF CardFacts
    <3>5. \A s \in {"move", "compensate", "delete"} : receipts'[o][s] = receipts[o][s]
      BY <1>4 DEF Committed, Steps
    <3>6. receipts[o]["move"] # "accepted" /\ receipts[o]["compensate"] = "none"
      BY <1>1, <3>2 DEF Running, MoveFacts
    <3>7. Running(o)'
      <4>1. MoveFacts(o)'
        BY <1>1, <1>2, <2>2, <3>5, <3>6 DEF Running, MoveFacts, Moved, Kind, AfterMoveStages
      <4>2. StartFacts(o)'
        BY <1>1, <1>2, <2>2, <2>3, <3>5, <3>6 DEF Running, StartFacts, At, Kind
      <4>3. DeleteFacts(o)' /\ ~At(o, "finish")'
        BY <1>5, <2>2, <3>5 DEF DeleteFacts, At
      <4> QED
        BY <2>3, <4>1, <4>2, <4>3 DEF Running
    <3>8. Effect(o)
      BY <1>1, <1>2, <1>4, <2>1, BoardEffect
    <3> QED
      BY <1>1, <3>4, <3>7, <3>8, Own
  <2> QED
    BY <2>4, <2>5
<1> QED
  BY <1>6, <1>7
LEMMA MoveCardKeeps == ASSUME Inv, NEW o \in Operations, MoveCard(o) PROVE Inv'
<1>1. /\ Running(o) /\ exec \in [Operations -> Execs] /\ spent \in Bounds /\ board \in Cards
      /\ receipts \in [Operations -> Receipts] /\ CardFacts /\ session \in Sessions
      /\ ~At(o, "idle") /\ exec[o].at = "move" /\ KindFacts(o) /\ "move" \in Steps
  BY NotRecovering, Types DEF Inv, MoveCard, At, Running, Steps
<1>2. UNCHANGED <<journal, session, tree, server, spent, launches>>
  BY DEF MoveCard
<1>3. Kind(o) \in Moving /\ journal[o].source \in Work
  BY <1>1 DEF KindFacts
<1>4. Committed(o, "move")
  BY <1>1, <1>3, CommitEffect DEF MoveCard
<1>5. receipts[o]["delete"] # "accepted"
  BY <1>1 DEF Running, DeleteFacts
<1>6. CASE ~Accepted(o, "move")
  <2>1. End(o, "invalid_transition") /\ "invalid_transition" \in Failures
    BY <1>6 DEF MoveCard, Failures
  <2>2. CASE Replayed(o, "move")
    <3>1. UNCHANGED <<board, receipts>>
      BY <2>2 DEF MoveCard, Commit
    <3> QED
      BY <1>1, <1>2, <1>5, <2>1, <3>1, Fails
  <2>3. CASE ~Replayed(o, "move")
    <3>1. Rejected(o, "move")
      BY <1>4, <1>6, <2>3 DEF Committed, Taken
    <3>2. Real(o, exec[o].outcome, exec[o].warned)'
      BY <1>1, <2>1, FailureReal
    <3> QED
      BY <1>1, <1>2, <1>4, <2>1, <3>1, <3>2, Outcomes1, RejectedEnds
  <2> QED
    BY <2>2, <2>3
<1>7. CASE Accepted(o, "move")
  <2> PICK again \in BOOLEAN : again = Replayed(o, "move")
    BY DEF Replayed
  <2>1. Turns(o, "accepted", "") /\ exec'[o].replayed = again
    <3>1. exec' = [exec EXCEPT ![o] = [Idle EXCEPT !.at = "accepted", !.replayed = again]]
      BY <1>7 DEF MoveCard
    <3>2. Idle \in Execs /\ "accepted" \in Stages /\ Idle.outcome = ""
      BY IdleTyped DEF Stages, Idle
    <3>3. [Idle EXCEPT !.at = "accepted", !.replayed = again] \in Execs
      BY <3>2 DEF Execs
    <3> DEFINE e == [Idle EXCEPT !.at = "accepted", !.replayed = again]
    <3>4. e.at = "accepted" /\ e.outcome = "" /\ e.replayed = again
      BY <3>2 DEF Execs
    <3>5. e \in Execs /\ exec' = [exec EXCEPT ![o] = e]
      BY <3>1, <3>3
    <3> HIDE DEF e
    <3> QED
      BY <1>1, <3>4, <3>5 DEF Turns
  <2>2. exec'[o].at = "accepted"
    BY <2>1 DEF Turns
  <2>3. KindFacts(o)' /\ StageFacts(o)'
    BY <1>1, <1>2, <1>3, <2>2 DEF KindFacts, StageFacts, At, Kind
  <2>4. CASE Replayed(o, "move")
    <3>1. UNCHANGED <<board, receipts>> /\ receipts[o]["move"] = "accepted"
      BY <1>7, <2>4 DEF MoveCard, Commit, Accepted
    <3>2. exec'[o].replayed = TRUE
      BY <2>1, <2>4
    <3>3. ~Fresh(o)'
      BY <2>2, <3>2 DEF Fresh, At
    <3> QED
      BY <1>1, <1>2, <1>5, <2>1, <2>3, <3>1, <3>3, GoesOn
  <2>5. CASE ~Replayed(o, "move")
    <3>1. Taken(o, "move") /\ receipts[o]["move"] = "none"
      BY <1>4, <1>7, <2>5 DEF Committed, Rejected, Replayed
    <3>2. board.column = Source(o) /\ (Kind(o) \in Starts => board.unstarted = TRUE)
      <4>1. board.unstarted \in BOOLEAN
        BY <1>1 DEF Cards
      <4> QED
        BY <1>7, <2>5, <4>1 DEF Accepted, Changes
    <3>3. /\ board'.column = Target(o)
          /\ Kind(o) \in Starts => board'.unstarted = FALSE
          /\ Kind(o) \notin Starts => board'.unstarted = board.unstarted
      <4>1. board.unstarted \in BOOLEAN
        BY <1>1 DEF Cards
      <4>2. Card(o, "move") = [board EXCEPT !.column = Target(o),
                                            !.unstarted = @ /\ Kind(o) \notin Starts]
        BY DEF Card
      <4>3. Card(o, "move").column = Target(o)
            /\ Card(o, "move").unstarted = (board.unstarted /\ Kind(o) \notin Starts)
        BY <1>1, <4>2 DEF Cards
      <4> QED
        BY <3>1, <4>1, <4>3 DEF Taken
    <3>4. /\ Kind(o) \in Starts => Source(o) = "review" /\ Target(o) = "in_progress"
          /\ Kind(o) = "restore" => Source(o) = "trash" /\ Target(o) = "review"
          /\ Kind(o) = "trash" => Source(o) = journal[o].source /\ Target(o) = "trash"
      BY DEF Source, Target, Starts
    <3>5. /\ Kind(o) \in Starts \/ Kind(o) = "restore" \/ Kind(o) = "trash"
          /\ Kind(o) \in Starts => Kind(o) # "restore" /\ Kind(o) # "trash"
      BY <1>3 DEF Moving, Starts
    <3>6. CardFacts'
      BY <1>1, <1>2, <3>2, <3>3, <3>4, <3>5, <1>3 DEF CardFacts, Work
    <3>7. /\ receipts'[o]["compensate"] = "none" /\ receipts'[o]["move"] = "accepted"
          /\ receipts'[o]["delete"] = receipts[o]["delete"]
      <4>1. receipts[o]["compensate"] = "none"
        BY <1>1, <3>1 DEF Running, MoveFacts
      <4> QED
        BY <1>4, <3>1, <4>1 DEF Committed, Taken, Steps
    <3>8. MoveFacts(o)'
      <4>1. Kind(o) \in Starts => session.process = Nobody
        BY <1>1, <3>2 DEF CardFacts
      <4>2. Kind(o) = "trash" /\ board.unstarted = TRUE => journal[o].source = "review"
        BY <1>1, <1>3, <3>2, <3>4 DEF CardFacts, Work
      <4>3. board'.column # "none"
        BY <3>3, <3>4, <3>5
      <4> QED
        BY <1>2, <1>3, <3>3, <3>4, <3>5, <3>7, <4>1, <4>2, <4>3 DEF MoveFacts, Moved, Kind, Work
    <3>9. StartFacts(o)'
      <4>1. Kind(o) \in Starts => launches[o] = 0
        BY <1>1, <3>1 DEF Running, StartFacts
      <4>2. exec'[o].at # "compensate"
        BY <2>2
      <4> QED
        BY <1>2, <3>7, <4>1, <4>2 DEF StartFacts, At, Kind
    <3>10. Running(o)'
      <4>1. DeleteFacts(o)' /\ ~At(o, "finish")'
        BY <1>5, <2>2, <3>7 DEF DeleteFacts, At
      <4> QED
        BY <2>3, <3>8, <3>9, <4>1 DEF Running
    <3>11. Effect(o)
      BY <1>1, <1>2, <1>4, <2>1, BoardEffect
    <3> QED
      BY <1>1, <3>6, <3>10, <3>11, Own
  <2> QED
    BY <2>4, <2>5
<1> QED
  BY <1>6, <1>7

LEMMA CompensateKeeps == ASSUME Inv, NEW o \in Operations, Compensate(o) PROVE Inv'
<1>1. /\ Running(o) /\ exec \in [Operations -> Execs] /\ spent \in Bounds /\ board \in Cards
      /\ receipts \in [Operations -> Receipts] /\ CardFacts /\ session \in Sessions
      /\ ~At(o, "idle") /\ exec[o].at = "compensate" /\ KindFacts(o) /\ "compensate" \in Steps
  BY NotRecovering, Types DEF Inv, Compensate, At, Running, Steps
<1>2. UNCHANGED <<journal, session, tree, server, spent, launches>>
  BY DEF Compensate
<1>3. Kind(o) \in Moving /\ journal[o].source \in Work
  BY <1>1 DEF KindFacts
<1>4. receipts[o]["delete"] # "accepted" /\ receipts[o]["move"] = "accepted"
  BY <1>1, <1>3 DEF Running, DeleteFacts, MoveFacts, AfterMoveStages
<1>5. ASSUME Uncompensated(o), UNCHANGED <<board, receipts>> PROVE Inv'
  <2>1. PICK outcome \in Failures : End(o, outcome)
    BY <1>5, UncompensatedFails
  <2> QED
    BY <1>1, <1>2, <1>4, <1>5, <2>1, Fails
<1>6. CASE Conflicts(o, "compensate")
  BY <1>5, <1>6 DEF Compensate
<1>7. CASE ~Conflicts(o, "compensate") /\ ~Accepted(o, "compensate")
  <2>1. Commit(o, "compensate") /\ Uncompensated(o)
    BY <1>7 DEF Compensate
  <2>2. CASE Replayed(o, "compensate")
    BY <1>5, <2>1, <2>2 DEF Commit
  <2>3. CASE ~Replayed(o, "compensate")
    <3>1. Committed(o, "compensate")
      BY <1>1, <1>3, <2>1, CommitEffect
    <3>2. Rejected(o, "compensate")
      BY <1>7, <2>3, <3>1 DEF Committed, Taken
    <3>3. PICK outcome \in Failures : End(o, outcome)
      BY <2>1, UncompensatedFails
    <3>4. Real(o, exec[o].outcome, exec[o].warned)'
      BY <1>1, <3>3, FailureReal
    <3> QED
      BY <1>1, <1>2, <3>1, <3>2, <3>3, <3>4, Outcomes1, RejectedEnds
  <2> QED
    BY <2>2, <2>3
<1>8. CASE ~Conflicts(o, "compensate") /\ Accepted(o, "compensate")
  <2>1. Commit(o, "compensate")
    BY <1>8 DEF Compensate
  <2>2. Committed(o, "compensate")
    BY <1>1, <1>3, <2>1, CommitEffect
  <2> PICK stage \in {"stop_again", "finish"} :
         stage = IF Kind(o) = "restore" /\ exec[o].outcome = "session_start_failed"
                 THEN "stop_again" ELSE "finish"
    OBVIOUS
  <2>3. Turns(o, stage, exec[o].outcome)
    <3>1. Go(o, stage) /\ stage \in Stages
      BY <1>8 DEF Compensate, Stages
    <3> QED
      BY <1>1, <3>1, Going
  <2>4. exec'[o].at = stage /\ exec'[o].outcome = exec[o].outcome
    BY <2>3 DEF Turns
  <2>5. /\ receipts'[o]["compensate"] = "accepted" /\ receipts'[o]["move"] = "accepted"
        /\ receipts'[o]["delete"] = receipts[o]["delete"]
    BY <1>4, <1>8, <2>2 DEF Committed, Taken, Rejected, Accepted, Replayed, Steps
  <2>6. /\ Kind(o) \in Starts => board'.column = "review" /\ board'.unstarted = TRUE
        /\ board'.column # "none"
        /\ CardFacts'
    <3>1. CASE Replayed(o, "compensate")
      <4>1. UNCHANGED <<board, receipts>>
        BY <2>1, <3>1 DEF Commit
      <4>2. CardFacts'
        BY <1>1, <1>2, <4>1 DEF CardFacts
      <4>3. Kind(o) \in Starts => board.column = "review" /\ board.unstarted = TRUE
        BY <1>1, <1>8, <3>1 DEF Running, StartFacts, Accepted
      <4>4. board.column # "none"
        BY <1>1, <1>4 DEF Running, MoveFacts
      <4> QED
        BY <4>1, <4>2, <4>3, <4>4
    <3>2. CASE ~Replayed(o, "compensate")
      <4>1. Taken(o, "compensate") /\ Moved(o)
        BY <1>4, <1>8, <2>2, <3>2 DEF Committed, Rejected, Replayed, Moved
      <4>2. /\ board'.column = Source(o)
            /\ Kind(o) \in Starts => board'.unstarted = TRUE
            /\ Kind(o) \notin Starts => board'.unstarted = board.unstarted
        <5>1. board.unstarted \in BOOLEAN
          BY <1>1 DEF Cards
        <5>2. Card(o, "compensate") = [board EXCEPT !.column = Source(o),
                                                    !.unstarted = @ \/ Kind(o) \in Starts]
          BY DEF Card
        <5>3. Card(o, "compensate").column = Source(o)
              /\ Card(o, "compensate").unstarted = (board.unstarted \/ Kind(o) \in Starts)
          BY <1>1, <5>2 DEF Cards
        <5> QED
          BY <4>1, <5>1, <5>3 DEF Taken
      <4>3. /\ Kind(o) \in Starts => Source(o) = "review"
            /\ Kind(o) = "restore" => Source(o) = "trash"
            /\ Kind(o) = "trash" => Source(o) = journal[o].source
        BY DEF Source, Starts
      <4>4. /\ Kind(o) \in Starts \/ Kind(o) = "restore" \/ Kind(o) = "trash"
            /\ Kind(o) \in Starts => Kind(o) # "restore" /\ Kind(o) # "trash"
            /\ Kind(o) \in {"restore", "trash"} => Kind(o) \notin Starts
        BY <1>3 DEF Moving, Starts
      <4>5. Kind(o) \in Starts => session.process = Nobody
        <5>1. ASSUME Kind(o) \in Starts, session.process = o PROVE FALSE
          <6>1. ~Launched(o)
            BY <1>1, <5>1 DEF Running, StartFacts, At
          <6>2. session.live = o
            BY <1>1, <5>1, Numbers DEF CardFacts
          <6> QED
            BY <6>1, <6>2 DEF Launched
        <5>2. Kind(o) \in Starts => session.process \in {Nobody, o}
          BY <1>1, <4>1 DEF Running, MoveFacts
        <5> QED
          BY <5>1, <5>2
      <4>6. Kind(o) = "trash" /\ board.unstarted = TRUE => journal[o].source = "review"
        BY <1>1, <4>1 DEF Running, MoveFacts
      <4>7. CardFacts' /\ board'.column # "none"
        BY <1>1, <1>2, <1>3, <4>2, <4>3, <4>4, <4>5, <4>6 DEF CardFacts, Work
      <4> QED
        BY <4>2, <4>3, <4>7
    <3> QED
      BY <3>1, <3>2
  <2>7. Running(o)'
    <3>1. KindFacts(o)'
      BY <1>1, <1>2, <2>4 DEF KindFacts, At, Kind
    <3>2. MoveFacts(o)'
      BY <1>2, <1>3, <2>5, <2>6 DEF MoveFacts, Moved, Kind
    <3>3. StartFacts(o)'
      <4>1. ~Fresh(o)' /\ ~At(o, "compensate")'
        BY <2>4 DEF Fresh, At
      <4>2. Kind(o) \in Starts => launches[o] <= 1
        BY <1>1 DEF Running, StartFacts
      <4> QED
        BY <1>2, <2>5, <2>6, <4>1, <4>2 DEF StartFacts, Kind
    <3>4. StageFacts(o)'
      BY <1>1, <1>2, <1>3, <2>4 DEF StageFacts, At, Kind, Moving, Starts
    <3>5. DeleteFacts(o)'
      BY <1>4, <2>5 DEF DeleteFacts
    <3>6. Real(o, exec[o].outcome, exec[o].warned)'
      BY <1>2, <2>5, <2>6 DEF Real, Kind
    <3> QED
      BY <3>1, <3>2, <3>3, <3>4, <3>5, <3>6 DEF Running
  <2>8. Effect(o)
    BY <1>1, <1>2, <2>2, <2>3, BoardEffect
  <2> QED
    BY <1>1, <2>6, <2>7, <2>8, Own
<1> QED
  BY <1>6, <1>7, <1>8
LEMMA DeleteCardKeeps == ASSUME Inv, NEW o \in Operations, DeleteCard(o) PROVE Inv'
<1>1. /\ Running(o) /\ exec \in [Operations -> Execs] /\ spent \in Bounds /\ board \in Cards
      /\ receipts \in [Operations -> Receipts] /\ CardFacts /\ session \in Sessions
      /\ ~At(o, "idle") /\ exec[o].at = "delete" /\ KindFacts(o) /\ StageFacts(o) /\ "delete" \in Steps
  BY NotRecovering, Types DEF Inv, DeleteCard, At, Running, Steps
<1>2. UNCHANGED <<journal, session, tree, server, spent, launches>>
  BY DEF DeleteCard
<1>3. /\ Kind(o) = "delete" /\ Kind(o) \notin Starts /\ Kind(o) \notin Moving
      /\ journal[o].source \in Work /\ journal[o].deleting = TRUE
  BY <1>1 DEF KindFacts, StageFacts, At, Starts, Moving
<1>4. Committed(o, "delete")
  BY <1>1, <1>3, CommitEffect DEF DeleteCard
<1> PICK outcome \in {"already_applied", "completed", "invalid_transition"} :
       outcome = IF Accepted(o, "delete") \/ board'.column = "none"
                 THEN IF Replayed(o, "delete") THEN "already_applied" ELSE "completed"
                 ELSE "invalid_transition"
  OBVIOUS
<1>5. End(o, outcome) /\ outcome \in Outcomes
  BY DEF DeleteCard, Outcomes, Succeeded
<1>6. Turns(o, "finish", outcome)
  BY <1>1, <1>5, Ending
<1>7. exec'[o].at = "finish" /\ exec'[o].outcome = outcome
  BY <1>6 DEF Turns
<1>8. outcome \in Succeeded <=> (Accepted(o, "delete") \/ board'.column = "none")
  BY DEF Succeeded
<1>9. ASSUME Accepted(o, "delete") => board'.column = "none"
      PROVE  Real(o, exec[o].outcome, exec[o].warned)'
  BY <1>2, <1>3, <1>7, <1>8, <1>9 DEF Real, Kind
<1>10. CASE Replayed(o, "delete")
  <2>1. UNCHANGED <<board, receipts>>
    BY <1>10 DEF DeleteCard, Commit
  <2>2. Accepted(o, "delete") <=> receipts[o]["delete"] = "accepted"
    BY <1>10 DEF Accepted
  <2>3. receipts[o]["delete"] = "accepted" => board.column = "none"
    BY <1>1 DEF Running, DeleteFacts
  <2>4. Real(o, exec[o].outcome, exec[o].warned)'
    BY <1>9, <2>1, <2>2, <2>3
  <2>5. Running(o)'
    BY <1>1, <1>2, <1>7, <1>8, <2>1, <2>2, <2>4, AtFinish DEF At
  <2> QED
    BY <1>1, <1>2, <1>6, <2>1, <2>5, OnlyTurns
<1>11. CASE Rejected(o, "delete")
  BY <1>1, <1>2, <1>4, <1>5, <1>9, <1>11, RejectedEnds DEF Rejected
<1>12. CASE Taken(o, "delete")
  <2>1. board'.column = "none" /\ board'.unstarted = FALSE /\ board'.pinned = FALSE
    <3>1. Card(o, "delete") = [board EXCEPT !.column = "none", !.unstarted = FALSE, !.pinned = FALSE]
      BY DEF Card
    <3> QED
      BY <1>1, <1>12, <3>1 DEF Taken, Cards
  <2>2. tree.head = "absent" /\ session.process = Nobody
    BY <1>1 DEF StageFacts, At, CardFacts
  <2>3. CardFacts'
    BY <1>1, <1>2, <2>1, <2>2 DEF CardFacts
  <2>4. Real(o, exec[o].outcome, exec[o].warned)'
    BY <1>9, <2>1
  <2>5. \A s \in {"move", "compensate"} : receipts'[o][s] = receipts[o][s]
    BY <1>4 DEF Committed, Steps
  <2>6. Running(o)'
    <3>1. KindFacts(o)'
      BY <1>1, <1>2, <1>7 DEF KindFacts, At, Kind
    <3>2. receipts[o]["move"] # "accepted"
      BY <1>1, <1>3 DEF Running, MoveFacts
    <3>3. MoveFacts(o)'
      BY <1>1, <1>2, <1>3, <2>5, <3>2 DEF Running, MoveFacts, Moved, Kind
    <3>4. StartFacts(o)' /\ StageFacts(o)'
      BY <1>2, <1>3, <1>7 DEF StartFacts, StageFacts, Kind, At
    <3>5. DeleteFacts(o)'
      <4>1. outcome \in Succeeded
        BY <1>8, <2>1
      <4> QED
        BY <1>2, <1>3, <1>7, <2>1, <4>1 DEF DeleteFacts, Kind, At
    <3> QED
      BY <2>4, <3>1, <3>3, <3>4, <3>5 DEF Running
  <2>7. Effect(o)
    BY <1>1, <1>2, <1>4, <1>6, BoardEffect
  <2> QED
    BY <1>1, <2>3, <2>6, <2>7, Own
<1> QED
  BY <1>4, <1>10, <1>11, <1>12 DEF Committed

LEMMA FinishWriteFailsKeeps == ASSUME Inv, NEW o \in Operations, FinishWriteFails(o) PROVE Inv'
<1>1. /\ Running(o) /\ exec \in [Operations -> Execs] /\ spent \in Bounds
      /\ ~At(o, "idle") /\ exec[o].at = "finish"
  BY NotRecovering, Types DEF Inv, FinishWriteFails, At
<1>2. UNCHANGED <<board, receipts, journal, session, tree, server, launches>> /\ spent' \in Bounds
  BY <1>1, FaultTyped DEF FinishWriteFails
<1>3. Turns(o, "idle", "")
  <2>1. Idle \in Execs /\ exec' = [exec EXCEPT ![o] = Idle] /\ Idle.at = "idle" /\ Idle.outcome = ""
    BY IdleTyped DEF FinishWriteFails, Idle
  <2> QED
    BY <1>1, <2>1 DEF Turns
<1>4. exec'[o].at = "idle"
  BY <1>3 DEF Turns
<1>5. Running(o)'
  <2>1. KindFacts(o)' /\ StageFacts(o)'
    BY <1>1, <1>2, <1>4 DEF Running, KindFacts, StageFacts, At, Kind
  <2>2. MoveFacts(o)'
    BY <1>1, <1>2, <1>4 DEF Running, MoveFacts, Moved, AfterMoveStages, Kind
  <2>3. StartFacts(o)' /\ DeleteFacts(o)'
    BY <1>1, <1>2, <1>4 DEF Running, StartFacts, DeleteFacts, Fresh, At, Kind
  <2>4. ~At(o, "finish")'
    BY <1>4 DEF At
  <2> QED
    BY <2>1, <2>2, <2>3, <2>4 DEF Running
<1> QED
  BY <1>1, <1>2, <1>3, <1>5, OnlyTurns

LEMMA FinishKeeps == ASSUME Inv, NEW o \in Operations, Finish(o) PROVE Inv'
<1>1. /\ Running(o) /\ exec \in [Operations -> Execs] /\ journal \in [Operations -> Entries]
      /\ ~At(o, "idle") /\ exec[o].at = "finish" /\ Pending(o) /\ o \notin server.recovering
  BY NotRecovering, Types DEF Inv, Finish, At
<1>2. UNCHANGED <<board, receipts, session, tree, server, spent, launches>>
  BY DEF Finish
<1>3. /\ journal' \in [Operations -> Entries]
      /\ journal'[o].status = "done" /\ Kind(o)' = Kind(o)
      /\ journal'[o].outcome = exec[o].outcome /\ journal'[o].warned = exec[o].warned
      /\ \A p \in Operations \ {o} : journal'[p] = journal[p]
  <2>1. exec[o].outcome \in Outcomes /\ exec[o].warned \in BOOLEAN /\ "review" \in Columns
    BY <1>1 DEF Execs, Columns
  <2> PICK done \in Entries :
         /\ done.status = "done" /\ done.kind = journal[o].kind
         /\ done.outcome = exec[o].outcome /\ done.warned = exec[o].warned
         /\ journal' = [journal EXCEPT ![o] = done]
    <3> DEFINE e == [journal[o] EXCEPT !.status = "done", !.outcome = exec[o].outcome,
                     !.warned = exec[o].warned, !.deleting = FALSE, !.expected = 0, !.source = "review"]
    <3>1. journal[o] \in Entries
      BY <1>1
    <3>2. e \in Entries /\ e.status = "done" /\ e.kind = journal[o].kind
          /\ e.outcome = exec[o].outcome /\ e.warned = exec[o].warned
      BY <2>1, <3>1 DEF Entries
    <3>3. journal' = [journal EXCEPT ![o] = e]
      BY <1>1 DEF Finish
    <3> HIDE DEF e
    <3> QED
      BY <3>2, <3>3
  <2> QED
    BY <1>1 DEF Kind
<1>4. exec' \in [Operations -> Execs] /\ exec'[o].at = "idle"
      /\ \A p \in Operations \ {o} : exec'[p] = exec[p]
  <2>1. Idle \in Execs /\ exec' = [exec EXCEPT ![o] = Idle] /\ Idle.at = "idle"
    BY IdleTyped DEF Finish, Idle
  <2> QED
    BY <1>1, <2>1
<1>5. TypeOK'
  <2>1. /\ board \in Cards /\ receipts \in [Operations -> Receipts] /\ session \in Sessions
        /\ tree \in Trees /\ server \in Servers /\ spent \in Bounds /\ launches \in [Operations -> Nat]
    BY Types DEF Inv
  <2> QED
    BY <1>2, <1>3, <1>4, <2>1 DEF TypeOK, Cards, Receipts, Entries, Execs, Sessions, Trees, Servers, Bounds
<1>6. CardFacts'
  BY <1>2 DEF Inv, CardFacts
<1>7. \A p \in Operations \ {o} : ~Pending(p)' /\ (Done(p)' => Done(p) /\ p < o)
  BY <1>1, <1>3, OnePending DEF Pending, Done
<1>8. ~Pending(o)' /\ \A p \in Operations : journal'[p].status = "absent" <=> journal[p].status = "absent"
  BY <1>1, <1>3 DEF Pending
<1>9. Order'
  <2>1. \A p \in Operations : ~Pending(p)
           => At(p, "idle") /\ p \notin server.recovering
    BY DEF Inv, Order
  <2>2. \A p \in Operations : At(p, "idle")'
    BY <1>1, <1>4, <2>1, OnePending DEF At
  <2>3. server.recovering = {}
    <3>1. server.recovering \subseteq Operations
      BY Types DEF Inv, Servers
    <3> QED
      BY <1>1, <2>1, <3>1, OnePending
  <2>4. \A p \in Operations : ~Pending(p)'
    BY <1>7, <1>8
  <2> QED
    BY <1>2, <1>8, <2>2, <2>3, <2>4 DEF Inv, Order
<1>10. ASSUME NEW p \in Operations \ {o}, Done(p)' PROVE Reported(p)'
  <2>1. Reported(p) /\ o > p /\ journal'[o].status # "absent"
    BY <1>3, <1>7, <1>10, Numbers DEF Inv
  <2> QED
    BY <1>2, <1>3, <1>10, <2>1 DEF Reported, Kind
<1>11. Reported(o)'
  <2>1. Kind(o) \in Starts => launches[o] <= 1
    BY <1>1 DEF Running, StartFacts
  <2>2. receipts[o]["delete"] = "accepted" => exec[o].outcome \in Succeeded \cup {"internal_error"}
    BY <1>1 DEF Running, DeleteFacts, At
  <2>3. Real(o, exec[o].outcome, exec[o].warned)
    BY <1>1 DEF Running, At
  <2>4. Real(o, journal[o].outcome, journal[o].warned)'
    BY <1>2, <1>3, <2>3 DEF Real
  <2> QED
    BY <1>2, <1>3, <2>1, <2>2, <2>4 DEF Reported
<1> QED
  BY <1>5, <1>6, <1>7, <1>8, <1>9, <1>10, <1>11 DEF Inv
-----------------------------------------------------------------------------
(* Clients and the runtime around the operations                           *)

(* What happens to the card and the process beside the operations.         *)
Beside ==
    /\ UNCHANGED <<receipts, journal, exec, tree, server, launches>>
    /\ board' \in Cards /\ session' \in Sessions /\ spent' \in Bounds
    /\ board'.unstarted = board.unstarted
    /\ \/ board'.column = board.column
       \/ board.column \in Work /\ board'.column \in Work /\ board.unstarted = FALSE
    /\ board'.pinned = FALSE \/ board.pinned = TRUE \/ (PinAllowed /\ board.column # "none")
    /\ session'.process \in {session.process, Nobody} /\ session'.live = session.live
    /\ session'.saved \in {session.saved, session.live}

LEMMA BesideKeeps == ASSUME Inv, Beside PROVE Inv'
<1>1. TypeOK'
  <2>1. /\ receipts \in [Operations -> Receipts] /\ journal \in [Operations -> Entries]
        /\ exec \in [Operations -> Execs] /\ tree \in Trees /\ server \in Servers
        /\ launches \in [Operations -> Nat]
    BY Types DEF Inv
  <2> QED
    BY <2>1 DEF Beside, TypeOK, Cards, Receipts, Entries, Execs, Sessions, Trees, Servers, Bounds
<1>2. Order'
  BY DEF Inv, Order, Beside, Pending, At
<1>3. /\ board'.unstarted = board.unstarted
      /\ \/ board'.column = board.column
         \/ board.column \in Work /\ board'.column \in Work /\ board.unstarted = FALSE
      /\ session'.process \in {session.process, Nobody} /\ session'.live = session.live
      /\ session'.saved \in {session.saved, session.live}
      /\ UNCHANGED <<receipts, journal, exec, tree, server, launches>>
  BY DEF Beside
<1>4. CardFacts'
  <2>1. board'.column = "none" => board.column = "none"
    BY <1>3 DEF Work
  <2>2. board.column = "none" => board'.pinned = FALSE
    <3>1. board'.pinned \in BOOLEAN
      BY DEF Beside, Cards
    <3> QED
      BY <3>1 DEF Beside, Inv, CardFacts
  <2> QED
    BY <1>3, <2>1, <2>2 DEF Inv, CardFacts
<1>6. ASSUME NEW o \in Operations, Pending(o) PROVE Running(o)'
  <2>1. Running(o)
    BY <1>6 DEF Inv
  <2>2. KindFacts(o)'
    BY <1>3, <2>1 DEF Running, KindFacts, At, Kind
  <2>3. MoveFacts(o)'
    BY <1>3, <2>1 DEF Running, MoveFacts, Moved, Kind, Work
  <2>4. StartFacts(o)'
    BY <1>3, <2>1 DEF Running, StartFacts, Fresh, At, Kind, Launched
  <2>5. StageFacts(o)'
    <3>1. Kind(o) = "delete" => board'.pinned = FALSE \/ board.pinned = TRUE
      BY <1>6 DEF Beside, PinAllowed
    <3>2. exec[o].at \in {"purge", "mark_deleting", "delete"} => Kind(o) = "delete"
      BY <2>1 DEF Running, KindFacts
    <3>3. board.column = "trash" => board'.column = "trash"
      BY <1>3 DEF Work
    <3>4. board.column = "none" => board'.column = "none"
      BY <1>3 DEF Work
    <3>5. board.column \in Work => board'.column \in Work
      BY <1>3
    <3>6. Kind(o) = "delete" /\ board.pinned = FALSE => board'.pinned = FALSE
      BY <3>1
    <3>7. session.process = Nobody => session'.process = Nobody
      BY <1>3
    <3> QED
      BY <1>3, <2>1, <3>2, <3>3, <3>4, <3>5, <3>6, <3>7 DEF Running, StageFacts, At, Kind
  <2>6. DeleteFacts(o)'
    BY <1>3, <2>1 DEF Running, DeleteFacts, Kind, At, Work
  <2>7. ASSUME At(o, "finish")' PROVE Real(o, exec[o].outcome, exec[o].warned)'
    <3>1. At(o, "finish")
      BY <1>3, <2>7 DEF At
    <3>2. Real(o, exec[o].outcome, exec[o].warned)
      BY <2>1, <3>1 DEF Running
    <3> QED
      BY <1>3, <3>2 DEF Real, Kind, Work
  <2> QED
    BY <2>2, <2>3, <2>4, <2>5, <2>6, <2>7 DEF Running
<1>7. ASSUME NEW o \in Operations, Done(o) PROVE Reported(o)'
  <2>1. Reported(o)
    BY <1>7 DEF Inv
  <2>2. Real(o, journal[o].outcome, journal[o].warned) => Real(o, journal[o].outcome, journal[o].warned)'
    BY <1>3 DEF Real, Kind, Work
  <2> QED
    BY <1>3, <2>1, <2>2 DEF Reported, Kind
<1>8. \A o \in Operations : (Pending(o)' <=> Pending(o)) /\ (Done(o)' <=> Done(o))
  BY <1>3 DEF Pending, Done
<1> QED
  BY <1>1, <1>2, <1>4, <1>6, <1>7, <1>8 DEF Inv

LEMMA EditTyped ==
    ASSUME spent \in Bounds, Edit PROVE spent' \in Bounds
<1>1. spent.edits \in 0 .. MaxEdits /\ spent.edits < MaxEdits
  BY DEF Edit, Bounds
<1>2. spent.edits + 1 \in 0 .. MaxEdits
  BY <1>1, Numbers
<1> QED
  BY <1>2 DEF Edit, Bounds

LEMMA ClientsKeep ==
    ASSUME Inv, UnrelatedCommit \/ TogglePin \/ ClientMove \/ PersistSessions \/ ProcessExits
    PROVE  Inv'
<1>1. board \in Cards /\ session \in Sessions /\ spent \in Bounds /\ board.pinned \in BOOLEAN
      /\ board.unstarted \in BOOLEAN /\ CardFacts
  BY Types DEF Inv, Cards
<1> PICK next \in Nat : next = board.revision + 1
  BY <1>1 DEF Cards
<1>2. CASE UnrelatedCommit
  <2>1. board' = [board EXCEPT !.revision = @ + 1] /\ Edit
        /\ UNCHANGED <<receipts, journal, exec, session, tree, server, launches>>
    BY <1>2 DEF UnrelatedCommit
  <2>2. board' \in Cards /\ board'.column = board.column /\ board'.unstarted = board.unstarted
        /\ board'.pinned = board.pinned
    BY <1>1, <2>1 DEF Cards
  <2>3. Beside
    BY <1>1, <2>1, <2>2, EditTyped DEF Beside
  <2> QED
    BY <2>3, BesideKeeps
<1>3. CASE TogglePin
  <2>1. /\ board' = [board EXCEPT !.pinned = ~@, !.revision = @ + 1] /\ Edit
        /\ UNCHANGED <<receipts, journal, exec, session, tree, server, launches>>
        /\ board.column # "none" /\ (board.pinned = TRUE \/ PinAllowed)
    BY <1>1, <1>3 DEF TogglePin
  <2> PICK flag \in BOOLEAN : flag = ~board.pinned
    BY <1>1
  <2>2. board' \in Cards /\ board'.column = board.column /\ board'.unstarted = board.unstarted
    <3>1. board' = [board EXCEPT !.pinned = flag, !.revision = next]
      BY <2>1
    <3> QED
      BY <1>1, <3>1 DEF Cards
  <2>3. Beside
    BY <1>1, <2>1, <2>2, EditTyped DEF Beside
  <2> QED
    BY <2>3, BesideKeeps
<1>4. CASE ClientMove
  <2>1. /\ board' = [board EXCEPT !.column = "review", !.revision = @ + 1] /\ Edit
        /\ UNCHANGED <<receipts, journal, exec, session, tree, server, launches>>
        /\ board.column = "in_progress"
    BY <1>4 DEF ClientMove
  <2>2. board' \in Cards /\ board'.column = "review" /\ board'.unstarted = board.unstarted
        /\ board'.pinned = board.pinned
    <3>1. board' = [board EXCEPT !.column = "review", !.revision = next]
      BY <2>1
    <3> QED
      BY <1>1, <3>1 DEF Cards, Columns
  <2>3. board.unstarted = FALSE
    BY <1>1, <2>1 DEF CardFacts
  <2>4. Beside
    BY <1>1, <2>1, <2>2, <2>3, EditTyped DEF Beside, Work
  <2> QED
    BY <2>4, BesideKeeps
<1>5. CASE PersistSessions
  <2>1. /\ session' = [session EXCEPT !.saved = session.live]
        /\ UNCHANGED <<receipts, journal, exec, tree, server, launches>>
    BY <1>5 DEF PersistSessions
  <2>2. session' \in Sessions /\ session'.process = session.process /\ session'.live = session.live
        /\ session'.saved = session.live
    BY <1>1, <2>1 DEF Sessions
  <2>3. CASE UNCHANGED <<board, spent>>
    <3>1. Beside
      BY <1>1, <2>1, <2>2, <2>3 DEF Beside
    <3> QED
      BY <3>1, BesideKeeps
  <2>4. CASE /\ board.column \in Work /\ ~board.unstarted /\ Edit
             /\ board' = [board EXCEPT !.revision = @ + 1,
                     !.column = IF @ = "review" THEN "in_progress" ELSE "review"]
    <3>1. board' \in Cards /\ board'.column \in Work /\ board'.unstarted = board.unstarted
          /\ board'.pinned = board.pinned
      <4> PICK column \in Work :
             column = IF board.column = "review" THEN "in_progress" ELSE "review"
        BY DEF Work
      <4>1. board' = [board EXCEPT !.revision = next, !.column = column]
        BY <2>4
      <4> QED
        BY <1>1, <4>1 DEF Cards, Columns, Work
    <3>2. Beside
      BY <1>1, <2>1, <2>2, <2>4, <3>1, EditTyped DEF Beside
    <3> QED
      BY <3>2, BesideKeeps
  <2> QED
    BY <1>5, <2>3, <2>4 DEF PersistSessions, Work
<1>6. CASE ProcessExits
  <2>1. /\ session' = [session EXCEPT !.process = Nobody]
        /\ UNCHANGED <<board, receipts, journal, exec, tree, server, spent, launches>>
    BY <1>6 DEF ProcessExits
  <2>2. session' \in Sessions /\ session'.process = Nobody /\ session'.live = session.live
        /\ session'.saved = session.saved
    BY <1>1, <2>1 DEF Sessions
  <2>3. Beside
    BY <1>1, <2>1, <2>2 DEF Beside
  <2> QED
    BY <2>3, BesideKeeps
<1> QED
  BY <1>2, <1>3, <1>4, <1>5, <1>6

(* The runtime exits: what it ran is gone, what is durable is not.         *)
LEMMA CrashKeeps == ASSUME Inv, Crash PROVE Inv'
<1>1. /\ session \in Sessions /\ spent \in Bounds /\ Idle \in Execs
      /\ board \in Cards /\ receipts \in [Operations -> Receipts] /\ journal \in [Operations -> Entries]
      /\ tree \in Trees /\ launches \in [Operations -> Nat] /\ CardFacts
  BY IdleTyped, Types DEF Inv
<1>2. /\ UNCHANGED <<board, receipts, journal, tree, launches>>
      /\ exec' = [o \in Operations |-> Idle]
      /\ session' = [session EXCEPT !.process = Nobody, !.live = session.saved]
      /\ server' = [serving |-> FALSE, recovering |-> {o \in Operations : Pending(o)}]
  BY DEF Crash
<1>3. exec' \in [Operations -> Execs] /\ \A o \in Operations : exec'[o].at = "idle"
  BY <1>1, <1>2 DEF Idle
<1>4. session' \in Sessions /\ session'.process = Nobody
  BY <1>1, <1>2 DEF Sessions
<1>5. server' \in Servers /\ server'.serving = FALSE
      /\ server'.recovering = {o \in Operations : Pending(o)}
  BY <1>2 DEF Servers
<1>6. spent' \in Bounds
  <2>1. spent.crashes \in 0 .. MaxCrashes /\ spent.crashes < MaxCrashes
    BY <1>1 DEF Crash, Bounds
  <2>2. spent.crashes + 1 \in 0 .. MaxCrashes
    BY <2>1, Numbers
  <2> QED
    BY <1>1, <2>2 DEF Crash, Bounds
<1>7. TypeOK'
  BY <1>1, <1>2, <1>3, <1>4, <1>5, <1>6
  DEF TypeOK, Cards, Receipts, Entries, Execs, Sessions, Trees, Servers, Bounds
<1>8. Order'
  BY <1>2, <1>3, <1>5 DEF Inv, Order, Pending, At
<1>9. CardFacts'
  BY <1>1, <1>2, <1>4 DEF CardFacts
<1>10. ASSUME NEW o \in Operations, Pending(o) PROVE Running(o)'
  <2>1. Running(o)
    BY <1>10 DEF Inv
  <2>2. KindFacts(o)' /\ StageFacts(o)'
    BY <1>2, <1>3, <2>1 DEF Running, KindFacts, StageFacts, At, Kind
  <2>3. MoveFacts(o)'
    BY <1>2, <1>3, <1>4, <2>1 DEF Running, MoveFacts, Moved, AfterMoveStages, Kind
  <2>4. StartFacts(o)' /\ DeleteFacts(o)'
    BY <1>2, <1>3, <2>1 DEF Running, StartFacts, DeleteFacts, Fresh, At, Kind
  <2>5. ~At(o, "finish")'
    BY <1>3 DEF At
  <2> QED
    BY <2>2, <2>3, <2>4, <2>5 DEF Running
<1>11. ASSUME NEW o \in Operations, Done(o) PROVE Reported(o)'
  <2>1. Reported(o)
    BY <1>11 DEF Inv
  <2>2. Real(o, journal[o].outcome, journal[o].warned) => Real(o, journal[o].outcome, journal[o].warned)'
    BY <1>2, <1>4 DEF Real, Kind
  <2> QED
    BY <1>2, <2>1, <2>2 DEF Reported, Kind
<1> QED
  BY <1>2, <1>7, <1>8, <1>9, <1>10, <1>11 DEF Inv, Pending, Done
(* Start-up goes on without an operation taking a step.                    *)
LEMMA StartUpKeeps == ASSUME Inv, SkipRecovery \/ Serve PROVE Inv'
<1>1. UNCHANGED <<board, receipts, journal, exec, session, tree, launches>>
  BY DEF SkipRecovery, Serve
<1>2. /\ board \in Cards /\ receipts \in [Operations -> Receipts] /\ journal \in [Operations -> Entries]
      /\ exec \in [Operations -> Execs] /\ session \in Sessions /\ tree \in Trees
      /\ server \in Servers /\ spent \in Bounds /\ launches \in [Operations -> Nat]
  BY Types DEF Inv
<1>3. server' \in Servers /\ server'.recovering = {}
  BY <1>2 DEF SkipRecovery, Serve, Servers
<1>4. spent' \in Bounds
  BY <1>2, FaultTyped DEF SkipRecovery, Serve
<1>5. TypeOK'
  BY <1>1, <1>2, <1>3, <1>4
  DEF TypeOK, Cards, Receipts, Entries, Execs, Sessions, Trees, Servers, Bounds
<1>6. Order'
  BY <1>1, <1>3 DEF Inv, Order, Pending, At
<1>7. CardFacts'
  BY <1>1 DEF Inv, CardFacts
<1>8. ASSUME NEW o \in Operations, Pending(o) PROVE Running(o)'
  <2>1. Running(o)
    BY <1>8 DEF Inv
  <2> QED
    BY <1>1, <2>1 DEF Running, KindFacts, MoveFacts, Moved, StartFacts, Fresh, StageFacts, DeleteFacts,
                      Real, At, Kind, Launched
<1>9. ASSUME NEW o \in Operations, Done(o) PROVE Reported(o)'
  <2>1. Reported(o)
    BY <1>9 DEF Inv
  <2> QED
    BY <1>1, <2>1 DEF Reported, Real, Kind
<1> QED
  BY <1>1, <1>5, <1>6, <1>7, <1>8, <1>9 DEF Inv, Pending, Done

LEMMA Starting ==
    ASSUME exec \in [Operations -> Execs], NEW o \in Operations, NEW j \in Entries, Start(o, j)
    PROVE  /\ exec' \in [Operations -> Execs]
           /\ exec'[o].at = IF j.kind = "create_and_start" THEN "create" ELSE "validate"
           /\ \A p \in Operations \ {o} : exec'[p] = exec[p]
<1> PICK stage \in {"create", "validate"} :
        stage = IF j.kind = "create_and_start" THEN "create" ELSE "validate"
  OBVIOUS
<1>1. exec' = [exec EXCEPT ![o] = [Idle EXCEPT !.base = j.expected, !.at = stage]]
  BY DEF Start
<1>2. j.expected \in Nat /\ Idle \in Execs /\ stage \in Stages
  BY IdleTyped DEF Entries, Stages
<1>3. [Idle EXCEPT !.base = j.expected, !.at = stage] \in Execs
  BY <1>2 DEF Execs
<1>4. [Idle EXCEPT !.base = j.expected, !.at = stage].at = stage
  BY <1>2 DEF Execs
<1> QED
  BY <1>1, <1>3, <1>4

(* A pending operation is taken up again, by the client or by recovery.    *)
LEMMA TakeUpKeeps ==
    ASSUME Inv, NEW o \in Operations, Resubmit(o) \/ Recover(o) PROVE Inv'
<1>1. /\ board \in Cards /\ receipts \in [Operations -> Receipts] /\ journal \in [Operations -> Entries]
      /\ exec \in [Operations -> Execs] /\ session \in Sessions /\ tree \in Trees
      /\ server \in Servers /\ spent \in Bounds /\ launches \in [Operations -> Nat]
  BY Types DEF Inv
<1>2. Pending(o) /\ At(o, "idle") /\ Start(o, journal[o]) /\ Running(o)
      /\ UNCHANGED <<board, receipts, journal, session, tree, spent, launches>>
  BY DEF Inv, Order, Resubmit, Recover
<1>3. server' \in Servers /\ server'.serving = server.serving
      /\ server'.recovering \subseteq server.recovering \ {o}
  <2>1. CASE Resubmit(o)
    <3>1. server.serving = TRUE
      BY <1>1, <2>1 DEF Resubmit, Servers
    <3>2. server.recovering = {}
      BY <3>1 DEF Inv, Order
    <3> QED
      BY <1>1, <2>1, <3>2 DEF Resubmit
  <2>2. CASE Recover(o)
    BY <1>1, <2>2 DEF Recover, Servers
  <2> QED
    BY <2>1, <2>2
<1>4. /\ exec' \in [Operations -> Execs]
      /\ exec'[o].at = IF Kind(o) = "create_and_start" THEN "create" ELSE "validate"
      /\ \A p \in Operations \ {o} : exec'[p] = exec[p]
  BY <1>1, <1>2, Starting DEF Kind
<1>5. TypeOK'
  BY <1>1, <1>2, <1>3, <1>4
  DEF TypeOK, Cards, Receipts, Entries, Execs, Sessions, Trees, Servers, Bounds
<1>6. CardFacts' /\ Others(o) /\ Pending(o)'
  BY <1>2, <1>4 DEF Inv, CardFacts, Others, Pending
<1>7. Running(o)'
  <2>1. KindFacts(o)' /\ StageFacts(o)'
    BY <1>2, <1>4 DEF Running, KindFacts, StageFacts, At, Kind
  <2>2. MoveFacts(o)'
    BY <1>2, <1>4 DEF Running, MoveFacts, Moved, AfterMoveStages, Kind
  <2>3. StartFacts(o)'
    BY <1>2, <1>4 DEF Running, StartFacts, Fresh, At, Kind
  <2>4. DeleteFacts(o)' /\ ~At(o, "finish")'
    BY <1>2, <1>4 DEF Running, DeleteFacts, At, Kind
  <2> QED
    BY <2>1, <2>2, <2>3, <2>4 DEF Running
<1> QED
  BY <1>3, <1>5, <1>6, <1>7, <1>2, OwnStep

(* A new operation: nothing is pending, and it has done nothing yet.       *)
LEMMA BeginKeeps ==
    ASSUME Inv, NEW o \in Operations, NEW kind \in Kinds, NEW source \in Work,
           NEW expected \in Nat, Begin(o, kind, source, expected)
    PROVE  Inv'
<1>1. /\ board \in Cards /\ receipts \in [Operations -> Receipts] /\ journal \in [Operations -> Entries]
      /\ exec \in [Operations -> Execs] /\ session \in Sessions /\ tree \in Trees
      /\ server \in Servers /\ spent \in Bounds /\ launches \in [Operations -> Nat]
  BY Types DEF Inv
<1> DEFINE j == [Absent EXCEPT !.status = "pending", !.kind = kind, !.source = source,
                               !.expected = expected]
<1>2. /\ j \in Entries /\ j.status = "pending" /\ j.kind = kind /\ j.source = source
      /\ j.deleting = FALSE
  BY DEF Absent, Entries, Columns, Work, Outcomes, Succeeded
<1>3. /\ journal[o].status = "absent" /\ server.serving = TRUE
      /\ \A p \in Operations : p < o => journal[p].status # "absent"
      /\ \A p \in Operations : ~Pending(p)
      /\ journal' = [journal EXCEPT ![o] = j] /\ Start(o, j)
      /\ UNCHANGED <<board, receipts, session, tree, server, spent, launches>>
  BY <1>1 DEF Begin, Servers
<1> HIDE DEF j
<1>4. /\ exec' \in [Operations -> Execs]
      /\ exec'[o].at = IF kind = "create_and_start" THEN "create" ELSE "validate"
      /\ \A p \in Operations \ {o} : exec'[p] = exec[p]
  BY <1>1, <1>2, <1>3, Starting
<1>5. /\ journal' \in [Operations -> Entries] /\ journal'[o] = j
      /\ \A p \in Operations \ {o} : journal'[p] = journal[p]
  BY <1>1, <1>2, <1>3
<1>6. TypeOK'
  BY <1>1, <1>3, <1>4, <1>5
  DEF TypeOK, Cards, Receipts, Entries, Execs, Sessions, Trees, Servers, Bounds
<1>7. CardFacts'
  BY <1>3 DEF Inv, CardFacts
<1>8. launches[o] = 0 /\ \A s \in Steps : receipts[o][s] = "none"
  BY <1>3 DEF Inv, Order
<1>9. \A p \in Operations \ {o} : journal[p].status # "absent" => p < o
  <2>1. ASSUME NEW p \in Operations, o < p, journal[p].status # "absent" PROVE FALSE
    BY <1>3, <2>1 DEF Inv, Order
  <2>2. \A p \in Operations \ {o} : p < o \/ o < p
    BY Numbers
  <2> QED
    BY <2>1, <2>2
<1>10. Order'
  <2>1. server.recovering = {}
    BY <1>3 DEF Inv, Order
  <2>2. \A p, q \in Operations :
           p < q /\ journal'[q].status # "absent" => journal'[p].status # "absent"
    BY <1>2, <1>3, <1>5 DEF Inv, Order
  <2>3. \A p \in Operations : Pending(p)' => p = o
    BY <1>3, <1>5 DEF Pending
  <2>4. \A p \in Operations : p > o => journal'[p].status = "absent"
    BY <1>5, <1>9, Numbers
  <2>5. \A p \in Operations : ~Pending(p)' => At(p, "idle")'
    BY <1>2, <1>3, <1>4, <1>5 DEF Inv, Order, Pending, At
  <2>6. \A p \in Operations : journal'[p].status = "absent" =>
           launches[p] = 0 /\ \A s \in Steps : receipts[p][s] = "none"
    BY <1>2, <1>5 DEF Inv, Order
  <2> QED
    BY <1>3, <2>1, <2>2, <2>3, <2>4, <2>5, <2>6 DEF Order
<1>11. Running(o)'
  <2>1. Kind(o)' = kind /\ journal'[o].source = source /\ journal'[o].deleting = FALSE
    BY <1>2, <1>5 DEF Kind
  <2>2. /\ receipts'[o]["move"] = "none" /\ receipts'[o]["compensate"] = "none"
        /\ receipts'[o]["delete"] = "none" /\ launches'[o] = 0
    BY <1>3, <1>8 DEF Steps
  <2>3. KindFacts(o)' /\ StageFacts(o)'
    BY <1>4, <2>1 DEF KindFacts, StageFacts, At
  <2>4. MoveFacts(o)'
    BY <1>4, <2>2 DEF MoveFacts, Moved, AfterMoveStages
  <2>5. StartFacts(o)' /\ DeleteFacts(o)' /\ ~At(o, "finish")'
    BY <1>4, <2>2 DEF StartFacts, DeleteFacts, Fresh, At
  <2> QED
    BY <2>3, <2>4, <2>5 DEF Running
<1>12. ASSUME NEW p \in Operations \ {o}, Done(p)' PROVE Reported(p)'
  <2>1. Reported(p) /\ o > p /\ journal'[o].status # "absent"
    BY <1>2, <1>5, <1>9, <1>12, Numbers DEF Inv, Done
  <2> QED
    BY <1>3, <1>5, <1>12, <2>1 DEF Reported, Kind
<1> QED
  BY <1>2, <1>3, <1>5, <1>6, <1>7, <1>10, <1>11, <1>12 DEF Inv, Pending, Done
-----------------------------------------------------------------------------
(* The theorems                                                            *)

LEMMA RunKeeps == ASSUME Inv, NEW o \in Operations, Run(o) PROVE Inv'
<1>1. CASE \E step \in {"create", "move", "delete"} : Conflict(o, step)
  BY <1>1, ConflictKeeps
<1>2. CASE Validate(o) \/ CreateCard(o) \/ MoveCard(o) \/ AfterMove(o) \/ Stop(o) \/ Reattach(o)
  BY <1>2, ValidateKeeps, CreateCardKeeps, MoveCardKeeps, AfterMoveKeeps, StopKeeps, ReattachKeeps
<1>3. CASE Consume(o) \/ Ensure(o) \/ Refuse(o) \/ Launch(o) \/ AfterFailure(o) \/ Look(o)
  BY <1>3, ConsumeKeeps, EnsureKeeps, RefuseKeeps, LaunchKeeps, AfterFailureKeeps, LookKeeps
<1>4. CASE Compensate(o) \/ StopAgain(o) \/ SaveBranch(o) \/ Detach(o)
  BY <1>4, CompensateKeeps, StopAgainKeeps, SaveBranchKeeps, DetachKeeps
<1>5. CASE Purge(o) \/ MarkDeleting(o) \/ DeleteCard(o) \/ Finish(o)
  BY <1>5, PurgeKeeps, MarkDeletingKeeps, DeleteCardKeeps, FinishKeeps
<1> QED
  BY <1>1, <1>2, <1>3, <1>4, <1>5 DEF Run

LEMMA FaultsKeep == ASSUME Inv, NEW o \in Operations, Faults(o) PROVE Inv'
BY StopFailsKeeps, RefuseKeeps, PhaseWriteFailsKeeps, FinishWriteFailsKeeps DEF Faults

LEMMA RequestKeeps == ASSUME Inv, NEW o \in Operations, Request(o) PROVE Inv'
<1>1. CASE Resubmit(o)
  BY <1>1, TakeUpKeeps
<1>2. CASE \E kind \in Kinds, source \in Work, expected \in 0 .. board.revision :
              Begin(o, kind, source, expected)
  <2>1. 0 .. board.revision \subseteq Nat
    OBVIOUS
  <2> QED
    BY <1>2, <2>1, BeginKeeps
<1> QED
  BY <1>1, <1>2 DEF Request, Work

LEMMA StepKeeps == Inv /\ [Next]_vars => Inv'
<1> SUFFICES ASSUME Inv, [Next]_vars PROVE Inv'
  OBVIOUS
<1>1. CASE Around
  BY <1>1, ClientsKeep, CrashKeeps, StartUpKeeps DEF Around
<1>2. ASSUME NEW o \in Operations, Run(o) \/ Faults(o) \/ Request(o) \/ Recover(o) PROVE Inv'
  BY <1>2, RunKeeps, FaultsKeep, RequestKeeps, TakeUpKeeps
<1>3. CASE UNCHANGED vars
  BY <1>3 DEF vars, Inv, TypeOK, Order, CardFacts, Running, Reported, KindFacts, MoveFacts, Moved,
     StartFacts, Fresh, StageFacts, DeleteFacts, Real, Pending, Done, At, Kind, Launched
<1> QED
  BY <1>1, <1>2, <1>3 DEF Next

(* The invariant of the journal, the card, the process and the worktree    *)
(* holds in every reachable state.                                         *)
THEOREM InvariantHolds == Spec => []Inv
<1>1. Init => Inv
  BY InitInv
<1> QED
  BY <1>1, StepKeeps, PTL DEF Spec

(* The board, the journal, the stages and the worktree keep their types:   *)
(* no step of project-task-lifecycle-service.ts reaches a stage, an        *)
(* outcome or a column that the code does not know.                        *)
THEOREM TypeCorrect == Spec => []TypeOK
<1>1. Inv => TypeOK
  BY DEF Inv
<1> QED
  BY <1>1, InvariantHolds, PTL

(* A start launches at most one process, and a card that is marked         *)
(* unstarted has none, whatever is lost, crashed, replayed or resubmitted  *)
(* (launchOrCompensate and compensateMove).                                *)
THEOREM StartsOnce == Spec => []StartsLaunchOnce
<1>1. ASSUME Inv PROVE StartsLaunchOnce
  <2>1. ASSUME NEW o \in Operations, Kind(o) \in Starts PROVE launches[o] <= 1
    <3>1. journal[o].status \in {"absent", "pending", "done"}
      BY <1>1, Types DEF Inv, Entries
    <3>2. CASE Pending(o)
      BY <1>1, <2>1, <3>2 DEF Inv, Running, StartFacts
    <3>3. CASE Done(o)
      BY <1>1, <2>1, <3>3 DEF Inv, Reported
    <3>4. CASE journal[o].status = "absent"
      BY <1>1, <3>4 DEF Inv, Order
    <3> QED
      BY <3>1, <3>2, <3>3, <3>4 DEF Pending, Done
  <2>2. board.unstarted => session.process = Nobody
    <3>1. board.unstarted \in BOOLEAN
      BY <1>1, Types DEF Inv, Cards
    <3>2. board.unstarted = TRUE => session.process = Nobody
      BY <1>1 DEF Inv, CardFacts
    <3> QED
      BY <3>1, <3>2
  <2> QED
    BY <2>1, <2>2 DEF StartsLaunchOnce
<1> QED
  BY <1>1, InvariantHolds, PTL

(* What an operation reported (completeWithSummary, finish) is what the    *)
(* board, the process and the worktree say until another begins; a start   *)
(* that was taken back left an unstarted card in Review.                   *)
THEOREM OutcomesHold == Spec => []OutcomeIsReal
<1>1. ASSUME Inv PROVE OutcomeIsReal
  <2>1. ASSUME NEW o \in Operations, Latest(o) PROVE Real(o, journal[o].outcome, journal[o].warned)
    BY <1>1, <2>1 DEF Inv, Latest, Reported
  <2>2. board.unstarted \in BOOLEAN /\ \A o \in Operations : journal[o].warned \in BOOLEAN
    BY <1>1, Types DEF Inv, Cards, Entries
  <2>3. board.column = "none" => tree.head = "absent" /\ session.process = Nobody
    BY <1>1 DEF Inv, CardFacts
  <2>4. ASSUME NEW o \in Operations, Latest(o), journal[o].outcome \in Succeeded,
               receipts[o]["compensate"] = "none"
        PROVE  CASE Kind(o) = "trash" -> /\ board.column = "trash"
                                         /\ session.process = Nobody
                                         /\ tree.head = "attached" => journal[o].warned
                 [] Kind(o) = "restore" -> board.column \in {"review", "in_progress"}
                 [] Kind(o) = "delete" -> /\ board.column = "none"
                                          /\ tree.head = "absent"
                                          /\ session.process = Nobody
                 [] Kind(o) = "stop" -> session.process = Nobody
                 [] OTHER -> board.column # "trash" /\ ~board.unstarted
    <3>1. Real(o, journal[o].outcome, journal[o].warned)
      BY <2>1, <2>4
    <3>2. CASE Kind(o) = "trash"
      BY <2>2, <2>4, <3>1, <3>2 DEF Real
    <3>3. CASE Kind(o) = "restore"
      BY <2>4, <3>1, <3>3 DEF Real, Work
    <3>4. CASE Kind(o) = "delete"
      BY <2>3, <2>4, <3>1, <3>4 DEF Real
    <3>5. CASE Kind(o) = "stop"
      BY <2>4, <3>1, <3>5 DEF Real
    <3>6. CASE Kind(o) \notin {"trash", "restore", "delete", "stop"}
      <4>1. Kind(o) \in Starts \cup {"restart"}
        BY <1>1, <3>6, Types DEF Inv, Entries, Kinds, Kind, Starts
      <4>2. board.column \in Work /\ board.unstarted = FALSE
        BY <2>4, <3>1, <4>1 DEF Real
      <4> QED
        BY <3>6, <4>2 DEF Work
    <3> QED
      BY <3>2, <3>3, <3>4, <3>5, <3>6
  <2>5. FailedStartIsTakenBack
    <3>1. ASSUME NEW o \in Operations, Latest(o), Kind(o) \in Starts,
                 journal[o].outcome \in {"superseded", "session_start_failed"}
          PROVE  board.column = "review" /\ board.unstarted = TRUE
      BY <2>1, <3>1 DEF Real
    <3> QED
      BY <3>1 DEF FailedStartIsTakenBack
  <2> QED
    BY <2>4, <2>5 DEF OutcomeIsReal, SuccessIsReal
<1> QED
  BY <1>1, InvariantHolds, PTL

(* A deletion that happened is not denied after a restart: the marker that *)
(* MarkDeleting writes leads a recovered delete to the receipt of the card *)
(* it removed, instead of to stale_task.                                   *)
THEOREM DeletionConfirmed == Spec => []DeletionIsConfirmed
<1>1. Inv => DeletionIsConfirmed
  BY DEF Inv, Reported, DeletionIsConfirmed
<1> QED
  BY <1>1, InvariantHolds, PTL
(* Only Purge removes the worktree and only DeleteCard the card.           *)
LEMMA WorktreeRemoved ==
    ASSUME Inv, Next, tree.head # "absent", tree'.head = "absent"
    PROVE  \E o \in Operations : Purge(o)
<1>1. tree \in Trees
  BY Types DEF Inv
<1>2. tree' # tree
  OBVIOUS
<1>3. ~Around
  BY <1>2 DEF Around, UnrelatedCommit, TogglePin, ClientMove, PersistSessions, ProcessExits,
              Crash, SkipRecovery, Serve
<1>4. ASSUME NEW o \in Operations PROVE ~Faults(o) /\ ~Request(o) /\ ~Recover(o)
  BY <1>2 DEF Faults, Request, Recover, StopFails, LaunchFails, PhaseWriteFails, FinishWriteFails,
              Resubmit, Begin
<1>5. ASSUME NEW o \in Operations, Run(o) PROVE Purge(o)
  <2>1. ~(\E step \in {"create", "move", "delete"} : Conflict(o, step))
    BY <1>2 DEF Conflict
  <2>2. ~(Validate(o) \/ CreateCard(o) \/ MoveCard(o) \/ AfterMove(o) \/ Stop(o))
    BY <1>2 DEF Validate, CreateCard, MoveCard, AfterMove, Stop
  <2>3. ~(Refuse(o) \/ Launch(o) \/ AfterFailure(o) \/ Look(o) \/ Compensate(o) \/ StopAgain(o))
    BY <1>2 DEF Refuse, Launch, AfterFailure, Look, Compensate, StopAgain
  <2>4. ~(MarkDeleting(o) \/ DeleteCard(o) \/ Finish(o))
    BY <1>2 DEF MarkDeleting, DeleteCard, Finish
  <2>5. ~Consume(o)
    BY <1>1, <1>2 DEF Consume, Trees
  <2>6. ~Ensure(o)
    BY <1>1, <1>2 DEF Ensure, Trees
  <2>7. ~SaveBranch(o)
    BY <1>1, <1>2 DEF SaveBranch, ReleaseFails, Trees
  <2>8. ~Detach(o)
    BY <1>1, <1>2 DEF Detach, ReleaseFails, Trees
  <2>9. ~Reattach(o)
    <3>1. ASSUME Reattach(o) PROVE tree' = tree \/ tree' = [tree EXCEPT !.head = "attached"]
      <4>1. tree' = tree \/ tree' = [tree EXCEPT !.head = IF tree.marker THEN "attached" ELSE @]
        BY <3>1 DEF Reattach
      <4> QED
        BY <1>1, <4>1 DEF Trees
    <3> QED
      BY <1>1, <1>2, <3>1 DEF Trees
  <2> QED
    BY <1>5, <2>1, <2>2, <2>3, <2>4, <2>5, <2>6, <2>7, <2>8, <2>9 DEF Run
<1> QED
  BY <1>3, <1>4, <1>5 DEF Next

LEMMA CardRemoved ==
    ASSUME Inv, Next, board.column # "none", board'.column = "none"
    PROVE  \E o \in Operations : DeleteCard(o)
<1>1. board \in Cards /\ receipts \in [Operations -> Receipts] /\ board' # board
  BY Types DEF Inv
<1>2. ASSUME Around PROVE FALSE
  <2>1. CASE UnrelatedCommit
    BY <1>1, <2>1 DEF UnrelatedCommit, Cards
  <2>2. CASE TogglePin
    BY <1>1, <2>2 DEF TogglePin, Cards
  <2>3. CASE ClientMove
    BY <1>1, <2>3 DEF ClientMove, Cards
  <2>4. CASE PersistSessions
    BY <1>1, <2>4 DEF PersistSessions, Cards
  <2> QED
    BY <1>1, <1>2, <2>1, <2>2, <2>3, <2>4 DEF Around, ProcessExits, Crash, SkipRecovery, Serve
<1>3. ASSUME NEW o \in Operations PROVE ~Faults(o) /\ ~Request(o) /\ ~Recover(o)
  BY <1>1 DEF Faults, Request, Recover, StopFails, LaunchFails, PhaseWriteFails, FinishWriteFails,
              Resubmit, Begin
<1>4. ASSUME NEW o \in Operations, Run(o) PROVE DeleteCard(o)
  <2>1. ~(\E step \in {"create", "move", "delete"} : Conflict(o, step))
    BY <1>1 DEF Conflict
  <2>2. ~(Validate(o) \/ AfterMove(o) \/ Stop(o) \/ Reattach(o) \/ Consume(o) \/ Ensure(o))
    BY <1>1 DEF Validate, AfterMove, Stop, Reattach, Consume, Ensure
  <2>3. ~(Refuse(o) \/ Launch(o) \/ AfterFailure(o) \/ Look(o) \/ StopAgain(o))
    BY <1>1 DEF Refuse, Launch, AfterFailure, Look, StopAgain
  <2>4. ~(SaveBranch(o) \/ Detach(o) \/ Purge(o) \/ MarkDeleting(o) \/ Finish(o))
    BY <1>1 DEF SaveBranch, Detach, Purge, MarkDeleting, Finish
  <2>5. ASSUME NEW step \in {"create", "move", "compensate"}, At(o, step), Commit(o, step) PROVE FALSE
    <3>1. step \in Steps /\ step # "idle"
      BY DEF Steps
    <3>2. journal[o].source \in Work
      BY <2>5, <3>1, NotRecovering DEF At, Running, KindFacts
    <3>3. Committed(o, step)
      BY <1>1, <2>5, <3>1, <3>2, CommitEffect
    <3>4. Card(o, step).column # "none"
      <4>1. Source(o) # "none" /\ Target(o) # "none"
        BY <3>2 DEF Source, Target, Work
      <4>2. CASE step = "create"
        BY <1>1, <4>2 DEF Card, Cards
      <4>3. CASE step = "move"
        BY <1>1, <4>1, <4>3 DEF Card, Cards
      <4>4. CASE step = "compensate"
        BY <1>1, <4>1, <4>4 DEF Card, Cards
      <4> QED
        BY <4>2, <4>3, <4>4
    <3> QED
      BY <1>1, <3>3, <3>4 DEF Committed, Taken, Rejected
  <2>6. ~(CreateCard(o) \/ MoveCard(o))
    BY <2>5 DEF CreateCard, MoveCard
  <2>7. ~Compensate(o)
    BY <1>1, <2>5 DEF Compensate
  <2> QED
    BY <1>4, <2>1, <2>2, <2>3, <2>4, <2>6, <2>7 DEF Run
<1> QED
  BY <1>2, <1>3, <1>4 DEF Next

(* A workspace is removed only when its card is in Trash, not pinned, and  *)
(* nothing runs in it; the card is removed only after its workspace and    *)
(* never while pinned (delete of project-task-lifecycle-service.ts, and    *)
(* assertTaskPinsAllowedUnderLock, which keeps a pin out meanwhile).       *)
THEOREM DeletionOrdered == Spec => DeletionIsOrderly
<1> DEFINE Orderly ==
       /\ tree.head # "absent" /\ tree'.head = "absent" =>
             board.column = "trash" /\ ~board.pinned /\ session.process = Nobody
       /\ board.column # "none" /\ board'.column = "none" => tree.head = "absent" /\ ~board.pinned
<1>1. ASSUME Inv, Next, tree.head # "absent", tree'.head = "absent"
      PROVE  board.column = "trash" /\ ~board.pinned /\ session.process = Nobody
  <2>1. PICK o \in Operations : Purge(o)
    BY <1>1, WorktreeRemoved
  <2>2. exec[o].at = "purge" /\ Running(o)
    BY <1>1, <2>1, NotRecovering DEF Purge, At
  <2>3. Kind(o) = "delete"
    BY <2>2 DEF Running, KindFacts
  <2>4. board.column = "trash" /\ board.pinned = FALSE /\ session.process = Nobody
    BY <2>2, <2>3 DEF Running, StageFacts
  <2> QED
    BY <2>4
<1>2. ASSUME Inv, Next, board.column # "none", board'.column = "none"
      PROVE  tree.head = "absent" /\ ~board.pinned
  <2>1. PICK o \in Operations : DeleteCard(o)
    BY <1>2, CardRemoved
  <2>2. At(o, "delete") /\ Running(o)
    BY <1>2, <2>1, NotRecovering DEF DeleteCard, At
  <2>3. board.pinned = FALSE /\ tree.head = "absent"
    BY <1>2, <2>2 DEF Running, StageFacts
  <2> QED
    BY <2>3
<1>3. ASSUME Inv, [Next]_vars PROVE [Orderly]_vars
  <2>1. CASE Next
    BY <1>1, <1>2, <1>3, <2>1
  <2> QED
    BY <1>3, <2>1
<1>4. Inv /\ [Next]_vars => [Orderly]_vars
  BY <1>3
<1>5. Spec => [][Orderly]_vars
  BY <1>4, InvariantHolds, PTL DEF Spec
<1> QED
  BY <1>5 DEF DeletionIsOrderly
=============================================================================
