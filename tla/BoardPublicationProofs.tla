------------------------ MODULE BoardPublicationProofs ------------------------
(***************************************************************************)
(* Theorems about BoardPublication, for any number of retries, commits,     *)
(* renames, relocations, connections and faults.                           *)
(*                                                                         *)
(* Two ideas carry the proofs.  Every state in flight is a view of the      *)
(* project at some earlier time, so that of two views the one with the      *)
(* newer metadata has the newer location.  And whatever a live browser      *)
(* does not show yet is carried by somebody: a caller that has not          *)
(* returned, the lane, its run, a relocation that will announce the         *)
(* project, or the browser's own catch-up.                                  *)
(***************************************************************************)
EXTENDS BoardPublication, TLAPS

(* The types, by name.                                                      *)
Seen == States \cup {Nothing}
Lanes == [pending: Seen, backoff: BOOLEAN, attempts: 0 .. Retries,
          published: Nat \cup {-1}, drained: BOOLEAN]
Runs == [at: {"none", "scope", "check", "end"}, state: Seen, scope: Seen,
         answer: {"", "ready", "superseded", "metadata_changed", "failed"}]
Builds == [at: {"none", "waiting", "board", "send", "failed"}, state: Seen]
Browsers == [at: {"off", "loading", "live"}, missed: BOOLEAN, shown: Seen]
Spents == [commits: 0 .. MaxCommits, renames: 0 .. MaxRenames, moves: 0 .. MaxMoves,
           broadcasts: 0 .. MaxBroadcasts, connections: 0 .. MaxConnections,
           faults: 0 .. MaxFaults]
Types ==
    /\ saved \in States /\ returning \subseteq States
    /\ lane \in Lanes /\ run \in Runs /\ builds \in [Builders -> Builds]
    /\ suspended \in BOOLEAN /\ browser \in Browsers /\ move \in MoveStages
    /\ lost \in BOOLEAN /\ spent \in Spents

(* What was read from the saved project, and what commits handed on.        *)
Views == {saved, browser.shown, run.scope} \cup {builds[b].state : b \in Builders}
Committed == returning \cup {lane.pending, run.state}

Known(x) ==
    x.revision <= saved.revision /\ x.metadata <= saved.metadata /\ x.place <= saved.place
Earlier(x, y) == x.metadata <= y.metadata => x.place <= y.place

ViewInv ==
    /\ \A x \in Views : Known(x)
    /\ \A x, y \in Views : Earlier(x, y)

(* A board revision is committed once.                                      *)
CommitInv ==
    /\ \A x \in Committed : Known(x)
    /\ \A x, y \in Committed : x.revision = y.revision => x = y
    /\ lane.published <= saved.revision

(* What a run and a build have found so far.                                *)
RunInv ==
    /\ run.at # "none" => run.state \in States
    /\ run.at = "check" \/ (run.at = "end" /\ run.answer \in {"ready", "metadata_changed"}) =>
          run.scope \in States /\ run.scope.place = run.state.place
    /\ run.at = "end" /\ run.answer = "superseded" => run.state.place # saved.place
    /\ \A b \in Builders : builds[b].at = "board" => builds[b].state \in States

Fenced == {"draining", "suspending", "moving", "indexing", "refreshing"}

(* What each stage of a relocation knows of the rest.                       *)
MoveInv ==
    /\ lane.drained <=> move \in Fenced \cup {"failed"}
    /\ suspended => lost \/ move \in {"moving", "indexing", "refreshing", "failed", "resuming"}
    /\ move \in Fenced \ {"draining"} => run.at = "none"
    /\ move \in Fenced => \A b \in Builders : builds[b].at # "board"
    /\ move = "announcing" => \A b \in Builders \ {"move"} : builds[b].at # "board"
    /\ builds["move"].at # "none" => move \in {"announcing", "reannouncing"}
    /\ builds["move"].at \in {"board", "send"} => builds["move"].state.place = saved.place

(* A relocation that will announce the project when it ends, or resume it.  *)
Moving == move \in Fenced \cup {"failed", "resuming"}

Fresh(x) == x.revision = saved.revision /\ x.place = saved.place
BringsBoard(b) ==
    \/ builds[b].at \in {"waiting", "board", "failed"}
    \/ builds[b].at = "send" /\ builds[b].state.revision = saved.revision
BringsPlace(b) ==
    \/ builds[b].at \in {"waiting", "failed"}
    \/ builds[b].at \in {"board", "send"} /\ builds[b].state.place = saved.place

BoardCarried ==
    \/ Moving
    \/ BringsBoard("move") \/ BringsBoard("client")
    \/ \E x \in returning : Fresh(x)
    \/ Fresh(lane.pending)
    \/ run.at # "none" /\ Fresh(run.state)
PlaceCarried == Moving \/ BringsPlace("move") \/ BringsPlace("client")

(* Nothing that a browser does not show is forgotten.                       *)
BoardInv ==
    ~lost =>
        /\ browser.at = "live" => browser.shown.revision = saved.revision \/ BoardCarried
        /\ browser.at = "loading" => browser.missed \/ BoardCarried
PlaceInv ==
    ~lost =>
        /\ browser.at = "live" => browser.shown.place = saved.place \/ PlaceCarried
        /\ browser.at = "loading" => browser.missed \/ PlaceCarried

(* A state of the project as it was read once, perhaps with a newer board.  *)
Old(x) ==
    x = Nothing \/ \E v \in Views :
        x.metadata = v.metadata /\ x.place = v.place /\ x.revision <= saved.revision

Inv == Types /\ ViewInv /\ CommitInv /\ RunInv /\ MoveInv /\ BoardInv /\ PlaceInv

-----------------------------------------------------------------------------
(* The operators of the lane and of the browser.                            *)

LEMMA NatBounds ==
    /\ Retries \in Nat /\ MaxCommits \in Nat /\ MaxRenames \in Nat /\ MaxMoves \in Nat
    /\ MaxBroadcasts \in Nat /\ MaxConnections \in Nat /\ MaxFaults \in Nat
BY BoundsAssumption

LEMMA SpendType ==
    ASSUME spent \in Spents,
           \/ Fault \/ Spend("commits", MaxCommits) \/ Spend("renames", MaxRenames)
           \/ Spend("moves", MaxMoves) \/ Spend("broadcasts", MaxBroadcasts)
           \/ Spend("connections", MaxConnections)
    PROVE  spent' \in Spents
BY NatBounds DEF Spents, Spend, Fault

(* The clocks of a state are integers, so that states can be compared.      *)
LEMMA Clocks ==
    /\ \A x \in Seen : x.revision \in Int /\ x.metadata \in Int /\ x.place \in Int
    /\ \A x \in States : x.revision \in Nat /\ x.metadata \in Nat /\ x.place \in Nat
    /\ Nothing.revision = -1 /\ Nothing.metadata = -1 /\ Nothing.place = -1
BY DEF Seen, States, Nothing

(* A merge is as new as both in board and metadata, and its metadata and     *)
(* location come from one of them.                                          *)
LEMMA MergeIsNewest ==
    ASSUME NEW x \in Seen, NEW y \in Seen
    PROVE  /\ Merge(x, y) \in Seen
           /\ Merge(x, y).revision >= x.revision /\ Merge(x, y).revision >= y.revision
           /\ Merge(x, y).revision \in {x.revision, y.revision}
           /\ Merge(x, y).metadata >= x.metadata /\ Merge(x, y).metadata >= y.metadata
           /\ \E v \in {x, y} : Merge(x, y).metadata = v.metadata /\ Merge(x, y).place = v.place
BY DEF Merge, Seen, States, Nothing

(* A kick starts a run of what is pending, or leaves it pending.           *)
LEMMA KickedLane ==
    ASSUME NEW l \in Lanes, Kicked(l)
    PROVE  /\ lane' \in Lanes /\ run' \in Runs
           /\ lane'.drained = l.drained /\ lane'.published = l.published
           /\ lane'.pending \in {l.pending, Nothing}
           /\ run'.state \in {l.pending, Nothing} /\ run'.scope = Nothing
           /\ lane'.pending = l.pending \/ (run'.at # "none" /\ run'.state = l.pending)
           /\ run'.at # "none" => run'.at = "scope" /\ run'.state \in States /\ ~l.drained
<1>1. CASE lane' = l /\ run' = NoRun
  BY <1>1 DEF Runs, NoRun, Seen
<1>2. CASE /\ ~l.drained /\ l.pending # Nothing
           /\ lane' = [l EXCEPT !.pending = Nothing]
           /\ run' = [NoRun EXCEPT !.at = "scope", !.state = l.pending]
  BY <1>2 DEF Lanes, Runs, NoRun, Seen
<1> QED
  BY <1>1, <1>2 DEF Kicked

(* kick leaves the run in flight alone, and otherwise starts what is       *)
(* pending.                                                                *)
LEMMA KickLane ==
    ASSUME NEW l \in Lanes, run \in Runs, Kick(l)
    PROVE  /\ lane' \in Lanes /\ run' \in Runs
           /\ lane'.drained = l.drained /\ lane'.published = l.published
           /\ lane'.pending \in {l.pending, Nothing}
           /\ lane'.pending = l.pending \/ (run'.at # "none" /\ run'.state = l.pending)
           /\ \/ run' = run
              \/ /\ run.at = "none" /\ run'.state \in {l.pending, Nothing} /\ run'.scope = Nothing
                 /\ run'.at # "none" => run'.at = "scope" /\ run'.state \in States /\ ~l.drained
BY KickedLane DEF Kick

(* The lanes that cancelling, draining and releasing leave behind.         *)
LEMMA LaneValues ==
    ASSUME Types
    PROVE  /\ Cancelled \in Lanes /\ Cancelled.pending = Nothing
           /\ Cancelled.drained = lane.drained /\ Cancelled.published = lane.published
           /\ [Cancelled EXCEPT !.drained = TRUE] \in Lanes
           /\ [Cancelled EXCEPT !.drained = TRUE].pending = Nothing
           /\ [Cancelled EXCEPT !.drained = TRUE].drained
           /\ [Cancelled EXCEPT !.drained = TRUE].published = lane.published
           /\ Released \in Lanes /\ ~Released.drained
           /\ Released.pending \in {lane.pending, Nothing}
           /\ Released.published \in {lane.published, -1}
<1>1. Cancelled \in Lanes
  <2>1. 0 \in 0 .. Retries /\ Nothing \in Seen
    BY NatBounds DEF Seen
  <2> QED
    BY <2>1 DEF Types, Lanes, Cancelled
<1>3. [Cancelled EXCEPT !.drained = TRUE] \in Lanes
  BY <1>1 DEF Lanes
<1>2. Free \in Lanes
  <2>1. 0 \in 0 .. Retries /\ Nothing \in Seen
    BY NatBounds DEF Seen
  <2> QED
    BY <2>1 DEF Lanes, Free
<1>4. [lane EXCEPT !.drained = FALSE] \in Lanes
  BY DEF Types, Lanes
<1> QED
  BY <1>1, <1>2, <1>3, <1>4 DEF Types, Lanes, Cancelled, Released, Free

(* A retry keeps the newer of what is pending and what failed, until the   *)
(* retries are used up.                                                    *)
LEMMA RetriedLane ==
    ASSUME Types, NEW x \in States
    PROVE  /\ RetryLane(x) \in Lanes
           /\ RetryLane(x).drained = lane.drained /\ RetryLane(x).published = lane.published
           /\ RetryLane(x).pending \in {lane.pending, x, Nothing}
           /\ lane.attempts < Retries =>
                 RetryLane(x).pending = IF Newer(x) THEN lane.pending ELSE x
<1>1. lane \in Lanes /\ x \in Seen /\ Nothing \in Seen
  BY DEF Types, Seen
<1>2. CASE lane.attempts < Retries
  <2>1. lane.attempts + 1 \in 0 .. Retries
    BY <1>1, <1>2, NatBounds DEF Lanes
  <2>2. RetryLane(x) = [lane EXCEPT !.pending = IF Newer(x) THEN lane.pending ELSE x,
                                    !.attempts = lane.attempts + 1, !.backoff = TRUE]
    BY <1>2 DEF RetryLane
  <2> QED
    BY <1>1, <1>2, <2>1, <2>2 DEF Lanes
<1>3. CASE ~(lane.attempts < Retries)
  <2>1. RetryLane(x) = [lane EXCEPT !.pending = Nothing, !.attempts = 0] /\ 0 \in 0 .. Retries
    BY <1>3, NatBounds DEF RetryLane
  <2> QED
    BY <1>1, <1>3, <2>1 DEF Lanes
<1> QED
  BY <1>2, <1>3

(* An accepted state is pending or running; a refused one changes          *)
(* nothing.                                                                *)
LEMMA ScheduledLane ==
    ASSUME Types, NEW x \in States, Schedule(x)
    PROVE  /\ lane' \in Lanes /\ run' \in Runs
           /\ lane'.drained = lane.drained /\ lane'.published = lane.published
           /\ lane'.pending \in {lane.pending, x, Nothing}
           /\ \/ run' = run
              \/ /\ run.at = "none" /\ run'.state \in {x, Nothing} /\ run'.scope = Nothing
                 /\ run'.at # "none" => run'.at = "scope" /\ run'.state \in States /\ ~lane.drained
           /\ IF Accepts(x) THEN lane'.pending = x \/ (run'.at # "none" /\ run'.state = x)
              ELSE UNCHANGED <<lane, run>>
<1> DEFINE l == [lane EXCEPT !.pending = x, !.backoff = FALSE,
                             !.attempts = IF lane.backoff THEN 0 ELSE @]
<1>1. l \in Lanes /\ l.pending = x /\ l.drained = lane.drained /\ l.published = lane.published
  <2>1. lane \in Lanes /\ x \in Seen /\ 0 \in 0 .. Retries
    BY NatBounds DEF Types, Seen
  <2> QED
    BY <2>1 DEF Lanes
<1>2. CASE Accepts(x)
  <2>1. Kick(l)
    BY <1>2 DEF Schedule
  <2> HIDE DEF l
  <2> QED
    BY <1>1, <1>2, <2>1, KickLane DEF Types
<1>3. CASE ~Accepts(x)
  BY <1>3 DEF Types, Schedule
<1> QED
  BY <1>2, <1>3

(* A broadcast reaches a live browser and marks a loading one, unless the  *)
(* hub is suspended.                                                       *)
LEMMA BroadcastShown ==
    ASSUME browser \in Browsers, NEW x \in Seen, Broadcast(x)
    PROVE  /\ browser' \in Browsers /\ browser'.at = browser.at
           /\ browser'.shown \in {browser.shown, Merge(browser.shown, x)}
           /\ ~suspended /\ browser.at = "live" => browser'.shown = Merge(browser.shown, x)
           /\ browser.missed \/ (~suspended /\ browser.at = "loading") => browser'.missed
BY MergeIsNewest DEF Browsers, Broadcast, Marked

(* A requested snapshot marks a loading browser, and is built if one       *)
(* listens.                                                                *)
LEMMA RequestMarks ==
    ASSUME Types, NEW b \in Builders, NEW stage, Request(b, stage)
    PROVE  /\ browser' \in Browsers /\ browser'.at = browser.at /\ browser'.shown = browser.shown
           /\ browser.missed \/ browser.at = "loading" => browser'.missed
           /\ builds' \in [Builders -> Builds] /\ move' = stage
           /\ \A c \in Builders \ {b} : builds'[c] = builds[c]
           /\ builds'[b].state = Nothing
           /\ builds'[b].at = IF browser.at = "live" THEN "waiting" ELSE "none"
<1>1. browser' \in Browsers /\ browser'.at = browser.at /\ browser'.shown = browser.shown
      /\ (browser.missed \/ browser.at = "loading" => browser'.missed)
  BY DEF Types, Browsers, Request, Marked
<1>2. NoBuild \in Builds /\ [NoBuild EXCEPT !.at = "waiting"] \in Builds
  BY DEF NoBuild, Builds, Seen
<1>3. builds' \in [Builders -> Builds]
  BY <1>2 DEF Types, Request
<1> QED
  BY <1>1, <1>3 DEF Types, Request, NoBuild

(* Every view is a state of the project, or nothing yet.                   *)
LEMMA ViewsSeen == (Types => Views \subseteq Seen) /\ (Types' => Views' \subseteq Seen)
<1>1. \A x \in Browsers : x.shown \in Seen
  BY DEF Browsers
<1>2. \A x \in Runs : x.scope \in Seen
  BY DEF Runs
<1>3. \A x \in Builds : x.state \in Seen
  BY DEF Builds
<1>4. ASSUME Types PROVE Views \subseteq Seen
  <2>1. \A b \in Builders : builds[b] \in Builds
    BY <1>4 DEF Types
  <2> QED
    BY <1>1, <1>2, <1>3, <1>4, <2>1 DEF Types, Views, Seen
<1>5. ASSUME Types' PROVE Views' \subseteq Seen
  <2>1. \A b \in Builders : builds'[b] \in Builds
    BY <1>5 DEF Types
  <2> QED
    BY <1>1, <1>2, <1>3, <1>5, <2>1 DEF Types, Views, Seen
<1> QED
  BY <1>4, <1>5

(* Whatever is held now was read once.                                     *)
LEMMA OldViews ==
    ViewInv => /\ Old(saved) /\ Old(browser.shown) /\ Old(run.scope) /\ Old(Nothing)
               /\ \A b \in Builders : Old(builds[b].state)
BY DEF ViewInv, Views, Known, Old

(* A step that reads no more than was read once keeps the views            *)
(* consistent.                                                             *)
LEMMA ViewsKept ==
    ASSUME Types, Types', ViewInv, saved' = saved,
           Old(browser'.shown), Old(run'.scope), \A b \in Builders : Old(builds'[b].state)
    PROVE  ViewInv'
<1>1. \A x \in Views \cup Views' : x \in Seen
  BY ViewsSeen
<1>2. \A x \in Views' : Old(x)
  BY OldViews DEF Views
<1>3. \A x \in Views' : Known(x)'
  BY <1>1, <1>2, Clocks DEF ViewInv, Known, Types, Old
<1>4. ASSUME NEW x \in Views', NEW y \in Views' PROVE Earlier(x, y)
  <2>1. CASE x = Nothing \/ y = Nothing
    BY <1>1, <1>4, <2>1, Clocks DEF Earlier, Seen
  <2> QED
    BY <1>2, <1>4, <2>1 DEF ViewInv, Earlier, Old
<1> QED
  BY <1>3, <1>4 DEF ViewInv, Earlier

(* A commit, a rename and a relocation leave the views of the past         *)
(* consistent.                                                             *)
LEMMA ViewsGrow ==
    ASSUME Types, Types', ViewInv, UNCHANGED <<browser, run, builds>>,
           saved'.revision >= saved.revision, saved'.metadata >= saved.metadata,
           saved'.place >= saved.place,
           saved'.metadata = saved.metadata => saved'.place = saved.place
    PROVE  ViewInv'
<1>1. \A x \in Views \cup Views' : x \in Seen
  BY ViewsSeen
<1>2. \A x \in Views' : x \in Views \/ x = saved'
  BY DEF Views
<1>3. \A x \in Views' : Known(x)'
  BY <1>1, <1>2, Clocks DEF ViewInv, Known, Types
<1>4. saved \in Views
  BY DEF Views
<1>5. ASSUME NEW x \in Views', NEW y \in Views' PROVE Earlier(x, y)
  BY <1>1, <1>2, <1>4, Clocks DEF ViewInv, Known, Earlier, Types
<1> QED
  BY <1>3, <1>5 DEF ViewInv, Earlier

(* What was committed stays so, whoever holds it next.                     *)
LEMMA CommitsKept ==
    ASSUME Types, Types', CommitInv,
           saved'.revision >= saved.revision, saved'.metadata >= saved.metadata,
           saved'.place >= saved.place, returning' \subseteq returning,
           lane'.pending \in Committed \cup {Nothing}, run'.state \in Committed \cup {Nothing},
           lane'.published \in {lane.published, run.state.revision, -1}
    PROVE  CommitInv'
<1>1. \A x \in Committed : x \in Seen
  BY DEF Types, Committed, Lanes, Runs, Seen
<1>2. \A x \in Seen : x.revision = -1 => x = Nothing
  BY DEF Seen, States
<1>3. Committed' \subseteq Committed \cup {Nothing}
  BY DEF Committed
<1>4. \A x \in Committed' : Known(x)'
  BY <1>1, <1>3, Clocks DEF CommitInv, Known, Types
<1>5. \A x, y \in Committed' : x.revision = y.revision => x = y
  BY <1>1, <1>2, <1>3, Clocks DEF CommitInv
<1>6. run.state.revision <= saved.revision /\ run.state \in Seen
  BY <1>1 DEF CommitInv, Committed, Known
<1>7. lane'.published <= saved'.revision
  <2>1. lane.published \in Int
    BY DEF Types, Lanes
  <2> QED
    BY <1>6, <2>1, Clocks DEF CommitInv, Types
<1> QED
  BY <1>4, <1>5, <1>7 DEF CommitInv

(* Between consistent views, a merge never goes back to an older           *)
(* location.                                                               *)
LEMMA MergedPlace ==
    ASSUME NEW x \in Seen, NEW y \in Seen, Earlier(x, y), Earlier(y, x)
    PROVE  Merge(x, y).place >= x.place /\ Merge(x, y).place >= y.place
BY MergeIsNewest, Clocks DEF Earlier

(* Merging a view into what the browser shows gives a view again.          *)
LEMMA OldMerge ==
    ASSUME Types, ViewInv, NEW y \in Seen, Old(y)
    PROVE  /\ Old(Merge(browser.shown, y))
           /\ Merge(browser.shown, y).place >= browser.shown.place
           /\ Merge(browser.shown, y).place >= y.place
<1>1. browser.shown \in Seen /\ browser.shown \in Views
  BY DEF Types, Browsers, Views
<1>2. y = Nothing \/ \E v \in Views :
        v.metadata = y.metadata /\ v.place = y.place /\ y.revision <= saved.revision
  BY DEF Old
<1>3. Earlier(browser.shown, y) /\ Earlier(y, browser.shown)
  BY <1>1, <1>2, Clocks DEF ViewInv, Earlier, Seen
<1>4. browser.shown.revision <= saved.revision
  BY <1>1 DEF ViewInv, Known
<1>5. Merge(browser.shown, y).revision <= saved.revision
  BY <1>1, <1>2, <1>4, MergeIsNewest, Clocks DEF Types
<1>6. \E v \in Views : v.metadata = Merge(browser.shown, y).metadata
                       /\ v.place = Merge(browser.shown, y).place
  <2>1. CASE y = Nothing
    BY <1>1, <2>1, MergeIsNewest, Clocks DEF Seen
  <2> QED
    BY <1>1, <1>2, <2>1, MergeIsNewest
<1> QED
  BY <1>1, <1>3, <1>5, <1>6, MergedPlace DEF Old

(* One build changes at a time.                                            *)
LEMMA ChangedBuild ==
    ASSUME builds \in [Builders -> Builds], NEW b \in Builders, NEW v \in Builds,
           builds' = [builds EXCEPT ![b] = v]
    PROVE  /\ builds' \in [Builders -> Builds] /\ builds'[b] = v
           /\ \A c \in Builders : c # b => builds'[c] = builds[c]
OBVIOUS

(* The values a build starts from.                                         *)
LEMMA BuildValues ==
    /\ \A b \in Builds : b.state \in Seen
    /\ "live" \in Builders /\ "client" \in Builders /\ "move" \in Builders
    /\ NoBuild \in Builds /\ NoBuild.at = "none" /\ NoBuild.state = Nothing
    /\ \A at \in {"waiting", "failed"} :
          /\ [NoBuild EXCEPT !.at = at] \in Builds /\ [NoBuild EXCEPT !.at = at].at = at
          /\ [NoBuild EXCEPT !.at = at].state = Nothing
BY DEF NoBuild, Builds, Builders, Seen

-----------------------------------------------------------------------------
(* One lemma per action, with a step per part of the invariant.             *)

(* A returning caller hands its state to the lane, or to nobody if a       *)
(* newer state is there already or the lane is drained.                    *)
LEMMA ReturnStep == ASSUME Inv, Return PROVE Inv'
<1>1. UNCHANGED <<saved, builds, suspended, browser, move, lost, spent>>
  BY DEF Return
<1>2. PICK x \in returning : returning' = returning \ {x} /\ Schedule(x)
  BY DEF Return
<1>3. x \in States /\ x.revision <= saved.revision
  BY DEF Inv, Types, CommitInv, Committed, Known
<1>4. /\ lane' \in Lanes /\ run' \in Runs
      /\ lane'.drained = lane.drained /\ lane'.published = lane.published
      /\ lane'.pending \in {lane.pending, x, Nothing}
      /\ \/ run' = run
         \/ /\ run.at = "none" /\ run'.state \in {x, Nothing} /\ run'.scope = Nothing
            /\ run'.at # "none" => run'.at = "scope" /\ run'.state \in States /\ ~lane.drained
      /\ IF Accepts(x) THEN lane'.pending = x \/ (run'.at # "none" /\ run'.state = x)
         ELSE UNCHANGED <<lane, run>>
  BY <1>2, <1>3, ScheduledLane DEF Inv
<1>5. Types'
  BY <1>1, <1>2, <1>3, <1>4 DEF Inv, Types
<1>6. ViewInv'
  BY <1>1, <1>2, <1>3, <1>4, <1>5, OldViews, ViewsKept DEF Inv
<1>7. CommitInv'
  BY <1>1, <1>2, <1>3, <1>4, <1>5, CommitsKept, Clocks DEF Inv, Types, CommitInv, Committed
<1>8. RunInv'
  BY <1>1, <1>2, <1>3, <1>4, <1>5 DEF Inv, RunInv
<1>9. MoveInv'
  BY <1>1, <1>2, <1>3, <1>4, <1>5 DEF Inv, MoveInv, Fenced
<1>10. BoardInv'
  <2>1. /\ saved.revision \in Nat /\ lane.published \in Int /\ lane.published <= saved.revision
        /\ lane.pending.revision \in Int /\ lane.pending.revision <= saved.revision
        /\ x.revision \in Nat
    BY <1>3, Clocks DEF Inv, Types, CommitInv, Committed, Known, Lanes
  <2>2. CASE Accepts(x)
    <3>1. Fresh(lane.pending) => Fresh(x)
      BY <1>2, <1>3, <2>1, <2>2 DEF Inv, CommitInv, Committed, Fresh, Accepts
    <3>2. Fresh(x) => BoardCarried'
      BY <1>1, <1>4, <2>2 DEF BoardCarried, Fresh
    <3>3. BoardCarried => BoardCarried'
      BY <1>1, <1>2, <1>4, <3>1, <3>2 DEF BoardCarried, BringsBoard, Fresh, Moving
    <3> QED
      BY <1>1, <3>3 DEF Inv, BoardInv
  <2>3. CASE ~Accepts(x)
    <3>1. Fresh(x) => Fresh(lane.pending) \/ lane.drained
      BY <1>3, <2>1, <2>3 DEF Accepts, Fresh
    <3>2. lane.drained => Moving'
      BY <1>1 DEF Inv, MoveInv, Moving
    <3>3. BoardCarried => BoardCarried'
      BY <1>1, <1>2, <1>4, <2>3, <3>1, <3>2 DEF BoardCarried, BringsBoard, Fresh, Moving
    <3> QED
      BY <1>1, <3>3 DEF Inv, BoardInv
  <2> QED
    BY <2>2, <2>3
<1>11. PlaceInv'
  BY <1>1 DEF Inv, PlaceInv, PlaceCarried, BringsPlace, Moving, Fenced
<1> QED
  BY <1>5, <1>6, <1>7, <1>8, <1>9, <1>10, <1>11 DEF Inv

LEMMA ObserveStep == ASSUME Inv, Observe PROVE Inv'
<1>1. UNCHANGED <<saved, returning, lane, builds, suspended, browser, move, lost, spent>>
  BY DEF Observe
<1>2. /\ run' \in Runs /\ run'.state = run.state /\ run'.scope = saved
      /\ run.at = "scope" /\ run'.at = IF saved.place = run.state.place THEN "check" ELSE "end"
      /\ run'.answer = "superseded"
  BY DEF Inv, Types, Observe, Runs, Seen
<1>3. Types'
  BY <1>1, <1>2 DEF Inv, Types
<1>4. ViewInv'
  BY <1>1, <1>2, <1>3, OldViews, ViewsKept DEF Inv
<1>5. CommitInv'
  BY <1>1, <1>2, <1>3, CommitsKept, Clocks DEF Inv, Types, CommitInv, Committed
<1>6. RunInv'
  BY <1>1, <1>2, <1>3 DEF Inv, RunInv, Types
<1>7. MoveInv'
  BY <1>1, <1>2, <1>3 DEF Inv, MoveInv, Fenced
<1>8. BoardInv'
  BY <1>1, <1>2, <1>3 DEF Inv, BoardInv, BoardCarried, BringsBoard, Fresh, Moving, Fenced
<1>9. PlaceInv'
  BY <1>1 DEF Inv, PlaceInv, PlaceCarried, BringsPlace, Moving, Fenced
<1> QED
  BY <1>3, <1>4, <1>5, <1>6, <1>7, <1>8, <1>9 DEF Inv

LEMMA RecheckStep == ASSUME Inv, Recheck PROVE Inv'
<1>1. UNCHANGED <<saved, returning, lane, builds, suspended, browser, move, lost, spent>>
  BY DEF Recheck
<1>2. /\ run' \in Runs /\ run'.state = run.state /\ run'.scope = run.scope
      /\ run.at = "check" /\ run'.at = "end"
      /\ run'.answer \in {"superseded", "metadata_changed", "ready"}
      /\ run'.answer = "superseded" <=> saved.place # run.scope.place
  BY DEF Inv, Types, Recheck, Runs
<1>3. Types'
  BY <1>1, <1>2 DEF Inv, Types
<1>4. ViewInv'
  BY <1>1, <1>2, <1>3, OldViews, ViewsKept DEF Inv
<1>5. CommitInv'
  BY <1>1, <1>2, <1>3, CommitsKept, Clocks DEF Inv, Types, CommitInv, Committed
<1>6. RunInv'
  BY <1>1, <1>2, <1>3 DEF Inv, RunInv
<1>7. MoveInv'
  BY <1>1, <1>2, <1>3 DEF Inv, MoveInv, Fenced
<1>8. BoardInv'
  BY <1>1, <1>2, <1>3 DEF Inv, BoardInv, BoardCarried, BringsBoard, Fresh, Moving, Fenced
<1>9. PlaceInv'
  BY <1>1 DEF Inv, PlaceInv, PlaceCarried, BringsPlace, Moving, Fenced
<1> QED
  BY <1>3, <1>4, <1>5, <1>6, <1>7, <1>8, <1>9 DEF Inv

(* The run's state reaches the browser, unless a newer one was published   *)
(* or the hub is suspended by a relocation, which will announce the        *)
(* project.                                                                *)
LEMMA PublishStep == ASSUME Inv, Publish PROVE Inv'
<1>1. UNCHANGED <<saved, returning, builds, suspended, move, lost, spent>>
  BY DEF Publish
<1>2. /\ run.at = "end" /\ run.answer = "ready" /\ ~lane.drained
      /\ run.state \in States /\ run.scope \in States /\ run.scope.place = run.state.place
      /\ run.state.revision <= saved.revision
  BY DEF Inv, RunInv, CommitInv, Committed, Known, Publish
<1>3. /\ lane' \in Lanes /\ run' \in Runs
      /\ lane'.drained = lane.drained /\ lane'.pending \in {lane.pending, Nothing}
      /\ lane'.pending = lane.pending \/ (run'.at # "none" /\ run'.state = lane.pending)
      /\ run'.state \in {lane.pending, Nothing} /\ run'.scope = Nothing
      /\ run'.at # "none" => run'.at = "scope" /\ run'.state \in States /\ ~lane.drained
      /\ lane'.published \in {lane.published, run.state.revision}
  <2>1. PICK l \in {[lane EXCEPT !.attempts = 0],
                    [lane EXCEPT !.attempts = 0, !.published = run.state.revision]} : Kicked(l)
    BY DEF Publish
  <2>2. l \in Lanes /\ l.pending = lane.pending /\ l.drained = lane.drained
        /\ l.published \in {lane.published, run.state.revision}
    <3>1. run.state.revision \in Nat /\ 0 \in 0 .. Retries /\ lane \in Lanes
      BY <1>2, Clocks, NatBounds DEF Inv, Types
    <3> QED
      BY <3>1, <2>1 DEF Lanes
  <2> QED
    BY <2>1, <2>2, KickedLane
<1>4. PICK x \in States : /\ x.revision = run.state.revision /\ x.place = run.scope.place
                         /\ x.metadata = run.scope.metadata
                         /\ IF run.state.revision < lane.published THEN UNCHANGED browser
                            ELSE Broadcast(x)
  <2>1. [run.state EXCEPT !.metadata = run.scope.metadata] \in States
        /\ [run.state EXCEPT !.metadata = run.scope.metadata].revision = run.state.revision
        /\ [run.state EXCEPT !.metadata = run.scope.metadata].place = run.scope.place
        /\ [run.state EXCEPT !.metadata = run.scope.metadata].metadata = run.scope.metadata
    BY <1>2 DEF States
  <2> QED
    BY <2>1 DEF Publish
<1>5. /\ browser' \in Browsers /\ browser'.at = browser.at
      /\ Old(browser'.shown) /\ browser'.shown.place >= browser.shown.place
      /\ browser'.shown.revision >= browser.shown.revision
      /\ run.state.revision >= lane.published /\ ~suspended /\ browser.at = "live" =>
            browser'.shown.revision >= run.state.revision
      /\ browser.missed => browser'.missed
      /\ run.state.revision >= lane.published /\ ~suspended /\ browser.at = "loading" =>
            browser'.missed
  <2>1. Old(x)
    BY <1>2, <1>4, OldViews DEF Inv, Old, Views
  <2>2. x \in Seen /\ browser \in Browsers /\ browser.shown \in Seen /\ Old(browser.shown)
    BY OldViews DEF Inv, Types, Browsers, Seen
  <2>3. CASE run.state.revision < lane.published
    <3>1. ~(run.state.revision >= lane.published)
      BY <1>2, <2>3, Clocks DEF Inv, Types, Lanes
    <3> QED
      BY <1>4, <2>2, <2>3, <3>1, Clocks
  <2>4. CASE ~(run.state.revision < lane.published)
    <3>1. Broadcast(x)
      BY <1>4, <2>4
    <3>2. /\ Old(Merge(browser.shown, x))
          /\ Merge(browser.shown, x).place >= browser.shown.place
      BY <2>1, <2>2, OldMerge DEF Inv
    <3> QED
      BY <1>4, <2>2, <3>1, <3>2, BroadcastShown, MergeIsNewest, Clocks
  <2> QED
    BY <2>3, <2>4
<1>6. Types'
  BY <1>1, <1>2, <1>3, <1>4, <1>5 DEF Inv, Types
<1>7. ViewInv'
  BY <1>1, <1>2, <1>3, <1>4, <1>5, <1>6, OldViews, ViewsKept DEF Inv
<1>8. CommitInv'
  BY <1>1, <1>2, <1>3, <1>4, <1>5, <1>6, CommitsKept, Clocks DEF Inv, Types, CommitInv,
     Committed
<1>9. RunInv'
  BY <1>1, <1>2, <1>3, <1>4, <1>5, <1>6 DEF Inv, RunInv
<1>10. MoveInv'
  BY <1>1, <1>2, <1>3, <1>4, <1>5, <1>6 DEF Inv, MoveInv, Fenced
<1>11. BoardInv'
  <2>1. /\ browser.shown.revision \in Int /\ browser'.shown.revision \in Int
        /\ saved.revision \in Int /\ browser'.shown.revision <= saved.revision
    BY <1>1, <1>5, <1>7, Clocks DEF Inv, Types, Browsers, ViewInv, Views, Known
  <2>2. browser.shown.revision = saved.revision => browser'.shown.revision = saved.revision
    BY <1>5, <2>1
  <2>3. Fresh(run.state) => run.state.revision >= lane.published
    BY <1>2, Clocks DEF Inv, Types, CommitInv, Lanes, Fresh
  <2>4. suspended => lost \/ Moving
    BY DEF Inv, MoveInv, Moving, Fenced
  <2>5. ~lost /\ browser.at = "live" /\ Fresh(run.state) /\ ~Moving =>
           browser'.shown.revision = saved.revision
    BY <1>5, <2>1, <2>3, <2>4 DEF Fresh
  <2>6. ~lost /\ browser.at = "loading" /\ Fresh(run.state) /\ ~Moving => browser'.missed
    BY <1>5, <2>3, <2>4
  <2>7. BoardCarried => BoardCarried' \/ (Fresh(run.state) /\ ~Moving)
    <3>1. Fresh(lane.pending) => BoardCarried'
      BY <1>1, <1>3 DEF BoardCarried, Fresh
    <3>2. Moving => BoardCarried'
      BY <1>1 DEF BoardCarried, Moving
    <3>3. BringsBoard("move") \/ BringsBoard("client") => BoardCarried'
      BY <1>1 DEF BoardCarried, BringsBoard
    <3>4. (\E c \in returning : Fresh(c)) => BoardCarried'
      BY <1>1 DEF BoardCarried, Fresh
    <3>5. CASE run.at # "none" /\ Fresh(run.state)
      BY <3>2, <3>5
    <3> QED
      BY <3>1, <3>2, <3>3, <3>4, <3>5 DEF BoardCarried
  <2> QED
    BY <1>1, <1>5, <2>2, <2>5, <2>6, <2>7 DEF Inv, BoardInv
<1>12. PlaceInv'
  <2>1. /\ browser.shown.place \in Int /\ browser'.shown.place \in Int
        /\ saved.place \in Int /\ browser'.shown.place <= saved.place
    BY <1>1, <1>5, <1>7, Clocks DEF Inv, Types, Browsers, ViewInv, Views, Known
  <2>2. browser.shown.place = saved.place => browser'.shown.place = saved.place
    BY <1>5, <2>1
  <2>3. PlaceCarried => PlaceCarried'
    BY <1>1 DEF PlaceCarried, BringsPlace, Moving
  <2> QED
    BY <1>1, <1>5, <2>2, <2>3 DEF Inv, PlaceInv
<1> QED
  BY <1>6, <1>7, <1>8, <1>9, <1>10, <1>11, <1>12 DEF Inv

LEMMA DiscardStep == ASSUME Inv, Discard PROVE Inv'
<1>1. UNCHANGED <<saved, returning, builds, suspended, browser, move, lost, spent>>
  BY DEF Discard
<1>2. run.at = "end" /\ (run.answer = "superseded" \/ lane.drained)
  BY DEF Discard
<1>3. /\ lane' \in Lanes /\ run' \in Runs
      /\ lane'.drained = lane.drained /\ lane'.pending \in {lane.pending, Nothing}
      /\ lane'.pending = lane.pending \/ (run'.at # "none" /\ run'.state = lane.pending)
      /\ run'.state \in {lane.pending, Nothing} /\ run'.scope = Nothing
      /\ run'.at # "none" => run'.at = "scope" /\ run'.state \in States /\ ~lane.drained
      /\ lane'.published = lane.published
  <2>1. PICK l \in {lane, [lane EXCEPT !.attempts = 0]} : Kicked(l)
    BY DEF Discard
  <2>2. l \in Lanes /\ l.pending = lane.pending /\ l.drained = lane.drained
        /\ l.published = lane.published
    BY NatBounds DEF Inv, Types, Lanes
  <2> QED
    BY <2>1, <2>2, KickedLane
<1>4. Types'
  BY <1>1, <1>2, <1>3 DEF Inv, Types
<1>5. ViewInv'
  BY <1>1, <1>2, <1>3, <1>4, OldViews, ViewsKept DEF Inv
<1>6. CommitInv'
  BY <1>1, <1>2, <1>3, <1>4, CommitsKept, Clocks DEF Inv, Types, CommitInv, Committed
<1>7. RunInv'
  BY <1>1, <1>2, <1>3, <1>4 DEF Inv, RunInv
<1>8. MoveInv'
  BY <1>1, <1>2, <1>3, <1>4 DEF Inv, MoveInv, Fenced
<1>9. BoardInv'
  <2>1. Fresh(lane.pending) => BoardCarried'
    BY <1>1, <1>3 DEF BoardCarried, Fresh
  <2>2. Fresh(run.state) => Moving'
    BY <1>1, <1>2 DEF Inv, RunInv, MoveInv, Fresh, Moving
  <2>3. BoardCarried => BoardCarried'
    BY <1>1, <2>1, <2>2 DEF BoardCarried, BringsBoard, Fresh, Moving
  <2> QED
    BY <1>1, <2>3 DEF Inv, BoardInv
<1>10. PlaceInv'
  BY <1>1 DEF Inv, PlaceInv, PlaceCarried, BringsPlace, Moving, Fenced
<1> QED
  BY <1>4, <1>5, <1>6, <1>7, <1>8, <1>9, <1>10 DEF Inv

(* Of a state that could not be published and a newer pending one, the     *)
(* newer stays.                                                            *)
LEMMA RetryStep == ASSUME Inv, Retry PROVE Inv'
<1>1. UNCHANGED <<saved, returning, builds, suspended, browser, move, spent>>
  BY DEF Retry
<1>2. run.at = "end" /\ (run.answer = "failed" \/ ~lane.drained) /\ run.state \in States
      /\ run.state.revision <= saved.revision /\ (lost' <=> lost \/ lane.attempts >= Retries)
  BY DEF Inv, RunInv, CommitInv, Committed, Known, Retry
<1>3. /\ lane' \in Lanes /\ run' \in Runs
      /\ lane'.drained = lane.drained /\ lane'.published = lane.published
      /\ lane'.pending \in {lane.pending, run.state, Nothing}
      /\ run'.state \in {lane.pending, run.state, Nothing} /\ run'.scope = Nothing
      /\ run'.at # "none" => run'.at = "scope" /\ run'.state \in States /\ ~lane.drained
      /\ lane.attempts < Retries =>
            LET y == IF Newer(run.state) THEN lane.pending ELSE run.state IN
            lane'.pending = y \/ (run'.at # "none" /\ run'.state = y)
  <2> DEFINE l == RetryLane(run.state)
  <2>1. Kicked(l)
    BY DEF Retry
  <2>2. /\ l \in Lanes /\ l.drained = lane.drained /\ l.published = lane.published
        /\ l.pending \in {lane.pending, run.state, Nothing}
        /\ lane.attempts < Retries =>
              l.pending = IF Newer(run.state) THEN lane.pending ELSE run.state
    BY <1>2, RetriedLane DEF Inv
  <2> HIDE DEF l
  <2> QED
    BY <2>1, <2>2, KickedLane
<1>4. Types'
  <2>1. lost' \in BOOLEAN
    BY DEF Retry, Inv, Types
  <2> QED
    BY <1>1, <1>3, <2>1 DEF Inv, Types
<1>5. ViewInv'
  BY <1>1, <1>2, <1>3, <1>4, OldViews, ViewsKept DEF Inv
<1>6. CommitInv'
  BY <1>1, <1>2, <1>3, <1>4, CommitsKept, Clocks DEF Inv, Types, CommitInv, Committed
<1>7. RunInv'
  BY <1>1, <1>2, <1>3, <1>4 DEF Inv, RunInv
<1>8. MoveInv'
  BY <1>1, <1>2, <1>3, <1>4 DEF Inv, MoveInv, Fenced
<1>9. BoardInv'
  <2>1. SUFFICES ASSUME ~lost' PROVE BoardCarried => BoardCarried'
    BY <1>1, <1>2 DEF Inv, BoardInv
  <2>2. lane.attempts < Retries
    BY <2>1, <1>2, NatBounds DEF Inv, Types, Lanes
  <2> DEFINE y == IF Newer(run.state) THEN lane.pending ELSE run.state
  <2>3. lane'.pending = y \/ (run'.at # "none" /\ run'.state = y)
    BY <1>3, <2>2
  <2>4. /\ lane.pending.revision \in Int /\ lane.pending.revision <= saved.revision
        /\ run.state.revision \in Nat /\ saved.revision \in Nat
        /\ lane.pending.revision = run.state.revision => lane.pending = run.state
    BY <1>2, Clocks DEF Inv, Types, Lanes, CommitInv, Committed, Known
  <2>5. Fresh(lane.pending) \/ Fresh(run.state) => Fresh(y)
    BY <1>2, <2>4 DEF Newer, Fresh
  <2> HIDE DEF y
  <2>6. Fresh(y) => BoardCarried'
    BY <1>1, <2>3 DEF BoardCarried, Fresh
  <2> QED
    BY <1>1, <2>5, <2>6 DEF BoardCarried, BringsBoard, Fresh, Moving
<1>10. PlaceInv'
  BY <1>1, <1>2, <1>3, <1>4 DEF Inv, PlaceInv, PlaceCarried, BringsPlace, Moving, Fenced
<1> QED
  BY <1>4, <1>5, <1>6, <1>7, <1>8, <1>9, <1>10 DEF Inv

LEMMA BackoffEndsStep == ASSUME Inv, BackoffEnds PROVE Inv'
<1>1. UNCHANGED <<saved, returning, builds, suspended, browser, move, lost, spent>>
  BY DEF BackoffEnds
<1>2. /\ lane' \in Lanes /\ run' \in Runs
      /\ lane'.drained = lane.drained /\ lane'.published = lane.published
      /\ lane'.pending \in {lane.pending, Nothing}
      /\ lane'.pending = lane.pending \/ (run'.at # "none" /\ run'.state = lane.pending)
      /\ \/ run' = run
         \/ /\ run.at = "none" /\ run'.state \in {lane.pending, Nothing} /\ run'.scope = Nothing
            /\ run'.at # "none" => run'.at = "scope" /\ run'.state \in States /\ ~lane.drained
  <2> DEFINE l == [lane EXCEPT !.backoff = FALSE]
  <2>1. l \in Lanes /\ l.pending = lane.pending /\ l.drained = lane.drained
        /\ l.published = lane.published
    BY DEF Inv, Types, Lanes
  <2>2. Kick(l)
    BY DEF BackoffEnds
  <2> HIDE DEF l
  <2> QED
    BY <2>1, <2>2, KickLane DEF Inv, Types
<1>3. Types'
  BY <1>1, <1>2 DEF Inv, Types
<1>4. ViewInv'
  BY <1>1, <1>2, <1>3, OldViews, ViewsKept DEF Inv
<1>5. CommitInv'
  BY <1>1, <1>2, <1>3, CommitsKept, Clocks DEF Inv, Types, CommitInv, Committed
<1>6. RunInv'
  BY <1>1, <1>2, <1>3 DEF Inv, RunInv
<1>7. MoveInv'
  BY <1>1, <1>2, <1>3 DEF Inv, MoveInv, Fenced
<1>8. BoardInv'
  BY <1>1, <1>2, <1>3 DEF Inv, BoardInv, BoardCarried, BringsBoard, Fresh, Moving, Fenced
<1>9. PlaceInv'
  BY <1>1 DEF Inv, PlaceInv, PlaceCarried, BringsPlace, Moving, Fenced
<1> QED
  BY <1>3, <1>4, <1>5, <1>6, <1>7, <1>8, <1>9 DEF Inv

LEMMA AdmitStep == ASSUME Inv, NEW b \in Builders, Admit(b) PROVE Inv'
<1>1. UNCHANGED <<saved, returning, lane, run, suspended, browser, move, lost, spent>>
  BY DEF Admit
<1>2. /\ builds[b].at = "waiting" /\ move \notin Fenced
      /\ b = "move" \/ move \notin Exclusive
  BY DEF Admit, MayAdmit, Exclusive, Fenced
<1>3. /\ builds' \in [Builders -> Builds] /\ builds'[b] = [at |-> "board", state |-> saved]
      /\ \A c \in Builders : c # b => builds'[c] = builds[c]
  <2>1. [at |-> "board", state |-> saved] \in Builds
    BY DEF Inv, Types, Builds, Seen
  <2> QED
    BY <2>1, ChangedBuild DEF Inv, Types, Admit
<1>4. Types'
  BY <1>1, <1>2, <1>3 DEF Inv, Types
<1>5. ViewInv'
  BY <1>1, <1>2, <1>3, <1>4, OldViews, ViewsKept DEF Inv
<1>6. CommitInv'
  BY <1>1 DEF Inv, CommitInv, Committed, Known
<1>7. RunInv'
  BY <1>1, <1>2, <1>3, <1>4, BuildValues DEF Inv, RunInv, Types
<1>8. MoveInv'
  BY <1>1, <1>2, <1>3, <1>4, BuildValues DEF Inv, MoveInv, Fenced, Exclusive
<1>9. BoardInv'
  BY <1>1, <1>2, <1>3, <1>4, BuildValues DEF Inv, BoardInv, BoardCarried, BringsBoard, Fresh,
     Moving, Fenced
<1>10. PlaceInv'
  BY <1>1, <1>2, <1>3, <1>4, BuildValues DEF Inv, PlaceInv, PlaceCarried, BringsPlace, Moving,
     Fenced
<1> QED
  BY <1>4, <1>5, <1>6, <1>7, <1>8, <1>9, <1>10 DEF Inv

(* The board is read after the scope, so that the snapshot may be newer    *)
(* in its board than in its location.                                      *)
LEMMA ReadBoardStep == ASSUME Inv, NEW b \in Builders, ReadBoard(b) PROVE Inv'
<1>1. UNCHANGED <<saved, returning, lane, run, suspended, browser, move, lost, spent>>
  BY DEF ReadBoard
<1>2. builds[b].at = "board" /\ builds[b].state \in States
  BY DEF Inv, RunInv, ReadBoard
<1>3. /\ builds' \in [Builders -> Builds] /\ builds'[b].at = "send"
      /\ builds'[b].state.revision = saved.revision
      /\ builds'[b].state.metadata = builds[b].state.metadata
      /\ builds'[b].state.place = builds[b].state.place
      /\ \A c \in Builders : c # b => builds'[c] = builds[c]
  <2> DEFINE v == [at |-> "send", state |-> [builds[b].state EXCEPT !.revision = saved.revision]]
  <2>1. /\ v \in Builds /\ v.at = "send" /\ v.state.revision = saved.revision
        /\ v.state.metadata = builds[b].state.metadata /\ v.state.place = builds[b].state.place
    BY <1>2 DEF Inv, Types, Builds, Seen, States
  <2>2. builds' = [builds EXCEPT ![b] = v]
    BY DEF ReadBoard, Inv, Types
  <2> HIDE DEF v
  <2> QED
    BY <2>1, <2>2, ChangedBuild DEF Inv, Types
<1>4. Types'
  BY <1>1, <1>2, <1>3 DEF Inv, Types
<1>5. ViewInv'
  <2>1. Old(builds[b].state) /\ builds[b].state # Nothing
    BY <1>2, OldViews, Clocks DEF Inv
  <2>2. Old(builds'[b].state)
    BY <1>3, <2>1, Clocks DEF Old, Inv, Types
  <2> QED
    BY <1>1, <1>3, <1>4, <2>2, OldViews, ViewsKept DEF Inv
<1>6. CommitInv'
  BY <1>1 DEF Inv, CommitInv, Committed, Known
<1>7. RunInv'
  BY <1>1, <1>2, <1>3, <1>4, BuildValues DEF Inv, RunInv
<1>8. MoveInv'
  BY <1>1, <1>2, <1>3, <1>4, BuildValues DEF Inv, MoveInv, Fenced
<1>9. BoardInv'
  BY <1>1, <1>2, <1>3, <1>4, BuildValues DEF Inv, BoardInv, BoardCarried, BringsBoard, Fresh,
     Moving, Fenced
<1>10. PlaceInv'
  BY <1>1, <1>2, <1>3, <1>4, BuildValues DEF Inv, PlaceInv, PlaceCarried, BringsPlace, Moving,
     Fenced
<1> QED
  BY <1>4, <1>5, <1>6, <1>7, <1>8, <1>9, <1>10 DEF Inv

(* The snapshot that ends a relocation shows its location; a snapshot of   *)
(* the hub's own may be older than what is shown, and then changes         *)
(* nothing.                                                                *)
LEMMA SendStep == ASSUME Inv, NEW b \in Builders, Send(b) PROVE Inv'
<1>1. UNCHANGED <<saved, returning, lane, run, suspended, spent>>
  BY DEF Send
<1>2. /\ b # "client" /\ builds[b].at \in {"send", "failed"}
      /\ (lost' <=> lost \/ (b = "move" /\ builds[b].at = "failed"))
      /\ move' = IF b = "move" THEN "idle" ELSE move
  BY DEF Send
<1>3. /\ builds' \in [Builders -> Builds] /\ builds'[b].at = "none"
      /\ builds'[b].state = Nothing
      /\ \A c \in Builders : c # b => builds'[c] = builds[c]
  BY BuildValues, ChangedBuild DEF Inv, Types, Send
<1>4. /\ browser' \in Browsers /\ browser'.at = browser.at /\ Old(browser'.shown)
      /\ browser'.shown.place >= browser.shown.place
      /\ browser'.shown.revision >= browser.shown.revision
      /\ builds[b].at = "send" /\ ~suspended /\ browser.at = "live" =>
            /\ browser'.shown.revision >= builds[b].state.revision
            /\ browser'.shown.place >= builds[b].state.place
      /\ browser.missed => browser'.missed
      /\ builds[b].at = "send" /\ ~suspended /\ browser.at = "loading" => browser'.missed
  <2>1. builds[b].state \in Seen /\ Old(builds[b].state)
    BY BuildValues, OldViews DEF Inv, Types
  <2>2. browser \in Browsers /\ browser.shown \in Seen /\ Old(browser.shown)
    BY OldViews DEF Inv, Types, Browsers
  <2>3. CASE builds[b].at = "send"
    <3>1. Broadcast(builds[b].state)
      BY <2>3 DEF Send
    <3>2. /\ Old(Merge(browser.shown, builds[b].state))
          /\ Merge(browser.shown, builds[b].state).place >= browser.shown.place
          /\ Merge(browser.shown, builds[b].state).place >= builds[b].state.place
      BY <2>1, OldMerge DEF Inv
    <3> QED
      BY <2>1, <2>2, <3>1, <3>2, BroadcastShown, MergeIsNewest, Clocks
  <2>4. CASE builds[b].at = "failed"
    BY <2>2, <2>4, Clocks DEF Send
  <2> QED
    BY <1>2, <2>3, <2>4
<1>5. Types'
  <2>1. lost' \in BOOLEAN /\ move' \in MoveStages
    BY <1>2 DEF Send, Inv, Types, MoveStages
  <2> QED
    BY <1>1, <1>3, <1>4, <2>1 DEF Inv, Types
<1>6. ViewInv'
  BY <1>1, <1>2, <1>3, <1>4, <1>5, OldViews, ViewsKept DEF Inv
<1>7. CommitInv'
  BY <1>1 DEF Inv, CommitInv, Committed, Known
<1>8. RunInv'
  BY <1>1, <1>2, <1>3, <1>4, <1>5, BuildValues DEF Inv, RunInv
<1>9. MoveInv'
  BY <1>1, <1>2, <1>3, <1>4, <1>5, BuildValues DEF Inv, MoveInv, Fenced
<1>10. BoardInv'
  <2>1. /\ browser.shown.revision \in Int /\ browser'.shown.revision \in Int
        /\ saved.revision \in Int /\ browser'.shown.revision <= saved.revision
    BY <1>1, <1>4, <1>6, Clocks DEF Inv, Types, Browsers, ViewInv, Views, Known
  <2>2. browser.shown.revision = saved.revision => browser'.shown.revision = saved.revision
    BY <1>4, <2>1
  <2>3. b = "move" => move \in {"announcing", "reannouncing"}
    BY <1>2 DEF Inv, MoveInv
  <2>4. CASE b = "move" /\ BringsBoard(b)
    <3>1. suspended => lost
      BY <2>3, <2>4 DEF Inv, MoveInv
    <3>2. builds[b].at = "send" => builds[b].state.revision = saved.revision
      BY <1>2, <2>4 DEF BringsBoard
    <3>3. ~lost' /\ browser.at = "live" => browser'.shown.revision = saved.revision
      BY <1>2, <1>4, <2>1, <2>4, <3>1, <3>2
    <3>4. ~lost' /\ browser.at = "loading" => browser'.missed
      BY <1>2, <1>4, <2>4, <3>1
    <3> QED
      BY <1>1, <1>4, <3>3, <3>4 DEF BoardInv
  <2>5. CASE ~(b = "move" /\ BringsBoard(b))
    <3>1. Moving => Moving'
      BY <1>2, <2>3 DEF Moving, Fenced
    <3>2. BringsBoard("client") => BringsBoard("client")'
      BY <1>2, <1>1, <1>3, BuildValues DEF BringsBoard
    <3>3. BringsBoard("move") => BringsBoard("move")'
      BY <1>1, <1>3, <2>5, BuildValues DEF BringsBoard
    <3>4. BoardCarried => BoardCarried'
      BY <1>1, <3>1, <3>2, <3>3 DEF BoardCarried, Fresh
    <3> QED
      BY <1>1, <1>2, <1>4, <2>2, <3>4 DEF Inv, BoardInv
  <2> QED
    BY <2>4, <2>5
<1>11. PlaceInv'
  <2>1. /\ browser.shown.place \in Int /\ browser'.shown.place \in Int
        /\ saved.place \in Int /\ browser'.shown.place <= saved.place
    BY <1>1, <1>4, <1>6, Clocks DEF Inv, Types, Browsers, ViewInv, Views, Known
  <2>2. browser.shown.place = saved.place => browser'.shown.place = saved.place
    BY <1>4, <2>1
  <2>3. b = "move" => move \in {"announcing", "reannouncing"}
    BY <1>2 DEF Inv, MoveInv
  <2>4. CASE b = "move" /\ BringsPlace(b)
    <3>1. suspended => lost
      BY <2>3, <2>4 DEF Inv, MoveInv
    <3>2. builds[b].at = "send" => builds[b].state.place = saved.place
      BY <1>2, <2>4 DEF BringsPlace
    <3>3. ~lost' /\ browser.at = "live" => browser'.shown.place = saved.place
      BY <1>2, <1>4, <2>1, <2>4, <3>1, <3>2
    <3>4. ~lost' /\ browser.at = "loading" => browser'.missed
      BY <1>2, <1>4, <2>4, <3>1
    <3> QED
      BY <1>1, <1>4, <3>3, <3>4 DEF PlaceInv
  <2>5. CASE ~(b = "move" /\ BringsPlace(b))
    <3>1. Moving => Moving'
      BY <1>2, <2>3 DEF Moving, Fenced
    <3>2. BringsPlace("client") => BringsPlace("client")'
      BY <1>2, <1>1, <1>3, BuildValues DEF BringsPlace
    <3>3. BringsPlace("move") => BringsPlace("move")'
      BY <1>1, <1>3, <2>5, BuildValues DEF BringsPlace
    <3>4. PlaceCarried => PlaceCarried'
      BY <1>1, <3>1, <3>2, <3>3 DEF PlaceCarried, Fresh
    <3> QED
      BY <1>1, <1>2, <1>4, <2>2, <3>4 DEF Inv, PlaceInv
  <2> QED
    BY <2>4, <2>5
<1> QED
  BY <1>5, <1>6, <1>7, <1>8, <1>9, <1>10, <1>11 DEF Inv

LEMMA BuildFailsStep == ASSUME Inv, NEW b \in Builders, BuildFails(b) PROVE Inv'
<1>1. UNCHANGED <<saved, returning, lane, run, suspended, browser, move, lost>>
  BY DEF BuildFails
<1>2. /\ builds' \in [Builders -> Builds] /\ builds[b].at = "board" /\ builds'[b].at = "failed"
      /\ builds'[b].state = Nothing
      /\ \A c \in Builders : c # b => builds'[c] = builds[c]
  BY BuildValues, ChangedBuild DEF Inv, Types, BuildFails
<1>3. Fault
  BY DEF BuildFails
<1>4. Types'
  BY <1>1, <1>2, <1>3, SpendType DEF Inv, Types
<1>5. ViewInv'
  BY <1>1, <1>2, <1>3, <1>4, OldViews, ViewsKept DEF Inv
<1>6. CommitInv'
  BY <1>1 DEF Inv, CommitInv, Committed, Known
<1>7. RunInv'
  BY <1>1, <1>2, <1>3, <1>4, BuildValues DEF Inv, RunInv
<1>8. MoveInv'
  BY <1>1, <1>2, <1>3, <1>4, BuildValues DEF Inv, MoveInv, Fenced
<1>9. BoardInv'
  BY <1>1, <1>2, <1>3, <1>4, BuildValues DEF Inv, BoardInv, BoardCarried, BringsBoard, Fresh,
     Moving, Fenced
<1>10. PlaceInv'
  BY <1>1, <1>2, <1>3, <1>4, BuildValues DEF Inv, PlaceInv, PlaceCarried, BringsPlace, Moving,
     Fenced
<1> QED
  BY <1>4, <1>5, <1>6, <1>7, <1>8, <1>9, <1>10 DEF Inv

(* A loaded snapshot is merged into what the browser showed before; what   *)
(* it missed is caught up with.                                            *)
LEMMA RegisterStep == ASSUME Inv, Register PROVE Inv'
<1>1. UNCHANGED <<saved, returning, lane, run, suspended, move, lost, spent>>
  BY DEF Register
<1>2. browser.at = "loading" /\ builds["client"].at \in {"send", "failed"}
  BY DEF Register, Loaded
<1>3. /\ builds' \in [Builders -> Builds] /\ builds'["client"].state = Nothing
      /\ builds'["client"].at =
            IF browser.missed \/ builds["client"].at = "failed" THEN "waiting" ELSE "none"
      /\ \A c \in Builders : c # "client" => builds'[c] = builds[c]
  BY BuildValues, ChangedBuild DEF Inv, Types, Register, MustCatchUp
<1>4. /\ browser' \in Browsers /\ browser'.at = "live" /\ Old(browser'.shown)
      /\ browser'.shown.place >= browser.shown.place
      /\ browser'.shown.revision >= browser.shown.revision
      /\ builds["client"].at = "send" =>
            /\ browser'.shown.revision >= builds["client"].state.revision
            /\ browser'.shown.place >= builds["client"].state.place
  <2>1. builds["client"].state \in Seen /\ Old(builds["client"].state)
    BY BuildValues, OldViews DEF Inv, Types
  <2>2. browser \in Browsers /\ browser.shown \in Seen /\ Old(browser.shown)
    BY OldViews DEF Inv, Types, Browsers
  <2>3. /\ Merge(browser.shown, builds["client"].state) \in Seen
        /\ Old(Merge(browser.shown, builds["client"].state))
        /\ Merge(browser.shown, builds["client"].state).place >= browser.shown.place
        /\ Merge(browser.shown, builds["client"].state).place >= builds["client"].state.place
        /\ Merge(browser.shown, builds["client"].state).revision >= browser.shown.revision
        /\ Merge(browser.shown, builds["client"].state).revision
              >= builds["client"].state.revision
    BY <2>1, <2>2, OldMerge, MergeIsNewest DEF Inv
  <2>4. browser'.at = "live" /\ browser'.shown = Shown(builds["client"].state)
        /\ browser'.missed \in BOOLEAN
    BY <2>2 DEF Register, Browsers
  <2>5. browser' \in Browsers
    BY <2>2, <2>3, <2>4 DEF Register, Shown, Browsers
  <2> QED
    BY <2>1, <2>2, <2>3, <2>4, <2>5, Clocks DEF Shown
<1>5. Types'
  BY <1>1, <1>2, <1>3, <1>4 DEF Inv, Types
<1>6. ViewInv'
  BY <1>1, <1>2, <1>3, <1>4, <1>5, OldViews, ViewsKept DEF Inv
<1>7. CommitInv'
  BY <1>1 DEF Inv, CommitInv, Committed, Known
<1>8. RunInv'
  BY <1>1, <1>2, <1>3, <1>4, <1>5, BuildValues DEF Inv, RunInv
<1>9. MoveInv'
  BY <1>1, <1>2, <1>3, <1>4, <1>5, BuildValues DEF Inv, MoveInv, Fenced
<1>10. BoardInv'
  <2>1. /\ browser.shown.revision \in Int /\ browser'.shown.revision \in Int
        /\ saved.revision \in Int /\ browser'.shown.revision <= saved.revision
    BY <1>1, <1>4, <1>6, Clocks DEF Inv, Types, Browsers, ViewInv, Views, Known
  <2>2. browser.shown.revision = saved.revision => browser'.shown.revision = saved.revision
    BY <1>4, <2>1
  <2>3. BringsBoard("move") => BringsBoard("move")'
    BY <1>1, <1>3, BuildValues DEF BringsBoard
  <2>4. builds["client"].at = "send" /\ BringsBoard("client") =>
           browser'.shown.revision = saved.revision
    BY <1>4, <2>1 DEF BringsBoard
  <2>5. BoardCarried => BoardCarried' \/ BringsBoard("client")
    BY <1>1, <2>3 DEF BoardCarried, Moving, Fresh
  <2>6. browser.missed \/ builds["client"].at = "failed" => BoardCarried'
    BY <1>3 DEF BoardCarried, BringsBoard
  <2> QED
    BY <1>1, <1>2, <1>4, <2>4, <2>5, <2>6 DEF Inv, BoardInv
<1>11. PlaceInv'
  <2>1. /\ browser.shown.place \in Int /\ browser'.shown.place \in Int
        /\ saved.place \in Int /\ browser'.shown.place <= saved.place
    BY <1>1, <1>4, <1>6, Clocks DEF Inv, Types, Browsers, ViewInv, Views, Known
  <2>2. browser.shown.place = saved.place => browser'.shown.place = saved.place
    BY <1>4, <2>1
  <2>3. BringsPlace("move") => BringsPlace("move")'
    BY <1>1, <1>3, BuildValues DEF BringsPlace
  <2>4. builds["client"].at = "send" /\ BringsPlace("client") =>
           browser'.shown.place = saved.place
    BY <1>4, <2>1 DEF BringsPlace
  <2>5. PlaceCarried => PlaceCarried' \/ BringsPlace("client")
    BY <1>1, <2>3 DEF PlaceCarried, Moving, Fresh
  <2>6. browser.missed \/ builds["client"].at = "failed" => PlaceCarried'
    BY <1>3 DEF PlaceCarried, BringsPlace
  <2> QED
    BY <1>1, <1>2, <1>4, <2>4, <2>5, <2>6 DEF Inv, PlaceInv
<1> QED
  BY <1>5, <1>6, <1>7, <1>8, <1>9, <1>10, <1>11 DEF Inv

(* A catch-up that fails is reported.                                      *)
LEMMA CatchUpStep == ASSUME Inv, CatchUp PROVE Inv'
<1>1. UNCHANGED <<saved, returning, lane, run, suspended, move, spent>>
  BY DEF CatchUp
<1>2. /\ browser.at = "live" /\ builds["client"].at \in {"send", "failed"}
      /\ (lost' <=> lost \/ builds["client"].at = "failed")
  BY DEF CatchUp, Loaded
<1>3. /\ builds' \in [Builders -> Builds] /\ builds'["client"].state = Nothing
      /\ builds'["client"].at = "none"
      /\ \A c \in Builders : c # "client" => builds'[c] = builds[c]
  BY BuildValues, ChangedBuild DEF Inv, Types, CatchUp
<1>4. /\ browser' \in Browsers /\ browser'.at = "live" /\ Old(browser'.shown)
      /\ browser'.shown.place >= browser.shown.place
      /\ browser'.shown.revision >= browser.shown.revision
      /\ builds["client"].at = "send" =>
            /\ browser'.shown.revision >= builds["client"].state.revision
            /\ browser'.shown.place >= builds["client"].state.place
  <2>1. builds["client"].state \in Seen /\ Old(builds["client"].state)
    BY BuildValues, OldViews DEF Inv, Types
  <2>2. browser \in Browsers /\ browser.shown \in Seen /\ Old(browser.shown)
    BY OldViews DEF Inv, Types, Browsers
  <2>3. /\ Merge(browser.shown, builds["client"].state) \in Seen
        /\ Old(Merge(browser.shown, builds["client"].state))
        /\ Merge(browser.shown, builds["client"].state).place >= browser.shown.place
        /\ Merge(browser.shown, builds["client"].state).place >= builds["client"].state.place
        /\ Merge(browser.shown, builds["client"].state).revision >= browser.shown.revision
        /\ Merge(browser.shown, builds["client"].state).revision
              >= builds["client"].state.revision
    BY <2>1, <2>2, OldMerge, MergeIsNewest DEF Inv
  <2>4. browser'.at = "live" /\ browser'.shown = Shown(builds["client"].state)
        /\ browser'.missed \in BOOLEAN
    BY <2>2 DEF CatchUp, Browsers
  <2>5. browser' \in Browsers
    BY <2>2, <2>3, <2>4 DEF CatchUp, Shown, Browsers
  <2> QED
    BY <2>1, <2>2, <2>3, <2>4, <2>5, Clocks DEF Shown
<1>5. Types'
  <2>1. lost' \in BOOLEAN
    BY DEF CatchUp, Inv, Types
  <2> QED
    BY <1>1, <1>3, <1>4, <2>1 DEF Inv, Types
<1>6. ViewInv'
  BY <1>1, <1>2, <1>3, <1>4, <1>5, OldViews, ViewsKept DEF Inv
<1>7. CommitInv'
  BY <1>1 DEF Inv, CommitInv, Committed, Known
<1>8. RunInv'
  BY <1>1, <1>2, <1>3, <1>4, <1>5, BuildValues DEF Inv, RunInv
<1>9. MoveInv'
  BY <1>1, <1>2, <1>3, <1>4, <1>5, BuildValues DEF Inv, MoveInv, Fenced
<1>10. BoardInv'
  <2>1. /\ browser.shown.revision \in Int /\ browser'.shown.revision \in Int
        /\ saved.revision \in Int /\ browser'.shown.revision <= saved.revision
    BY <1>1, <1>4, <1>6, Clocks DEF Inv, Types, Browsers, ViewInv, Views, Known
  <2>2. browser.shown.revision = saved.revision => browser'.shown.revision = saved.revision
    BY <1>4, <2>1
  <2>3. BringsBoard("move") => BringsBoard("move")'
    BY <1>1, <1>3, BuildValues DEF BringsBoard
  <2>4. builds["client"].at = "send" /\ BringsBoard("client") =>
           browser'.shown.revision = saved.revision
    BY <1>4, <2>1 DEF BringsBoard
  <2>5. BoardCarried => BoardCarried' \/ BringsBoard("client")
    BY <1>1, <2>3 DEF BoardCarried, Moving, Fresh
  <2> QED
    BY <1>1, <1>2, <1>4, <2>2, <2>4, <2>5 DEF Inv, BoardInv
<1>11. PlaceInv'
  <2>1. /\ browser.shown.place \in Int /\ browser'.shown.place \in Int
        /\ saved.place \in Int /\ browser'.shown.place <= saved.place
    BY <1>1, <1>4, <1>6, Clocks DEF Inv, Types, Browsers, ViewInv, Views, Known
  <2>2. browser.shown.place = saved.place => browser'.shown.place = saved.place
    BY <1>4, <2>1
  <2>3. BringsPlace("move") => BringsPlace("move")'
    BY <1>1, <1>3, BuildValues DEF BringsPlace
  <2>4. builds["client"].at = "send" /\ BringsPlace("client") =>
           browser'.shown.place = saved.place
    BY <1>4, <2>1 DEF BringsPlace
  <2>5. PlaceCarried => PlaceCarried' \/ BringsPlace("client")
    BY <1>1, <2>3 DEF PlaceCarried, Moving, Fresh
  <2> QED
    BY <1>1, <1>2, <1>4, <2>2, <2>4, <2>5 DEF Inv, PlaceInv
<1> QED
  BY <1>5, <1>6, <1>7, <1>8, <1>9, <1>10, <1>11 DEF Inv

(* Draining the lane forgets what is pending, for the relocation           *)
(* announces it.                                                           *)
LEMMA BeginMoveStep == ASSUME Inv, BeginMove PROVE Inv'
<1>1. UNCHANGED <<saved, returning, run, builds, suspended, browser, lost, spent>>
  BY DEF BeginMove
<1>2. /\ move = "waiting" /\ move' = "draining" /\ \A c \in Builders : builds[c].at # "board"
  BY DEF BeginMove
<1>3. /\ lane' \in Lanes /\ lane'.pending = Nothing /\ lane'.drained
      /\ lane'.published = lane.published
  BY LaneValues DEF Inv, BeginMove
<1>4. Types'
  BY <1>1, <1>2, <1>3 DEF Inv, Types, MoveStages, Exclusive
<1>5. ViewInv'
  BY <1>1 DEF Inv, ViewInv, Views, Known, Earlier
<1>6. CommitInv'
  BY <1>1, <1>2, <1>3, <1>4, CommitsKept, Clocks DEF Inv, Types, CommitInv, Committed
<1>7. RunInv'
  BY <1>1 DEF Inv, RunInv
<1>8. MoveInv'
  BY <1>1, <1>2, <1>3, <1>4 DEF Inv, MoveInv, Fenced
<1>9. BoardInv'
  BY <1>1, <1>2, <1>3, <1>4 DEF Inv, BoardInv, BoardCarried, BringsBoard, Fresh, Moving,
     Fenced
<1>10. PlaceInv'
  BY <1>1, <1>2, <1>3, <1>4 DEF Inv, PlaceInv, PlaceCarried, BringsPlace, Moving, Fenced
<1> QED
  BY <1>4, <1>5, <1>6, <1>7, <1>8, <1>9, <1>10 DEF Inv

LEMMA DrainedStep == ASSUME Inv, Drained PROVE Inv'
<1>1. UNCHANGED <<saved, returning, lane, run, builds, suspended, browser, lost, spent>>
  BY DEF Drained
<1>2. move = "draining" /\ move' = "suspending" /\ run.at = "none"
  BY DEF Drained
<1>3. Types'
  BY <1>1, <1>2 DEF Inv, Types, MoveStages, Exclusive
<1>4. ViewInv'
  BY <1>1 DEF Inv, ViewInv, Views, Known, Earlier
<1>5. CommitInv'
  BY <1>1 DEF Inv, CommitInv, Committed, Known
<1>6. RunInv'
  BY <1>1 DEF Inv, RunInv
<1>7. MoveInv'
  BY <1>1, <1>2, <1>3 DEF Inv, MoveInv, Fenced
<1>8. BoardInv'
  BY <1>1, <1>2, <1>3 DEF Inv, BoardInv, BoardCarried, BringsBoard, Fresh, Moving, Fenced
<1>9. PlaceInv'
  BY <1>1, <1>2, <1>3 DEF Inv, PlaceInv, PlaceCarried, BringsPlace, Moving, Fenced
<1> QED
  BY <1>3, <1>4, <1>5, <1>6, <1>7, <1>8, <1>9 DEF Inv

LEMMA SuspendStep == ASSUME Inv, Suspend PROVE Inv'
<1>1. UNCHANGED <<saved, returning, run, builds, browser, lost, spent>>
  BY DEF Suspend
<1>2. /\ move = "suspending" /\ move' = "moving" /\ suspended' = TRUE
  BY DEF Suspend
<1>3. /\ lane' \in Lanes /\ lane'.pending = Nothing /\ lane'.drained = lane.drained
      /\ lane'.published = lane.published
  BY LaneValues DEF Inv, Suspend
<1>4. Types'
  BY <1>1, <1>2, <1>3 DEF Inv, Types, MoveStages, Exclusive
<1>5. ViewInv'
  BY <1>1 DEF Inv, ViewInv, Views, Known, Earlier
<1>6. CommitInv'
  BY <1>1, <1>2, <1>3, <1>4, CommitsKept, Clocks DEF Inv, Types, CommitInv, Committed
<1>7. RunInv'
  BY <1>1 DEF Inv, RunInv
<1>8. MoveInv'
  BY <1>1, <1>2, <1>3, <1>4 DEF Inv, MoveInv, Fenced
<1>9. BoardInv'
  BY <1>1, <1>2, <1>3, <1>4 DEF Inv, BoardInv, BoardCarried, BringsBoard, Fresh, Moving,
     Fenced
<1>10. PlaceInv'
  BY <1>1, <1>2, <1>3, <1>4 DEF Inv, PlaceInv, PlaceCarried, BringsPlace, Moving, Fenced
<1> QED
  BY <1>4, <1>5, <1>6, <1>7, <1>8, <1>9, <1>10 DEF Inv

LEMMA RewriteBoardStep == ASSUME Inv, RewriteBoard PROVE Inv'
<1>1. UNCHANGED <<returning, lane, run, builds, suspended, browser, lost>>
  BY DEF RewriteBoard
<1>2. move = "moving" /\ move' = "indexing"
  BY DEF RewriteBoard
<1>3. /\ saved' \in States /\ saved'.revision >= saved.revision
      /\ saved'.metadata = saved.metadata /\ saved'.place = saved.place
      /\ spent' \in Spents
  <2>1. saved \in States /\ spent \in Spents
    BY DEF Inv, Types
  <2>2. CASE Spend("commits", MaxCommits) /\ saved' = [saved EXCEPT !.revision = @ + 1]
    BY <2>1, <2>2, SpendType DEF States
  <2>3. CASE UNCHANGED <<saved, spent>>
    BY <2>1, <2>3, Clocks
  <2> QED
    BY <2>2, <2>3 DEF RewriteBoard
<1>4. Types'
  BY <1>1, <1>2, <1>3, SpendType DEF Inv, Types, MoveStages, Exclusive
<1>5. ViewInv'
  BY <1>1, <1>3, <1>4, ViewsGrow, Clocks DEF Inv, Types
<1>6. CommitInv'
  <2>1. saved.revision \in Nat /\ saved.metadata \in Nat /\ saved.place \in Nat
    BY Clocks DEF Inv, Types
  <2> QED
    BY <1>1, <1>3, <1>4, <2>1, CommitsKept DEF Inv, Committed
<1>7. RunInv'
  BY <1>1, <1>2, <1>3, <1>4 DEF Inv, RunInv
<1>8. MoveInv'
  BY <1>1, <1>2, <1>3, <1>4 DEF Inv, MoveInv, Fenced
<1>9. BoardInv'
  BY <1>1, <1>2, <1>3, <1>4 DEF Inv, BoardInv, BoardCarried, BringsBoard, Fresh, Moving,
     Fenced
<1>10. PlaceInv'
  BY <1>1, <1>2, <1>3, <1>4 DEF Inv, PlaceInv, PlaceCarried, BringsPlace, Moving, Fenced
<1> QED
  BY <1>4, <1>5, <1>6, <1>7, <1>8, <1>9, <1>10 DEF Inv

(* The location changes when no run and no build is between its reads.     *)
LEMMA IndexStep == ASSUME Inv, Index PROVE Inv'
<1>1. UNCHANGED <<returning, lane, run, builds, suspended, browser, lost, spent>>
  BY DEF Index
<1>2. move = "indexing" /\ move' = "refreshing"
  BY DEF Index
<1>3. /\ saved' \in States /\ saved'.revision = saved.revision
      /\ saved'.metadata = saved.metadata + 1 /\ saved'.place = saved.place + 1
  <2>1. saved \in States /\ saved' = [saved EXCEPT !.metadata = @ + 1, !.place = @ + 1]
    BY DEF Inv, Types, Index
  <2>2. saved' = [revision |-> saved.revision, metadata |-> saved.metadata + 1,
                  place |-> saved.place + 1]
    BY <2>1 DEF States
  <2> QED
    BY <2>1, <2>2 DEF States
<1>4. Types'
  BY <1>1, <1>2, <1>3 DEF Inv, Types, MoveStages, Exclusive
<1>5. ViewInv'
  BY <1>1, <1>3, <1>4, ViewsGrow, Clocks DEF Inv, Types
<1>6. CommitInv'
  <2>1. saved.revision \in Nat /\ saved.metadata \in Nat /\ saved.place \in Nat
    BY Clocks DEF Inv, Types
  <2> QED
    BY <1>1, <1>3, <1>4, <2>1, CommitsKept DEF Inv, Committed
<1>7. RunInv'
  BY <1>1, <1>2 DEF Inv, RunInv, MoveInv, Fenced
<1>8. MoveInv'
  BY <1>1, <1>2, <1>3, <1>4 DEF Inv, MoveInv, Fenced
<1>9. BoardInv'
  BY <1>1, <1>2, <1>3, <1>4 DEF Inv, BoardInv, BoardCarried, BringsBoard, Fresh, Moving,
     Fenced
<1>10. PlaceInv'
  BY <1>1, <1>2, <1>3, <1>4 DEF Inv, PlaceInv, PlaceCarried, BringsPlace, Moving, Fenced
<1> QED
  BY <1>4, <1>5, <1>6, <1>7, <1>8, <1>9, <1>10 DEF Inv

(* After its relocation the project is announced to a live browser; a      *)
(* loading one is marked.                                                  *)
LEMMA RefreshStep == ASSUME Inv, Refresh PROVE Inv'
<1>1. UNCHANGED <<saved, returning, run, lost, spent>>
  BY DEF Refresh
<1>2. move = "refreshing" /\ suspended' = FALSE
  BY DEF Refresh
<1>3. /\ lane' \in Lanes /\ ~lane'.drained /\ lane'.pending \in {lane.pending, Nothing}
      /\ lane'.published \in {lane.published, -1}
  BY LaneValues DEF Inv, Refresh
<1>4. /\ browser' \in Browsers /\ browser'.at = browser.at /\ browser'.shown = browser.shown
      /\ browser.missed \/ browser.at = "loading" => browser'.missed
      /\ builds' \in [Builders -> Builds]
      /\ move' = IF browser.at = "live" THEN "announcing" ELSE "idle"
      /\ \A c \in Builders : c # "move" => builds'[c] = builds[c]
      /\ builds'["move"].state = Nothing
      /\ builds'["move"].at = IF browser.at = "live" THEN "waiting" ELSE "none"
  <2>1. Request("move", IF browser.at = "live" THEN "announcing" ELSE "idle")
    BY DEF Refresh
  <2>2. Types /\ "move" \in Builders
    BY BuildValues DEF Inv
  <2> QED
    BY <2>1, <2>2, RequestMarks
<1>5. Types'
  BY <1>1, <1>2, <1>3, <1>4 DEF Inv, Types, MoveStages, Exclusive
<1>6. ViewInv'
  BY <1>1, <1>2, <1>3, <1>4, <1>5, OldViews, ViewsKept DEF Inv
<1>7. CommitInv'
  BY <1>1, <1>2, <1>3, <1>4, <1>5, CommitsKept, Clocks DEF Inv, Types, CommitInv, Committed
<1>8. RunInv'
  BY <1>1, <1>2, <1>3, <1>4, <1>5, BuildValues DEF Inv, RunInv
<1>9. MoveInv'
  BY <1>1, <1>2, <1>3, <1>4, <1>5, BuildValues DEF Inv, MoveInv, Fenced
<1>10. BoardInv'
  BY <1>1, <1>2, <1>3, <1>4, <1>5, BuildValues DEF Inv, BoardInv, BoardCarried, BringsBoard,
     Fresh, Moving, Fenced
<1>11. PlaceInv'
  BY <1>1, <1>2, <1>3, <1>4, <1>5, BuildValues DEF Inv, PlaceInv, PlaceCarried, BringsPlace,
     Moving, Fenced
<1> QED
  BY <1>5, <1>6, <1>7, <1>8, <1>9, <1>10, <1>11 DEF Inv

LEMMA ReleaseFencesStep == ASSUME Inv, ReleaseFences PROVE Inv'
<1>1. UNCHANGED <<saved, returning, run, builds, suspended, browser, lost, spent>>
  BY DEF ReleaseFences
<1>2. move = "failed" /\ move' = "resuming" 
  BY DEF ReleaseFences
<1>3. /\ lane' \in Lanes /\ ~lane'.drained /\ lane'.pending \in {lane.pending, Nothing}
      /\ lane'.published \in {lane.published, -1}
  BY LaneValues DEF Inv, ReleaseFences
<1>4. Types'
  BY <1>1, <1>2, <1>3 DEF Inv, Types, MoveStages, Exclusive
<1>5. ViewInv'
  BY <1>1 DEF Inv, ViewInv, Views, Known, Earlier
<1>6. CommitInv'
  BY <1>1, <1>2, <1>3, <1>4, CommitsKept, Clocks DEF Inv, Types, CommitInv, Committed
<1>7. RunInv'
  BY <1>1 DEF Inv, RunInv
<1>8. MoveInv'
  BY <1>1, <1>2, <1>3, <1>4 DEF Inv, MoveInv, Fenced
<1>9. BoardInv'
  BY <1>1, <1>2, <1>3, <1>4 DEF Inv, BoardInv, BoardCarried, BringsBoard, Fresh, Moving,
     Fenced
<1>10. PlaceInv'
  BY <1>1, <1>2, <1>3, <1>4 DEF Inv, PlaceInv, PlaceCarried, BringsPlace, Moving, Fenced
<1> QED
  BY <1>4, <1>5, <1>6, <1>7, <1>8, <1>9, <1>10 DEF Inv

LEMMA ResumeStep == ASSUME Inv, Resume PROVE Inv'
<1>1. UNCHANGED <<saved, returning, lane, run, lost, spent>>
  BY DEF Resume
<1>2. move = "resuming" /\ suspended' = FALSE
  BY DEF Resume
<1>3. /\ browser' \in Browsers /\ browser'.at = browser.at /\ browser'.shown = browser.shown
      /\ browser.missed \/ browser.at = "loading" => browser'.missed
      /\ builds' \in [Builders -> Builds]
      /\ move' = IF browser.at = "live" THEN "reannouncing" ELSE "idle"
      /\ \A c \in Builders : c # "move" => builds'[c] = builds[c]
      /\ builds'["move"].state = Nothing
      /\ builds'["move"].at = IF browser.at = "live" THEN "waiting" ELSE "none"
  <2>1. Request("move", IF browser.at = "live" THEN "reannouncing" ELSE "idle")
    BY DEF Resume
  <2>2. Types /\ "move" \in Builders
    BY BuildValues DEF Inv
  <2> QED
    BY <2>1, <2>2, RequestMarks
<1>4. Types'
  BY <1>1, <1>2, <1>3 DEF Inv, Types, MoveStages, Exclusive
<1>5. ViewInv'
  BY <1>1, <1>2, <1>3, <1>4, OldViews, ViewsKept DEF Inv
<1>6. CommitInv'
  BY <1>1 DEF Inv, CommitInv, Committed, Known
<1>7. RunInv'
  BY <1>1, <1>2, <1>3, <1>4, BuildValues DEF Inv, RunInv
<1>8. MoveInv'
  BY <1>1, <1>2, <1>3, <1>4, BuildValues DEF Inv, MoveInv, Fenced
<1>9. BoardInv'
  BY <1>1, <1>2, <1>3, <1>4, BuildValues DEF Inv, BoardInv, BoardCarried, BringsBoard, Fresh,
     Moving, Fenced
<1>10. PlaceInv'
  BY <1>1, <1>2, <1>3, <1>4, BuildValues DEF Inv, PlaceInv, PlaceCarried, BringsPlace, Moving,
     Fenced
<1> QED
  BY <1>4, <1>5, <1>6, <1>7, <1>8, <1>9, <1>10 DEF Inv

LEMMA ResumeFailsStep == ASSUME Inv, ResumeFails PROVE Inv'
<1>1. UNCHANGED <<saved, returning, lane, run, builds, suspended, browser, spent>>
  BY DEF ResumeFails
<1>2. move = "resuming" /\ move' = "idle" /\ lost' = TRUE
  BY DEF ResumeFails
<1>3. Types'
  BY <1>1, <1>2 DEF Inv, Types, MoveStages, Exclusive
<1>4. ViewInv'
  BY <1>1 DEF Inv, ViewInv, Views, Known, Earlier
<1>5. CommitInv'
  BY <1>1 DEF Inv, CommitInv, Committed, Known
<1>6. RunInv'
  BY <1>1 DEF Inv, RunInv
<1>7. MoveInv'
  BY <1>1, <1>2, <1>3 DEF Inv, MoveInv, Fenced
<1>8. BoardInv'
  BY <1>1, <1>2, <1>3 DEF Inv, BoardInv, BoardCarried, BringsBoard, Fresh, Moving, Fenced
<1>9. PlaceInv'
  BY <1>1, <1>2, <1>3 DEF Inv, PlaceInv, PlaceCarried, BringsPlace, Moving, Fenced
<1> QED
  BY <1>3, <1>4, <1>5, <1>6, <1>7, <1>8, <1>9 DEF Inv

(* A new revision is carried by the caller that committed it.              *)
LEMMA CommitStep == ASSUME Inv, Commit PROVE Inv'
<1>1. UNCHANGED <<lane, run, builds, suspended, browser, move, lost>>
  BY DEF Commit
<1>2. /\ saved' \in States /\ saved'.revision = saved.revision + 1
      /\ saved'.metadata = saved.metadata /\ saved'.place = saved.place
  BY DEF Inv, Types, Commit, States
<1>3. returning' = returning \cup {saved'}
  BY DEF Commit
<1>4. Spend("commits", MaxCommits)
  BY DEF Commit
<1>5. Types'
  BY <1>1, <1>2, <1>3, <1>4, SpendType DEF Inv, Types
<1>6. ViewInv'
  BY <1>1, <1>2, <1>5, ViewsGrow, Clocks DEF Inv, Types
<1>7. CommitInv'
  <2>1. /\ saved.revision \in Nat /\ saved.metadata \in Nat /\ saved.place \in Nat
        /\ lane.published \in Int
    BY Clocks DEF Inv, Types, Lanes
  <2>2. \A x \in Committed : x \in Seen
    BY DEF Inv, Types, Committed, Lanes, Runs, Seen
  <2>3. \A x \in Committed : Known(x) /\ x.revision < saved'.revision /\ Known(x)'
    BY <1>2, <2>1, <2>2, Clocks DEF Inv, CommitInv, Known
  <2>4. Committed' = Committed \cup {saved'}
    BY <1>1, <1>3 DEF Committed
  <2>5. \A x : x = saved' => Known(x)'
    BY <1>2, <2>1 DEF Known
  <2>6. \A x, y \in Committed' : x.revision = y.revision => x = y
    BY <1>2, <2>1, <2>2, <2>3, <2>4, Clocks DEF Inv, CommitInv
  <2> QED
    BY <1>1, <1>2, <2>1, <2>3, <2>4, <2>5, <2>6 DEF Inv, CommitInv
<1>8. RunInv'
  BY <1>1, <1>2, <1>3, <1>4, <1>5 DEF Inv, RunInv
<1>9. MoveInv'
  BY <1>1, <1>2, <1>3, <1>4, <1>5 DEF Inv, MoveInv, Fenced
<1>10. BoardInv'
  BY <1>3 DEF BoardInv, BoardCarried, Fresh
<1>11. PlaceInv'
  BY <1>1, <1>2, <1>3, <1>4, <1>5 DEF Inv, PlaceInv, PlaceCarried, BringsPlace, Moving, Fenced
<1> QED
  BY <1>5, <1>6, <1>7, <1>8, <1>9, <1>10, <1>11 DEF Inv

LEMMA RenameStep == ASSUME Inv, Rename PROVE Inv'
<1>1. UNCHANGED <<returning, lane, run, builds, suspended, browser, move, lost>>
  BY DEF Rename
<1>2. /\ saved' \in States /\ saved'.revision = saved.revision
      /\ saved'.metadata = saved.metadata + 1 /\ saved'.place = saved.place
  BY DEF Inv, Types, Rename, States
<1>3. Spend("renames", MaxRenames)
  BY DEF Rename
<1>4. Types'
  BY <1>1, <1>2, <1>3, SpendType DEF Inv, Types
<1>5. ViewInv'
  BY <1>1, <1>2, <1>4, ViewsGrow, Clocks DEF Inv, Types
<1>6. CommitInv'
  <2>1. saved.revision \in Nat /\ saved.metadata \in Nat /\ saved.place \in Nat
    BY Clocks DEF Inv, Types
  <2> QED
    BY <1>1, <1>2, <1>4, <2>1, CommitsKept DEF Inv, Committed
<1>7. RunInv'
  BY <1>1, <1>2, <1>3, <1>4 DEF Inv, RunInv
<1>8. MoveInv'
  BY <1>1, <1>2, <1>3, <1>4 DEF Inv, MoveInv, Fenced
<1>9. BoardInv'
  BY <1>1, <1>2, <1>3, <1>4 DEF Inv, BoardInv, BoardCarried, BringsBoard, Fresh, Moving,
     Fenced
<1>10. PlaceInv'
  BY <1>1, <1>2, <1>3, <1>4 DEF Inv, PlaceInv, PlaceCarried, BringsPlace, Moving, Fenced
<1> QED
  BY <1>4, <1>5, <1>6, <1>7, <1>8, <1>9, <1>10 DEF Inv

LEMMA RequestBroadcastStep == ASSUME Inv, RequestBroadcast PROVE Inv'
<1>1. UNCHANGED <<saved, returning, lane, run, suspended, lost>>
  BY DEF RequestBroadcast
<1>2. builds["live"].at = "none" /\ Spend("broadcasts", MaxBroadcasts)
  BY DEF RequestBroadcast
<1>3. /\ browser' \in Browsers /\ browser'.at = browser.at /\ browser'.shown = browser.shown
      /\ browser.missed \/ browser.at = "loading" => browser'.missed
      /\ builds' \in [Builders -> Builds]
      /\ move' = move
      /\ \A c \in Builders : c # "live" => builds'[c] = builds[c]
      /\ builds'["live"].state = Nothing
      /\ builds'["live"].at = IF browser.at = "live" THEN "waiting" ELSE "none"
  <2>1. Request("live", move)
    BY DEF RequestBroadcast
  <2>2. Types /\ "live" \in Builders
    BY BuildValues DEF Inv
  <2> QED
    BY <2>1, <2>2, RequestMarks
<1>4. Types'
  BY <1>1, <1>2, <1>3, SpendType DEF Inv, Types, MoveStages, Exclusive
<1>5. ViewInv'
  BY <1>1, <1>2, <1>3, <1>4, OldViews, ViewsKept DEF Inv
<1>6. CommitInv'
  BY <1>1 DEF Inv, CommitInv, Committed, Known
<1>7. RunInv'
  BY <1>1, <1>2, <1>3, <1>4, BuildValues DEF Inv, RunInv
<1>8. MoveInv'
  BY <1>1, <1>2, <1>3, <1>4, BuildValues DEF Inv, MoveInv, Fenced
<1>9. BoardInv'
  BY <1>1, <1>2, <1>3, <1>4, BuildValues DEF Inv, BoardInv, BoardCarried, BringsBoard, Fresh,
     Moving, Fenced
<1>10. PlaceInv'
  BY <1>1, <1>2, <1>3, <1>4, BuildValues DEF Inv, PlaceInv, PlaceCarried, BringsPlace, Moving,
     Fenced
<1> QED
  BY <1>4, <1>5, <1>6, <1>7, <1>8, <1>9, <1>10 DEF Inv

LEMMA ConnectStep == ASSUME Inv, Connect PROVE Inv'
<1>1. UNCHANGED <<saved, returning, lane, run, suspended, move, lost>>
  BY DEF Connect
<1>2. browser.at = "off" /\ Spend("connections", MaxConnections)
  BY DEF Connect
<1>3. /\ browser' \in Browsers /\ browser'.at = "loading" /\ browser'.shown = browser.shown
  BY DEF Inv, Types, Connect, Browsers
<1>4. /\ builds' \in [Builders -> Builds] /\ builds'["client"].at = "waiting"
      /\ builds'["client"].state = builds["client"].state
      /\ \A c \in Builders : c # "client" => builds'[c] = builds[c]
  <2>1. builds["client"] \in Builds /\ builds \in [Builders -> Builds] /\ "client" \in Builders
    BY BuildValues DEF Inv, Types
  <2>2. [builds["client"] EXCEPT !.at = "waiting"] \in Builds
        /\ [builds["client"] EXCEPT !.at = "waiting"].at = "waiting"
        /\ [builds["client"] EXCEPT !.at = "waiting"].state = builds["client"].state
    BY <2>1 DEF Builds
  <2>3. builds' = [builds EXCEPT !["client"] = [builds["client"] EXCEPT !.at = "waiting"]]
    BY DEF Connect
  <2> QED
    BY <2>1, <2>2, <2>3, ChangedBuild
<1>5. Types'
  BY <1>1, <1>2, <1>3, <1>4, SpendType DEF Inv, Types
<1>6. ViewInv'
  BY <1>1, <1>2, <1>3, <1>4, <1>5, OldViews, ViewsKept DEF Inv
<1>7. CommitInv'
  BY <1>1 DEF Inv, CommitInv, Committed, Known
<1>8. RunInv'
  BY <1>1, <1>2, <1>3, <1>4, <1>5, BuildValues DEF Inv, RunInv
<1>9. MoveInv'
  BY <1>1, <1>2, <1>3, <1>4, <1>5, BuildValues DEF Inv, MoveInv, Fenced
<1>10. BoardInv'
  BY <1>1, <1>2, <1>3, <1>4, <1>5, BuildValues DEF Inv, BoardInv, BoardCarried, BringsBoard,
     Fresh, Moving, Fenced
<1>11. PlaceInv'
  BY <1>1, <1>2, <1>3, <1>4, <1>5, BuildValues DEF Inv, PlaceInv, PlaceCarried, BringsPlace,
     Moving, Fenced
<1> QED
  BY <1>5, <1>6, <1>7, <1>8, <1>9, <1>10, <1>11 DEF Inv

LEMMA DisconnectStep == ASSUME Inv, Disconnect PROVE Inv'
<1>1. UNCHANGED <<saved, returning, lane, run, suspended, move, lost, spent>>
  BY DEF Disconnect
<1>2. /\ browser' \in Browsers /\ browser'.at = "off" /\ browser'.shown = browser.shown
  BY DEF Inv, Types, Disconnect, Browsers
<1>3. /\ builds' \in [Builders -> Builds] /\ builds'["client"].at = "none"
      /\ builds'["client"].state = Nothing
      /\ \A c \in Builders : c # "client" => builds'[c] = builds[c]
  BY BuildValues, ChangedBuild DEF Inv, Types, Disconnect
<1>4. Types'
  BY <1>1, <1>2, <1>3 DEF Inv, Types
<1>5. ViewInv'
  BY <1>1, <1>2, <1>3, <1>4, OldViews, ViewsKept DEF Inv
<1>6. CommitInv'
  BY <1>1 DEF Inv, CommitInv, Committed, Known
<1>7. RunInv'
  BY <1>1, <1>2, <1>3, <1>4, BuildValues DEF Inv, RunInv
<1>8. MoveInv'
  BY <1>1, <1>2, <1>3, <1>4, BuildValues DEF Inv, MoveInv, Fenced
<1>9. BoardInv'
  BY <1>1, <1>2, <1>3, <1>4, BuildValues DEF Inv, BoardInv, BoardCarried, BringsBoard, Fresh,
     Moving, Fenced
<1>10. PlaceInv'
  BY <1>1, <1>2, <1>3, <1>4, BuildValues DEF Inv, PlaceInv, PlaceCarried, BringsPlace, Moving,
     Fenced
<1> QED
  BY <1>4, <1>5, <1>6, <1>7, <1>8, <1>9, <1>10 DEF Inv

LEMMA RequestMoveStep == ASSUME Inv, RequestMove PROVE Inv'
<1>1. UNCHANGED <<saved, returning, lane, run, builds, suspended, browser, lost>>
  BY DEF RequestMove
<1>2. move = "idle" /\ move' = "waiting" /\ Spend("moves", MaxMoves)
  BY DEF RequestMove
<1>3. Types'
  BY <1>1, <1>2, SpendType DEF Inv, Types, MoveStages, Exclusive
<1>4. ViewInv'
  BY <1>1 DEF Inv, ViewInv, Views, Known, Earlier
<1>5. CommitInv'
  BY <1>1 DEF Inv, CommitInv, Committed, Known
<1>6. RunInv'
  BY <1>1 DEF Inv, RunInv
<1>7. MoveInv'
  BY <1>1, <1>2, <1>3 DEF Inv, MoveInv, Fenced
<1>8. BoardInv'
  BY <1>1, <1>2, <1>3 DEF Inv, BoardInv, BoardCarried, BringsBoard, Fresh, Moving, Fenced
<1>9. PlaceInv'
  BY <1>1, <1>2, <1>3 DEF Inv, PlaceInv, PlaceCarried, BringsPlace, Moving, Fenced
<1> QED
  BY <1>3, <1>4, <1>5, <1>6, <1>7, <1>8, <1>9 DEF Inv

LEMMA PrepareFailsStep == ASSUME Inv, PrepareFails PROVE Inv'
<1>1. UNCHANGED <<saved, returning, lane, builds, suspended, browser, move, lost>>
  BY DEF PrepareFails
<1>2. /\ run' \in Runs /\ run'.state = run.state /\ run'.scope = run.scope
      /\ run.at \in {"scope", "check"} /\ run'.at = "end" /\ run'.answer = "failed"
  BY DEF Inv, Types, PrepareFails, Runs
<1>3. Fault
  BY DEF PrepareFails
<1>4. Types'
  BY <1>1, <1>2, <1>3, SpendType DEF Inv, Types
<1>5. ViewInv'
  BY <1>1, <1>2, <1>3, <1>4, OldViews, ViewsKept DEF Inv
<1>6. CommitInv'
  BY <1>1, <1>2, <1>3, <1>4, CommitsKept, Clocks DEF Inv, Types, CommitInv, Committed
<1>7. RunInv'
  BY <1>1, <1>2, <1>3, <1>4 DEF Inv, RunInv
<1>8. MoveInv'
  BY <1>1, <1>2, <1>3, <1>4 DEF Inv, MoveInv, Fenced
<1>9. BoardInv'
  BY <1>1, <1>2, <1>3, <1>4 DEF Inv, BoardInv, BoardCarried, BringsBoard, Fresh, Moving,
     Fenced
<1>10. PlaceInv'
  BY <1>1 DEF Inv, PlaceInv, PlaceCarried, BringsPlace, Moving, Fenced
<1> QED
  BY <1>4, <1>5, <1>6, <1>7, <1>8, <1>9, <1>10 DEF Inv

LEMMA MoveFailsStep == ASSUME Inv, MoveFails PROVE Inv'
<1>1. UNCHANGED <<saved, returning, lane, run, builds, suspended, browser, lost>>
  BY DEF MoveFails
<1>2. /\ move \in {"suspending", "moving", "indexing", "refreshing"} /\ move' = "failed"
      /\ Fault
  BY DEF MoveFails
<1>3. Types'
  BY <1>1, <1>2, SpendType DEF Inv, Types, MoveStages, Exclusive
<1>4. ViewInv'
  BY <1>1 DEF Inv, ViewInv, Views, Known, Earlier
<1>5. CommitInv'
  BY <1>1 DEF Inv, CommitInv, Committed, Known
<1>6. RunInv'
  BY <1>1 DEF Inv, RunInv
<1>7. MoveInv'
  BY <1>1, <1>2, <1>3 DEF Inv, MoveInv, Fenced
<1>8. BoardInv'
  BY <1>1, <1>2, <1>3 DEF Inv, BoardInv, BoardCarried, BringsBoard, Fresh, Moving, Fenced
<1>9. PlaceInv'
  BY <1>1, <1>2, <1>3 DEF Inv, PlaceInv, PlaceCarried, BringsPlace, Moving, Fenced
<1> QED
  BY <1>3, <1>4, <1>5, <1>6, <1>7, <1>8, <1>9 DEF Inv

-----------------------------------------------------------------------------
(* The theorems.                                                           *)

LEMMA InitInv == Init => Inv
<1> SUFFICES ASSUME Init PROVE Inv
  OBVIOUS
<1>1. Types
  <2>1. saved \in States /\ Nothing \in Seen
    BY DEF Init, States, Seen
  <2>2. lane \in Lanes /\ run \in Runs /\ browser \in Browsers
    <3>1. lane \in Lanes
      BY <2>1, NatBounds DEF Init, Lanes, Free
    <3>2. run \in Runs
      BY <2>1 DEF Init, Runs, NoRun
    <3>3. browser \in Browsers
      BY <2>1 DEF Init, Browsers
    <3> QED
      BY <3>1, <3>2, <3>3
  <2>3. builds \in [Builders -> Builds]
    BY BuildValues DEF Init
  <2>4. spent \in Spents
    BY NatBounds DEF Init, Spents
  <2> QED
    BY <2>1, <2>2, <2>3, <2>4 DEF Init, Types, MoveStages
<1>2. \A b \in Builders : builds[b].at = "none" /\ builds[b].state = Nothing
  BY BuildValues DEF Init
<1>3. saved.revision = 0 /\ saved.metadata = 0 /\ saved.place = 0
  BY DEF Init
<1>4. \A x \in Views : x = saved \/ x = Nothing
  BY <1>2 DEF Init, Views, NoRun
<1>5. ViewInv
  BY <1>3, <1>4, Clocks DEF ViewInv, Known, Earlier
<1>6. Committed = {Nothing}
  BY DEF Init, Committed, Free, NoRun
<1>7. CommitInv
  BY <1>3, <1>6, Clocks DEF Init, CommitInv, Known, Free
<1>8. RunInv
  BY <1>2 DEF Init, RunInv, NoRun
<1>9. MoveInv
  BY <1>2, BuildValues DEF Init, MoveInv, Fenced, Free
<1>10. BoardInv /\ PlaceInv
  BY DEF Init, BoardInv, PlaceInv
<1> QED
  BY <1>1, <1>5, <1>7, <1>8, <1>9, <1>10 DEF Inv

LEMMA NextInv == Inv /\ [Next]_vars => Inv'
<1> SUFFICES ASSUME Inv, [Next]_vars PROVE Inv'
  OBVIOUS
<1>1. CASE Return \/ Register \/ CatchUp
  BY <1>1, ReturnStep, RegisterStep, CatchUpStep
<1>2. CASE Publication
  BY <1>2, ObserveStep, RecheckStep, PublishStep, DiscardStep, RetryStep, BackoffEndsStep
  DEF Publication
<1>3. CASE Snapshot
  BY <1>3, AdmitStep, ReadBoardStep, SendStep DEF Snapshot
<1>4. CASE Relocation
  BY <1>4, BeginMoveStep, DrainedStep, SuspendStep, RewriteBoardStep, IndexStep, RefreshStep,
     ReleaseFencesStep, ResumeStep DEF Relocation
<1>5. CASE Environment
  BY <1>5, CommitStep, RenameStep, RequestBroadcastStep, ConnectStep, DisconnectStep,
     RequestMoveStep, PrepareFailsStep, MoveFailsStep, ResumeFailsStep, BuildFailsStep
  DEF Environment
<1>6. CASE UNCHANGED vars
  BY <1>6 DEF Inv, Types, ViewInv, Views, Known, Earlier, CommitInv, Committed, RunInv, MoveInv,
     BoardInv, BoardCarried, BringsBoard, Fresh, PlaceInv, PlaceCarried, BringsPlace, Moving, vars
<1> QED
  BY <1>1, <1>2, <1>3, <1>4, <1>5, <1>6 DEF Next, Progress

(* The inductive invariant: every state in flight is a view of the project at *)
(* an earlier time, and what a browser does not show is carried by somebody. *)
THEOREM InvariantHolds == Spec => []Inv
BY InitInv, NextInv, PTL DEF Spec

(* Type correctness: in particular a lane never makes more attempts than     *)
(* PROJECT_STATE_PUBLICATION_RETRY_DELAYS_MS has entries.                    *)
THEOREM TypeCorrect == Spec => []TypeOK
<1>1. Inv => TypeOK
  BY DEF Inv, Types, TypeOK, Seen, Lanes, Runs, Builds, Browsers, Spents
<1> QED
  BY <1>1, InvariantHolds, PTL

(* From when relocateProject suspends the writers until it has refreshed the *)
(* project, no run of the publication lane and no snapshot of the hub is     *)
(* between its reads; until the end of its announcement only its own         *)
(* snapshot is built, and that is one of the location it has saved.          *)
THEOREM RelocationRunsAlone == Spec => []MoveRunsAlone
<1>1. Inv => MoveRunsAlone
  BY DEF Inv, MoveInv, MoveRunsAlone, Fenced
<1> QED
  BY <1>1, InvariantHolds, PTL

(* No update is lost between scheduleProjectStatePublication, the hub's own   *)
(* snapshots, the catch-up of a connection and the drain of a relocation:    *)
(* once nothing is left to do, a live browser shows the newest board and the *)
(* current location, unless a step gave up and reported it.                  *)
THEOREM NoUpdateIsLost == Spec => []QuietIsCurrent
<1>1. Inv => QuietIsCurrent
  <2> SUFFICES ASSUME Inv, Settled, browser.at = "live", ~lost
               PROVE  browser.shown.revision = saved.revision /\ browser.shown.place = saved.place
    BY DEF QuietIsCurrent
  <2>1. ~Moving /\ ~BringsBoard("move") /\ ~BringsBoard("client")
        /\ ~BringsPlace("move") /\ ~BringsPlace("client")
    BY BuildValues DEF Settled, Moving, Fenced, BringsBoard, BringsPlace
  <2>2. ~Fresh(lane.pending)
    BY Clocks DEF Settled, Fresh, Inv, Types
  <2>3. ~BoardCarried /\ ~PlaceCarried
    BY <2>1, <2>2 DEF BoardCarried, PlaceCarried, Settled
  <2> QED
    BY <2>3 DEF Inv, BoardInv, PlaceInv
<1> QED
  BY <1>1, InvariantHolds, PTL

(* What a browser shows changes only by a merge of some view of the project. *)
LEMMA ShownIsMerged ==
    ASSUME Inv, [Next]_vars
    PROVE  \/ browser'.shown = browser.shown
           \/ \E y \in Seen : Old(y) /\ browser'.shown = Merge(browser.shown, y)
<1> DEFINE Goal == \/ browser'.shown = browser.shown
                   \/ \E y \in Seen : Old(y) /\ browser'.shown = Merge(browser.shown, y)
<1>1. browser \in Browsers /\ Types
  BY DEF Inv, Types
<1>2. ASSUME NEW x \in Seen, Old(x), Broadcast(x) PROVE Goal
  BY <1>1, <1>2, BroadcastShown
<1>3. ASSUME Publish PROVE Goal
  <2>1. CASE UNCHANGED browser
    BY <2>1
  <2>2. CASE Broadcast([run.state EXCEPT !.metadata = run.scope.metadata])
    <3>1. run.state \in States /\ run.scope \in States /\ run.scope.place = run.state.place
          /\ run.state.revision <= saved.revision /\ run.scope \in Views
      BY <1>3 DEF Inv, RunInv, CommitInv, Committed, Known, Publish, Views
    <3>2. [run.state EXCEPT !.metadata = run.scope.metadata] \in Seen
          /\ Old([run.state EXCEPT !.metadata = run.scope.metadata])
      BY <3>1 DEF States, Seen, Old
    <3> QED
      BY <1>2, <2>2, <3>2
  <2> QED
    BY <1>3, <2>1, <2>2 DEF Publish
<1>4. ASSUME NEW b \in Builders, Send(b) PROVE Goal
  BY <1>1, <1>2, <1>4, OldViews, BuildValues DEF Inv, Types, Send
<1>5. ASSUME Register \/ CatchUp PROVE Goal
  <2>1. builds["client"].state \in Seen /\ Old(builds["client"].state)
    BY OldViews, BuildValues DEF Inv, Types
  <2>2. browser'.shown = Shown(builds["client"].state)
    BY <1>1, <1>5 DEF Register, CatchUp, Browsers
  <2> QED
    BY <2>1, <2>2 DEF Shown
<1>6. ASSUME NEW b, NEW stage, Request(b, stage) PROVE Goal
  BY <1>1, <1>6 DEF Request, Marked, Browsers
<1>7. ASSUME Connect \/ Disconnect PROVE Goal
  BY <1>1, <1>7 DEF Connect, Disconnect, Browsers
<1>8. CASE Observe \/ Recheck \/ Discard \/ Retry \/ BackoffEnds \/ Return
  BY <1>8 DEF Observe, Recheck, Discard, Retry, BackoffEnds, Return
<1>9. CASE Refresh \/ Resume \/ RequestBroadcast
  BY <1>6, <1>9 DEF Refresh, Resume, RequestBroadcast
<1>10. CASE BeginMove \/ Drained \/ Suspend \/ RewriteBoard \/ Index \/ ReleaseFences
  BY <1>10 DEF BeginMove, Drained, Suspend, RewriteBoard, Index, ReleaseFences
<1>11. CASE \/ Commit \/ Rename \/ RequestMove \/ PrepareFails \/ MoveFails \/ ResumeFails
            \/ UNCHANGED vars
  BY <1>11 DEF Commit, Rename, RequestMove, PrepareFails, MoveFails, ResumeFails, vars
<1>12. CASE \E b \in Builders : Admit(b) \/ ReadBoard(b) \/ BuildFails(b)
  BY <1>12 DEF Admit, ReadBoard, BuildFails
<1>13. CASE Publication
  BY <1>3, <1>8, <1>13 DEF Publication
<1>14. CASE Snapshot
  BY <1>4, <1>12, <1>14 DEF Snapshot
<1>15. CASE Relocation
  BY <1>9, <1>10, <1>15 DEF Relocation
<1>16. CASE Environment
  BY <1>7, <1>9, <1>11, <1>12, <1>16 DEF Environment
<1>17. Goal
  BY <1>5, <1>8, <1>11, <1>13, <1>14, <1>15, <1>16 DEF Next, Progress
<1> QED
  BY <1>17

(* The browser never goes back to an older board, older metadata or an older *)
(* location, although mergeProjectStateByRevision compares no locations: of  *)
(* two views, the one with the newer metadata has the newer location.        *)
THEOREM BrowserNeverGoesBack == Spec => NeverGoesBack
<1>1. ASSUME Inv, [Next]_vars
      PROVE  \A clock \in {"revision", "metadata", "place"} :
                browser'.shown[clock] >= browser.shown[clock]
  <2>1. browser.shown \in Seen /\ browser'.shown \in Seen
    BY <1>1, NextInv DEF Inv, Types, Browsers
  <2>2. /\ browser'.shown.revision >= browser.shown.revision
        /\ browser'.shown.metadata >= browser.shown.metadata
        /\ browser'.shown.place >= browser.shown.place
    <3>1. CASE browser'.shown = browser.shown
      BY <2>1, <3>1, Clocks
    <3>2. ASSUME NEW y \in Seen, Old(y), browser'.shown = Merge(browser.shown, y) 
          PROVE  /\ browser'.shown.revision >= browser.shown.revision
                 /\ browser'.shown.metadata >= browser.shown.metadata
                 /\ browser'.shown.place >= browser.shown.place
      BY <1>1, <2>1, <3>2, OldMerge, MergeIsNewest DEF Inv
    <3> QED
      BY <1>1, <3>1, <3>2, ShownIsMerged
  <2> QED
    BY <2>2
<1>2. Inv /\ [Next]_vars => [\A clock \in {"revision", "metadata", "place"} :
                                browser'.shown[clock] >= browser.shown[clock]]_vars
  BY <1>1
<1> QED
  BY <1>2, InvariantHolds, PTL DEF Spec, NeverGoesBack

=============================================================================
