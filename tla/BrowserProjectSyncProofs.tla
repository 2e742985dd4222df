------------------------ MODULE BrowserProjectSyncProofs ------------------------
(***************************************************************************)
(* Theorems about BrowserProjectSync, for any number of edits and events.  *)
(*                                                                         *)
(* The committed states are a growing history, so that what the browser    *)
(* holds of it is named by a revision that stays valid.  The invariant says *)
(* of every board that is kept or shown which revision it belongs to, of   *)
(* the queue which edits its pump still answers for, and of a cached edit  *)
(* that is not durable who will replace it before its command can fail.    *)
(***************************************************************************)
EXTENDS BrowserProjectSync, FiniteSetTheorems, TLAPS

(* The types, by name.                                                     *)
Revs == Nat \cup {None}
Queues == [revision: Revs, pending: Seq(Edits),
           at: {"idle", "first", "second", "refresh"}, refreshed: BOOLEAN]
Calls == [at: {"none", "request", "done", "conflict"}, id: 0 .. MaxEdits,
          expected: Nat, revision: Nat]
Commands == [id: Edits, expected: Nat]
Browsers == [selected: BOOLEAN, version: Revs, last: Revs, shown: Int, restore: Revs,
             applied: BOOLEAN]
Entries == [revision: Revs, board: Int]
Fetches == [at: {"none", "asked", "read"}, revision: Nat, latest: BOOLEAN]
Actions == [at: {"none", "flushing", "waiting", "sent", "answered", "restoring"},
            owed: SUBSET Edits, revision: Nat]
Spents == [edits: 0 .. MaxEdits, events: 0 .. MaxEvents]
Types ==
    /\ log \in Seq(Int)
    /\ queue \in Queues /\ call \in Calls /\ late \subseteq Commands
    /\ browser \in Browsers /\ cache \in Entries /\ streamed \in Nat
    /\ fetch \in [Fetchers -> Fetches] /\ life \in Actions /\ spent \in Spents

Durable == ToSet(log) \cap Edits
Held(board) == board >= -Len(log) /\ board <= Empty

(* Every revision that is held is one of the history.                      *)
HistoryInv ==
    /\ \A i \in 1 .. Len(log) : log[i] \in Edits \cup {-i}
    /\ queue.revision <= Len(log) /\ call.expected <= Len(log) /\ call.revision <= Len(log)
    /\ \A command \in late : command.expected <= Len(log)
    /\ browser.version <= Len(log) /\ browser.last <= Len(log) /\ browser.restore <= Len(log)
    /\ cache.revision <= Len(log) /\ streamed <= Len(log) /\ life.revision <= Len(log)
    /\ \A f \in Fetchers : fetch[f].revision <= Len(log)
    /\ Held(browser.shown) /\ Held(cache.board)

(* The history is no longer than the edits and events that may write it.  A
   lifecycle action that is not answered has paid for its commit.           *)
Paid == IF life.at \in {"flushing", "waiting", "sent"} THEN 1 ELSE 0
RoomInv ==
    /\ \A x \in Pending \cup Durable : x <= spent.edits
    /\ call.id <= spent.edits
    /\ \A command \in late : command.id <= spent.edits
    /\ Len(queue.pending) <= spent.edits
    /\ Len(log) + Paid <= Cardinality(Durable) + spent.events

(* What the pump of the queue works at.                                    *)
Pumped == queue.at \in {"first", "second"}
QueueInv ==
    /\ call.at # "none" <=> Pumped
    /\ fetch["pump"].at # "none" <=> queue.at = "refresh"
    /\ Pumped => queue.pending # <<>> /\ call.id = Head(queue.pending)
    /\ queue.pending # <<>> => queue.revision # None
    /\ call.at = "done" => call.id \in ToSet(log)

(* A board that is nobody's edit is the one of its revision.               *)
ViewInv ==
    /\ browser.version \in {None, browser.last}
    /\ browser.restore # None => browser.last = None
    /\ browser.selected = FALSE =>
          browser.last = None /\ browser.restore = None /\ browser.shown = Empty
    /\ browser.version # None /\ browser.shown <= 0 => browser.shown = Value(browser.version)
    /\ browser.restore # None /\ browser.shown <= 0 => browser.shown = Value(browser.restore)
    /\ cache.revision = None => cache.board = Empty
    /\ cache.board <= 0 => cache.board = Value(cache.revision)

(* Edits that a lifecycle action waits for are in the hands of the pump.   *)
ActionInv ==
    /\ life.at = "flushing" =>
          queue.at # "idle" /\ (Pumped => life.owed \subseteq Pending \cup ToSet(log))
    /\ life.at \in {"waiting", "sent"} => life.owed \subseteq ToSet(log)

Inv == Types /\ HistoryInv /\ RoomInv /\ QueueInv /\ ViewInv /\ ActionInv

-----------------------------------------------------------------------------
(* The operators of the history, the queue and the browser.                *)

LEMMA NatBounds == MaxEdits \in Nat /\ MaxEvents \in Nat
BY BoundsAssumption

LEMMA EditTypes ==
    /\ Edits \subseteq Int /\ Empty \in Int /\ Presented \in Int /\ None = -1
    /\ \A x \in Edits : x >= 1 /\ x <= Empty
    /\ Presented \notin Edits /\ Empty \notin Edits /\ Empty > 0 /\ Presented > 0
    /\ Presented <= Empty
BY NatBounds DEF Edits, Empty, Presented, None

(* A commit leaves the boards of the older revisions as they are.          *)
LEMMA Appended ==
    ASSUME log \in Seq(Int), NEW x \in Int, log' = Append(log, x)
    PROVE  /\ log' \in Seq(Int) /\ Len(log') = Len(log) + 1 /\ Len(log) \in Nat
           /\ \A i \in 1 .. Len(log) : log'[i] = log[i]
           /\ log'[Len(log) + 1] = x
           /\ ToSet(log') = ToSet(log) \cup {x}
BY DEF ToSet

LEMMA ValueStays ==
    ASSUME log \in Seq(Int), NEW x \in Int, log' = Append(log, x), NEW r \in 0 .. Len(log)
    PROVE  Value(r)' = Value(r)
BY Appended DEF Value

(* The board of a revision is one of the history, and an edit it shows is
   durable.                                                                 *)
LEMMA ValueHeld ==
    ASSUME Types, HistoryInv, NEW r \in 0 .. Len(log)
    PROVE  /\ Value(r) \in Int /\ Held(Value(r))
           /\ Value(r) \in Edits => Value(r) \in ToSet(log)
<1>1. CASE r = 0
  BY <1>1, EditTypes DEF Value, Held, Types, Edits
<1>2. CASE r # 0
  <2>1. r \in 1 .. Len(log) /\ Len(log) \in Nat
    BY <1>2 DEF Types
  <2>2. log[r] \in Edits \cup {-r}
    BY <2>1 DEF HistoryInv
  <2>3. Value(r) = log[r] /\ log[r] \in Int
    BY <1>2, <2>1 DEF Value, Types
  <2>4. Held(log[r])
    BY <2>1, <2>2, <2>3, EditTypes DEF Held
  <2>5. log[r] \in ToSet(log)
    BY <2>1 DEF ToSet, Types
  <2> QED
    BY <2>3, <2>4, <2>5
<1> QED
  BY <1>1, <1>2

LEMMA PendingTypes ==
    ASSUME Types
    PROVE  /\ Pending = ToSet(queue.pending) /\ Pending \subseteq Edits
           /\ Len(queue.pending) \in Nat
           /\ queue.pending = <<>> => Pending = {}
BY DEF Types, Queues, Pending, ToSet

LEMMA TailTypes ==
    ASSUME NEW p \in Seq(Edits), p # <<>>
    PROVE  /\ Tail(p) \in Seq(Edits) /\ Head(p) \in Edits /\ Len(Tail(p)) = Len(p) - 1
           /\ ToSet(p) = {Head(p)} \cup ToSet(Tail(p))
<1>1. /\ Tail(p) \in Seq(Edits) /\ Head(p) \in Edits /\ Len(Tail(p)) = Len(p) - 1
      /\ Len(p) \in Nat /\ Len(p) >= 1 /\ Head(p) = p[1]
      /\ \A i \in 1 .. Len(Tail(p)) : Tail(p)[i] = p[i + 1]
  OBVIOUS
<1>2. \A i \in 2 .. Len(p) : i - 1 \in 1 .. Len(Tail(p)) /\ p[i] = Tail(p)[i - 1]
  BY <1>1
<1>3. DOMAIN p = 1 .. Len(p) /\ DOMAIN Tail(p) = 1 .. Len(Tail(p))
  BY <1>1
<1>4. ASSUME NEW x \in ToSet(p)
      PROVE  x = Head(p) \/ x \in ToSet(Tail(p))
  <2>1. PICK i \in 1 .. Len(p) : x = p[i]
    BY <1>3 DEF ToSet
  <2>2. CASE i = 1
    BY <1>1, <2>1, <2>2
  <2>3. CASE i # 1
    <3>1. i \in 2 .. Len(p)
      BY <1>1, <2>3
    <3>2. i - 1 \in 1 .. Len(Tail(p)) /\ x = Tail(p)[i - 1]
      BY <1>2, <2>1, <3>1
    <3> QED
      BY <1>3, <3>2 DEF ToSet
  <2> QED
    BY <2>2, <2>3
<1>5. ASSUME NEW x \in ToSet(Tail(p))
      PROVE  x \in ToSet(p)
  BY <1>1, <1>3 DEF ToSet
<1>6. Head(p) \in ToSet(p)
  BY <1>1, <1>3 DEF ToSet
<1> QED
  BY <1>1, <1>4, <1>5, <1>6

LEMMA LastTypes ==
    ASSUME NEW p \in Seq(Edits), p # <<>>
    PROVE  Last(p) \in Edits /\ Last(p) \in ToSet(p)
BY DEF Last, ToSet

LEMMA Joined ==
    ASSUME NEW p \in Seq(Edits), NEW x \in Edits
    PROVE  /\ Append(p, x) \in Seq(Edits) /\ Append(p, x) # <<>>
           /\ Len(Append(p, x)) = Len(p) + 1 /\ ToSet(Append(p, x)) = ToSet(p) \cup {x}
           /\ Head(Append(p, x)) = IF p = <<>> THEN x ELSE Head(p)
BY DEF ToSet

LEMMA DurableTypes ==
    ASSUME Types, RoomInv
    PROVE  /\ IsFiniteSet(Durable) /\ Cardinality(Durable) \in Nat
           /\ Cardinality(Durable) <= spent.edits
<1>1. spent.edits \in Nat
  BY NatBounds DEF Types, Spents
<1>2. Durable \in SUBSET (1 .. spent.edits)
  BY <1>1, NatBounds DEF RoomInv, Durable, Edits
<1>3. IsFiniteSet(1 .. spent.edits) /\ Cardinality(1 .. spent.edits) = spent.edits
  <2>1. PICK n \in Int : n = spent.edits /\ n >= 0
    BY <1>1
  <2>2. 1 \in Int
    OBVIOUS
  <2>3. IsFiniteSet(1 .. n) /\ Cardinality(1 .. n) = IF 1 > n THEN 0 ELSE n - 1 + 1
    BY <2>1, <2>2, FS_Interval, Zenon
  <2>4. (IF 1 > n THEN 0 ELSE n - 1 + 1) = n
    BY <2>1
  <2> QED
    BY <2>1, <2>3, <2>4, Zenon
<1>4. IsFiniteSet(Durable) /\ Cardinality(Durable) <= Cardinality(1 .. spent.edits)
  BY <1>2, <1>3, FS_Subset
<1> QED
  BY <1>3, <1>4, FS_CardinalityType

(* An edit is committed once, a commit of somebody else is nobody's edit.  *)
LEMMA DurableGrows ==
    ASSUME Types, RoomInv, NEW x \in Int, log' = Append(log, x)
    PROVE  /\ x \in Edits /\ x \notin ToSet(log) =>
                  Cardinality(Durable') = Cardinality(Durable) + 1
           /\ x \notin Edits => Cardinality(Durable') = Cardinality(Durable)
           /\ Durable' \subseteq Durable \cup {x}
<1>1. ToSet(log') = ToSet(log) \cup {x}
  BY Appended DEF Types
<1>2. CASE x \in Edits
  <2>1. Durable' = Durable \cup {x}
    BY <1>1, <1>2 DEF Durable
  <2> QED
    BY <1>2, <2>1, DurableTypes, FS_AddElement DEF Durable
<1>3. CASE x \notin Edits
  BY <1>1, <1>3 DEF Durable
<1> QED
  BY <1>2, <1>3

LEMMA Spending ==
    ASSUME spent \in Spents
    PROVE  /\ \A kind : Event(kind) =>
                  /\ spent' \in Spents /\ spent'.events = spent.events + 1
                  /\ spent'.edits = spent.edits
           /\ Spend("edits", MaxEdits) =>
                  /\ spent' \in Spents /\ spent'.events = spent.events
                  /\ spent'.edits = spent.edits + 1
           /\ spent.edits \in Nat /\ spent.events \in Nat
BY NatBounds DEF Event, Spend, Spents

(* What the one apply step leaves.                                         *)
LEMMA Applied ==
    ASSUME Types, HistoryInv, NEW b \in {browser, Forgotten(browser)},
           NEW p \in Seq(Edits), NEW r \in 0 .. Len(log), Show(b, p, r)
    PROVE  \E next \in 0 .. Len(log), board \in Int :
              /\ next = Merged(b, r) /\ next >= r /\ next >= browser.last
              /\ board = Resolved(b, next) /\ Held(board)
              /\ browser' \in Browsers /\ browser'.selected = browser.selected
              /\ browser'.version = next /\ browser'.last = next /\ browser'.restore = None
              /\ browser'.shown = Overlaid(board, p) /\ Held(browser'.shown)
              /\ cache' \in Entries /\ cache' = Recached(next, board)
              /\ cache'.revision <= Len(log) /\ Held(cache'.board)
<1>1. /\ b \in Browsers /\ b.last = browser.last /\ b.version \in {None, browser.version}
      /\ b.shown = browser.shown /\ b.restore = browser.restore /\ b.selected = browser.selected
  BY DEF Forgotten, Types, Browsers, Revs
<1>2. PICK next : next = Merged(b, r)
  OBVIOUS
<1>3. next \in 0 .. Len(log) /\ next >= r /\ next >= browser.last
  BY <1>1, <1>2 DEF Merged, Types, Browsers, Revs, HistoryInv, None
<1>4. PICK board : board = Resolved(b, next)
  OBVIOUS
<1>5. board \in {b.shown, Value(next)}
  BY <1>4 DEF Resolved
<1>6. board \in Int /\ Held(board)
  BY <1>1, <1>3, <1>5, ValueHeld DEF Types, Browsers, HistoryInv
<1>7. PICK shown \in Int : shown = Overlaid(board, p) /\ Held(shown)
  <2>1. CASE p = <<>>
    BY <1>6, <2>1 DEF Overlaid
  <2>2. CASE p # <<>>
    <3>1. Last(p) \in Edits /\ Overlaid(board, p) = Last(p)
      BY <2>2, LastTypes DEF Overlaid
    <3>2. Last(p) \in Int /\ Last(p) >= 1 /\ Last(p) <= Empty /\ Empty \in Int
      BY <3>1, EditTypes
    <3>3. Held(Last(p)) /\ Last(p) \in Int
      BY <3>2 DEF Held, Types
    <3> QED
      BY <3>1, <3>3
  <2> QED
    BY <2>1, <2>2
<1>8. /\ browser' = [b EXCEPT !.version = next, !.last = next, !.restore = None,
                              !.applied = TRUE, !.shown = shown]
      /\ cache' = Recached(next, board)
  BY <1>2, <1>4, <1>7 DEF Show
<1>9. /\ browser' \in Browsers /\ browser'.selected = browser.selected
      /\ browser'.version = next /\ browser'.last = next /\ browser'.restore = None
      /\ browser'.shown = shown
  <2>1. next \in Nat
    BY <1>3 DEF Types
  <2> QED
    BY <1>1, <1>8, <2>1 DEF Browsers, Revs
<1>10. cache' \in {cache, [revision |-> next, board |-> board]}
  BY <1>8 DEF Recached
<1>11. cache' \in Entries /\ cache'.revision <= Len(log) /\ Held(cache'.board)
  BY <1>3, <1>6, <1>10 DEF Types, Entries, Revs, HistoryInv
<1> QED
  BY <1>2, <1>3, <1>4, <1>6, <1>7, <1>8, <1>9, <1>11

LEMMA SameValue ==
    ASSUME log' = log, NEW r
    PROVE  Value(r)' = Value(r)
BY DEF Value

(* It keeps every board the one of its revision.                           *)
LEMMA AppliedView ==
    ASSUME Types, HistoryInv, ViewInv, log' = log, browser.selected = TRUE,
           NEW b \in {browser, Forgotten(browser)},
           NEW p \in Seq(Edits), NEW r \in 0 .. Len(log), Show(b, p, r)
    PROVE  ViewInv'
<1>1. PICK next \in 0 .. Len(log), board \in Int :
         /\ next = Merged(b, r) /\ board = Resolved(b, next)
         /\ browser'.selected = browser.selected
         /\ browser'.version = next /\ browser'.last = next /\ browser'.restore = None
         /\ browser'.shown = Overlaid(board, p) /\ cache' = Recached(next, board)
  BY Applied
<1>2. /\ b.version \in {None, browser.version} /\ b.shown = browser.shown
      /\ b.restore = browser.restore
  BY DEF Forgotten, Types, Browsers
<1>3. Len(log) \in Nat /\ next # None
  BY <1>1 DEF Types, None
<1>4. board <= 0 => board = Value(next)
  BY <1>1, <1>2, <1>3 DEF Resolved, ViewInv
<1>5. browser'.shown <= 0 => browser'.shown = Value(next)
  <2>1. CASE p = <<>>
    BY <1>1, <1>4, <2>1 DEF Overlaid
  <2>2. CASE p # <<>>
    <3>1. Last(p) \in Edits /\ browser'.shown = Last(p)
      BY <1>1, <2>2, LastTypes DEF Overlaid
    <3>2. Last(p) \in Int /\ Last(p) >= 1
      BY <3>1, EditTypes
    <3> QED
      BY <3>1, <3>2
  <2> QED
    BY <2>1, <2>2
<1>6. (cache' = cache) \/ (cache'.revision = next /\ cache'.board = board)
  BY <1>1 DEF Recached
<1>7. /\ cache'.revision = None => cache'.board = Empty
      /\ cache'.board <= 0 => cache'.board = Value(cache'.revision)
  BY <1>3, <1>4, <1>6 DEF ViewInv
<1>8. PICK entry : entry = cache'
  OBVIOUS
<1>9. Value(next)' = Value(next) /\ Value(entry.revision)' = Value(entry.revision)
  BY SameValue
<1>10. cache'.board <= 0 => cache'.board = Value(entry.revision)'
  BY <1>7, <1>8, <1>9
<1>11. browser'.shown <= 0 => browser'.shown = Value(next)'
  BY <1>5, <1>9
<1>12. /\ cache'.board <= 0 => cache'.board = Value(cache.revision)'
       /\ browser'.shown <= 0 => browser'.shown = Value(browser.version)'
  BY <1>1, <1>8, <1>10, <1>11 DEF Value
<1> QED
  BY <1>1, <1>3, <1>7, <1>12 DEF ViewInv

(* The history grows or stays as it is, and nothing that is held changes.  *)
LEMMA Grown ==
    ASSUME Types, HistoryInv, RoomInv, ViewInv, UNCHANGED <<browser, cache>>,
           NEW x \in Edits \cup {-(Len(log) + 1)}, log' \in {log, Append(log, x)},
           log' = log \/ x \notin ToSet(log) \/ x \notin Edits
    PROVE  /\ log' \in Seq(Int) /\ Len(log) \in Nat /\ Len(log') \in Len(log) .. Len(log) + 1
           /\ \A i \in 1 .. Len(log') : log'[i] \in Edits \cup {-i}
           /\ Held(browser.shown)' /\ Held(cache.board)'
           /\ ToSet(log) \subseteq ToSet(log') /\ Durable' \subseteq Durable \cup {x}
           /\ Cardinality(Durable) \in Nat /\ Cardinality(Durable') \in Nat
           /\ x \in Edits => Len(log') + Cardinality(Durable) = Len(log) + Cardinality(Durable')
           /\ x \notin Edits => Cardinality(Durable') = Cardinality(Durable)
           /\ ViewInv'
<1>1. Len(log) \in Nat /\ x \in Int /\ Cardinality(Durable) \in Nat
  BY EditTypes, DurableTypes DEF Types
<1>2. CASE log' = log
  <2>1. Durable' = Durable /\ Held(browser.shown)' /\ Held(cache.board)'
    BY <1>2 DEF Durable, Held, HistoryInv
  <2>2. ViewInv'
    BY <1>2 DEF ViewInv, Value
  <2>3. /\ log' \in Seq(Int) /\ \A i \in 1 .. Len(log') : log'[i] \in Edits \cup {-i}
        /\ ToSet(log) \subseteq ToSet(log') /\ Len(log') \in Len(log) .. Len(log) + 1
    BY <1>1, <1>2 DEF Types, HistoryInv
  <2> QED
    BY <1>1, <1>2, <2>1, <2>2, <2>3
<1>3. CASE log' = Append(log, x) /\ log' # log
  <2>1. /\ log' \in Seq(Int) /\ Len(log') = Len(log) + 1
        /\ \A i \in 1 .. Len(log) : log'[i] = log[i]
        /\ log'[Len(log) + 1] = x /\ ToSet(log') = ToSet(log) \cup {x}
    BY <1>1, <1>3, Appended DEF Types
  <2>2. ASSUME NEW i \in 1 .. Len(log')
        PROVE  log'[i] \in Edits \cup {-i}
    <3>1. CASE i = Len(log) + 1
      BY <2>1, <3>1
    <3>2. CASE i # Len(log) + 1
      <4>1. i \in 1 .. Len(log)
        BY <1>1, <2>1, <3>2
      <4> QED
        BY <2>1, <4>1 DEF HistoryInv
    <3> QED
      BY <3>1, <3>2
  <2>3. Held(browser.shown)' /\ Held(cache.board)'
    <3>1. PICK shown \in Int, board \in Int :
            shown = browser.shown /\ board = cache.board /\ Held(shown) /\ Held(board)
      BY DEF HistoryInv, Types, Browsers, Entries
    <3>2. Held(shown)' /\ Held(board)'
      BY <1>1, <2>1, <3>1 DEF Held
    <3> QED
      BY <3>1, <3>2 DEF Held
  <2>4. /\ x \in Edits => Cardinality(Durable') = Cardinality(Durable) + 1
        /\ x \notin Edits => Cardinality(Durable') = Cardinality(Durable)
        /\ Durable' \subseteq Durable \cup {x}
    BY <1>1, <1>3, DurableGrows
  <2>5. ASSUME NEW r \in Revs, r # None, r <= Len(log)
        PROVE  Value(r)' = Value(r)
    <3>1. r \in 0 .. Len(log) /\ log \in Seq(Int)
      BY <1>1, <2>5 DEF Revs, None, Types
    <3> QED
      BY <1>1, <1>3, <3>1, ValueStays
  <2>6. PICK v \in Revs, w \in Revs, u \in Revs :
          v = browser.version /\ w = browser.restore /\ u = cache.revision
    BY DEF Types, Browsers, Entries
  <2>7. /\ v # None => Value(v)' = Value(v)
        /\ w # None => Value(w)' = Value(w)
        /\ u # None => Value(u)' = Value(u)
    BY <2>5, <2>6 DEF HistoryInv
  <2>8. /\ Value(v)' = Value(browser.version)' /\ Value(w)' = Value(browser.restore)'
        /\ Value(u)' = Value(cache.revision)'
    BY <2>6 DEF Value
  <2>9. u = None => ~(cache.board <= 0)
    BY <2>6, EditTypes DEF ViewInv
  <2>10. ViewInv'
    <3>1. browser' = browser /\ cache' = cache
      OBVIOUS
    <3>2. browser.version # None /\ browser.shown <= 0 =>
            browser.shown = Value(browser.version)'
      BY <2>6, <2>7, <2>8 DEF ViewInv
    <3>3. browser.restore # None /\ browser.shown <= 0 =>
            browser.shown = Value(browser.restore)'
      BY <2>6, <2>7, <2>8 DEF ViewInv
    <3>4. cache.board <= 0 => cache.board = Value(cache.revision)'
      BY <2>6, <2>7, <2>8, <2>9 DEF ViewInv
    <3> QED
      BY <3>1, <3>2, <3>3, <3>4 DEF ViewInv
  <2> QED
    <3>1. /\ Cardinality(Durable') \in Nat
          /\ x \in Edits => Len(log') + Cardinality(Durable) = Len(log) + Cardinality(Durable')
      <4>1. PICK c, d : c = Cardinality(Durable) /\ d = Cardinality(Durable')
        OBVIOUS
      <4>2. c \in Nat /\ (x \in Edits => d = c + 1) /\ (x \notin Edits => d = c)
        BY <1>1, <2>4, <4>1
      <4>3. d \in Nat /\ (x \in Edits => Len(log') + c = Len(log) + d)
        BY <1>1, <2>1, <4>2
      <4> QED
        BY <4>1, <4>3
    <3>2. Len(log') \in Len(log) .. Len(log) + 1 /\ ToSet(log) \subseteq ToSet(log')
      BY <1>1, <2>1
    <3> QED
      BY <1>1, <2>1, <2>2, <2>3, <2>4, <2>10, <3>1, <3>2
<1> QED
  BY <1>2, <1>3

-----------------------------------------------------------------------------
(* The actions of the runtime keep the invariant.                          *)

(* What an append leaves of the history's facts, and of the room for it.   *)
LEMMA HistoryGrows ==
    ASSUME Types, HistoryInv, RoomInv, ViewInv, UNCHANGED <<browser, cache>>,
           NEW x \in Edits \cup {-(Len(log) + 1)}, log' \in {log, Append(log, x)},
           log' = log \/ x \notin ToSet(log) \/ x \notin Edits,
           UNCHANGED <<queue, streamed, fetch>>, late' \subseteq late,
           call'.expected = call.expected, call'.revision <= Len(log'),
           life'.revision <= Len(log')
    PROVE  HistoryInv'
<1>1. PICK m \in Nat, n \in Nat : m = Len(log) /\ n = Len(log') /\ m <= n
  BY Grown
<1>2. /\ \A i \in 1 .. Len(log') : log'[i] \in Edits \cup {-i}
      /\ Held(browser.shown)' /\ Held(cache.board)'
  BY Grown
<1>3. queue'.revision <= n /\ call'.expected <= n
  BY <1>1 DEF HistoryInv, Types, Queues, Calls, Revs, None
<1>4. browser'.version <= n /\ browser'.last <= n /\ browser'.restore <= n
  BY <1>1 DEF HistoryInv, Types, Browsers, Revs, None
<1>5. cache'.revision <= n /\ streamed' <= n
  BY <1>1 DEF HistoryInv, Types, Entries, Revs, None
<1>6. \A command \in late' : command.expected <= n
  BY <1>1 DEF HistoryInv, Types, Commands
<1>7. \A f \in Fetchers : fetch'[f].revision <= n
  BY <1>1 DEF HistoryInv, Types, Fetches
<1> QED
  BY <1>1, <1>2, <1>3, <1>4, <1>5, <1>6, <1>7 DEF HistoryInv

LEMMA RoomGrows ==
    ASSUME Types, HistoryInv, RoomInv, ViewInv, UNCHANGED <<browser, cache>>,
           NEW x \in Edits \cup {-(Len(log) + 1)}, log' \in {log, Append(log, x)},
           log' = log \/ x \notin ToSet(log) \/ x \notin Edits,
           UNCHANGED queue, late' \subseteq late, call'.id = call.id,
           x \in Edits => x <= spent.edits,
           spent' \in Spents, spent'.edits = spent.edits,
           NEW new \in {0, 1}, log' = log \/ x \in Edits \/ new = 1,
           Paid' + new + spent.events <= Paid + spent'.events
    PROVE  RoomInv'
<1>1. PICK m \in Nat, n \in Nat, c \in Nat, d \in Nat :
        /\ m = Len(log) /\ n = Len(log') /\ c = Cardinality(Durable) /\ d = Cardinality(Durable')
        /\ m <= n /\ n <= m + 1
        /\ x \in Edits => n + c = m + d
        /\ x \notin Edits => d = c
        /\ Durable' \subseteq Durable \cup {x}
  BY Grown
<1>2. PICK p \in Nat, q \in Nat, e \in Nat, f \in Nat, k \in Nat :
        /\ p = Paid /\ q = Paid' /\ e = spent.events /\ f = spent'.events /\ k = new
        /\ q + k + e <= p + f
  <2>1. Paid \in Nat /\ Paid' \in Nat /\ new \in Nat
    BY DEF Paid
  <2>2. spent.events \in Nat /\ spent'.events \in Nat
    BY NatBounds DEF Types, Spents
  <2> QED
    BY <2>1, <2>2
<1>3. m + p <= c + e
  BY <1>1, <1>2 DEF RoomInv
<1>4. log' = log => n = m /\ d = c
  BY <1>1 DEF Durable
<1>5. n + q <= d + f
  <2>1. n + c <= m + d + k
    <3>1. m \in Nat /\ n \in Nat /\ c \in Nat /\ d \in Nat /\ k \in Nat
      OBVIOUS
    <3>2. \/ n + c = m + d
          \/ n = m /\ d = c
          \/ n <= m + 1 /\ d = c /\ k = 1
      BY <1>1, <1>2, <1>4, Zenon
    <3> QED
      BY ONLY <3>1, <3>2
  <2>2. /\ m \in Nat /\ n \in Nat /\ c \in Nat /\ d \in Nat /\ k \in Nat
        /\ p \in Nat /\ q \in Nat /\ e \in Nat /\ f \in Nat
        /\ m + p <= c + e /\ q + k + e <= p + f /\ n + c <= m + d + k
    BY <1>2, <1>3, <2>1
  <2> QED
    BY ONLY <2>2
<1>6. Pending' = Pending /\ Durable' \subseteq Durable \cup ({x} \cap Edits)
  BY <1>1 DEF Pending, Durable
<1>7. \A y \in Pending' \cup Durable' : y <= spent'.edits
  BY <1>6 DEF RoomInv
<1> QED
  BY <1>1, <1>2, <1>5, <1>7 DEF RoomInv

LEMMA ActionStays ==
    ASSUME ActionInv, ToSet(log) \subseteq ToSet(log'), life' = life,
           queue'.at = queue.at, queue'.pending = queue.pending
    PROVE  ActionInv'
<1>1. Pending' = Pending /\ Pumped' = Pumped
  BY DEF Pending, Pumped
<1> QED
  BY <1>1 DEF ActionInv

LEMMA Arrived ==
    ASSUME Types, NEW id \in Edits, NEW expected, Arrive(id, expected)
    PROVE  /\ log' \in {log, Append(log, id)} /\ (log' = log \/ id \notin ToSet(log))
BY DEF Arrive, Contains, ToSet, Types

LEMMA CallTypes ==
    ASSUME Types, QueueInv, call.at # "none"
    PROVE  /\ Pumped /\ queue.pending # <<>> /\ queue.pending \in Seq(Edits)
           /\ call.id \in Edits /\ call.id = Head(queue.pending)
           /\ queue.revision \in Nat
BY TailTypes DEF QueueInv, Types, Queues, Revs

LEMMA ServeKeeps ==
    ASSUME Inv, Serve
    PROVE  Inv'
<1>1. /\ Types /\ HistoryInv /\ RoomInv /\ QueueInv /\ ViewInv /\ ActionInv
      /\ call.at = "request" /\ Arrive(call.id, call.expected)
      /\ UNCHANGED <<queue, late, browser, cache, streamed, fetch, life, spent>>
  BY DEF Inv, Serve
<1>2. PICK id \in Edits : id = call.id /\ Pumped
  BY <1>1, CallTypes
<1>3. log' \in {log, Append(log, id)} /\ (log' = log \/ id \notin ToSet(log))
  BY <1>1, <1>2, Arrived
<1>4. PICK n \in Nat : n = Len(log') /\ Len(log) \in Nat /\ n >= Len(log)
  BY <1>1, <1>2, <1>3, Grown
<1>5. PICK answer : answer = IF Contains(log', id) THEN "done" ELSE "conflict"
  OBVIOUS
<1>6. /\ answer \in {"done", "conflict"}
      /\ call' = [call EXCEPT !.at = answer, !.revision = n]
  BY <1>2, <1>4, <1>5 DEF Serve
<1>7. answer = "done" => id \in ToSet(log')
  <2>1. log' \in Seq(Int)
    BY <1>1, <1>2, <1>3, Grown
  <2> QED
    BY <1>5, <2>1 DEF Contains, ToSet
<1>8. call' \in Calls /\ call'.at = answer /\ call'.revision = n /\ call'.id = id
      /\ call'.expected = call.expected
  BY <1>1, <1>2, <1>6 DEF Types, Calls
<1>9. Types'
  BY <1>1, <1>2, <1>3, <1>8, Grown DEF Types
<1>10. HistoryInv' /\ ViewInv'
  <2>1. call'.revision <= Len(log') /\ life'.revision <= Len(log')
    BY <1>1, <1>4, <1>8 DEF HistoryInv, Types, Actions
  <2> QED
    BY <1>1, <1>2, <1>3, <1>8, <2>1, Grown, HistoryGrows
<1>11. RoomInv'
  <2>1. Paid' + 0 + spent.events <= Paid + spent'.events /\ spent' \in Spents /\ id <= spent.edits
    BY <1>1, <1>2 DEF Paid, Types, Spents, RoomInv
  <2> QED
    BY <1>1, <1>2, <1>3, <1>8, <2>1, RoomGrows
<1>12. QueueInv'
  BY <1>1, <1>2, <1>6, <1>7, <1>8 DEF QueueInv, Pumped
<1>13. ActionInv'
  BY <1>1, <1>2, <1>3, Grown, ActionStays
<1> QED
  BY <1>9, <1>10, <1>11, <1>12, <1>13 DEF Inv

LEMMA QueueStays ==
    ASSUME QueueInv, ToSet(log) \subseteq ToSet(log'), UNCHANGED <<queue, call, fetch>>
    PROVE  QueueInv'
BY DEF QueueInv, Pumped

LEMMA ServeLateKeeps ==
    ASSUME Inv, ServeLate
    PROVE  Inv'
<1>1. /\ Types /\ HistoryInv /\ RoomInv /\ QueueInv /\ ViewInv /\ ActionInv
      /\ UNCHANGED <<queue, call, browser, cache, streamed, fetch, life, spent>>
  BY DEF Inv, ServeLate
<1>2. PICK command \in late : Arrive(command.id, command.expected) /\ late' = late \ {command}
  BY DEF ServeLate
<1>3. PICK id \in Edits : id = command.id /\ id <= spent.edits
  BY <1>1, <1>2 DEF Types, Commands, RoomInv
<1>4. log' \in {log, Append(log, id)} /\ (log' = log \/ id \notin ToSet(log))
  BY <1>1, <1>2, <1>3, Arrived
<1>5. Len(log) \in Nat /\ Len(log') \in Nat /\ Len(log') >= Len(log)
  BY <1>1, <1>4, Grown
<1>6. Types'
  BY <1>1, <1>2, <1>4, Grown DEF Types
<1>7. HistoryInv' /\ ViewInv'
  <2>1. call'.revision <= Len(log') /\ life'.revision <= Len(log')
    BY <1>1, <1>5 DEF HistoryInv, Types, Actions, Calls
  <2> QED
    BY <1>1, <1>2, <1>4, <2>1, Grown, HistoryGrows
<1>8. RoomInv'
  <2>1. Paid' + 0 + spent.events <= Paid + spent'.events /\ spent' \in Spents
    BY <1>1, NatBounds DEF Paid, Types, Spents
  <2> QED
    BY <1>1, <1>2, <1>3, <1>4, <2>1, RoomGrows
<1>9. QueueInv' /\ ActionInv'
  BY <1>1, <1>4, Grown, QueueStays, ActionStays
<1> QED
  BY <1>6, <1>7, <1>8, <1>9 DEF Inv

(* The commit of somebody else, and the answer to a lifecycle action.      *)
LEMMA Foreign ==
    ASSUME Types, HistoryInv
    PROVE  /\ Len(log) \in Nat /\ -(Len(log) + 1) \notin Edits
           /\ -(Len(log) + 1) \in Edits \cup {-(Len(log) + 1)}
BY EditTypes DEF Types

LEMMA OthersKeeps ==
    ASSUME Inv, Others
    PROVE  Inv'
<1>1. /\ Types /\ HistoryInv /\ RoomInv /\ QueueInv /\ ViewInv /\ ActionInv
      /\ Event("commit") /\ log' = Append(log, -(Len(log) + 1))
      /\ UNCHANGED <<queue, call, late, browser, cache, streamed, fetch, life>>
  BY DEF Inv, Others
<1>2. PICK x : x = -(Len(log) + 1)
  OBVIOUS
<1>3. x \in Edits \cup {-(Len(log) + 1)} /\ x \notin Edits /\ log' \in {log, Append(log, x)}
  BY <1>1, <1>2, Foreign
<1>4. Len(log) \in Nat /\ Len(log') \in Nat /\ Len(log') >= Len(log)
  BY <1>1, <1>3, Grown
<1>5. spent' \in Spents /\ spent'.events = spent.events + 1 /\ spent'.edits = spent.edits
  BY <1>1, Spending DEF Types
<1>6. Types'
  BY <1>1, <1>3, <1>5, Grown DEF Types
<1>7. HistoryInv' /\ ViewInv'
  <2>1. call'.revision <= Len(log') /\ life'.revision <= Len(log')
    BY <1>1, <1>4 DEF HistoryInv, Types, Actions, Calls
  <2> QED
    BY <1>1, <1>3, <2>1, Grown, HistoryGrows
<1>8. RoomInv'
  <2>1. Paid' + 1 + spent.events <= Paid + spent'.events
    BY <1>1, <1>5, NatBounds DEF Paid, Types, Spents
  <2> QED
    BY <1>1, <1>3, <1>5, <2>1, RoomGrows
<1>9. QueueInv' /\ ActionInv'
  BY <1>1, <1>3, Grown, QueueStays, ActionStays
<1> QED
  BY <1>6, <1>7, <1>8, <1>9 DEF Inv

LEMMA ActServeKeeps ==
    ASSUME Inv, ActServe
    PROVE  Inv'
<1>1. /\ Types /\ HistoryInv /\ RoomInv /\ QueueInv /\ ViewInv /\ ActionInv
      /\ UNCHANGED <<queue, call, late, browser, cache, streamed, fetch, spent>>
  BY DEF Inv, ActServe
<1>2. PICK x : x = -(Len(log) + 1)
  OBVIOUS
<1>3. log' \in {log, Append(log, -(Len(log) + 1))}
  BY DEF ActServe
<1>4. x \in Edits \cup {-(Len(log) + 1)} /\ x \notin Edits /\ log' \in {log, Append(log, x)}
  BY <1>1, <1>2, <1>3, Foreign
<1>5. PICK n \in Nat : n = Len(log') /\ Len(log) \in Nat /\ n >= Len(log)
  BY <1>1, <1>4, Grown
<1>6. life.at = "sent" /\ life' = [life EXCEPT !.at = "answered", !.revision = n]
  BY <1>5 DEF ActServe
<1>7. life' \in Actions /\ life'.at = "answered" /\ life'.revision = n
  BY <1>1, <1>5, <1>6 DEF Types, Actions
<1>8. Types'
  <2>1. log' \in Seq(Int) /\ Types
    BY <1>1, <1>4, Grown
  <2> QED
    BY <1>1, <1>7, <2>1 DEF Types
<1>9. HistoryInv' /\ ViewInv'
  <2>1. call'.revision = call.revision /\ call.revision \in Nat /\ call.revision <= Len(log)
    BY <1>1 DEF HistoryInv, Types, Calls
  <2>2. call'.revision <= Len(log') /\ life'.revision <= Len(log')
    BY <1>5, <1>7, <2>1
  <2> QED
    BY <1>1, <1>4, <2>2, Grown, HistoryGrows
<1>10. RoomInv'
  <2>1. Paid = 1 /\ Paid' = 0
    BY <1>6, <1>7 DEF Paid
  <2>2. spent' = spent /\ spent \in Spents /\ spent.events \in Nat
    BY <1>1, NatBounds DEF Types, Spents
  <2>3. Paid' + 1 + spent.events <= Paid + spent'.events /\ spent' \in Spents
    BY <2>1, <2>2
  <2> QED
    BY <1>1, <1>4, <2>2, <2>3, RoomGrows
<1>11. QueueInv'
  BY <1>1, <1>4, Grown, QueueStays
<1>12. ActionInv'
  BY <1>7 DEF ActionInv
<1> QED
  BY <1>8, <1>9, <1>10, <1>11, <1>12 DEF Inv

-----------------------------------------------------------------------------
(* The actions that leave the history alone: what is shown and cached, and *)
(* the rest.                                                               *)

ViewKept ==
    /\ browser' \in Browsers /\ cache' \in Entries
    /\ browser'.version <= Len(log) /\ browser'.last <= Len(log) /\ browser'.restore <= Len(log)
    /\ cache'.revision <= Len(log) /\ Held(browser'.shown) /\ Held(cache'.board)
    /\ ViewInv'

LEMMA AppliedKept ==
    ASSUME Inv, log' = log, browser.selected = TRUE,
           NEW b \in {browser, Forgotten(browser)},
           NEW p \in Seq(Edits), NEW r \in 0 .. Len(log), Show(b, p, r)
    PROVE  /\ ViewKept /\ browser'.version \in Nat /\ browser'.version <= Len(log)
           /\ browser'.version >= r /\ browser'.selected = TRUE
<1>1. Types /\ HistoryInv /\ ViewInv
  BY DEF Inv
<1>2. Len(log) \in Nat
  BY <1>1 DEF Types
<1>3. PICK next \in 0 .. Len(log), board \in Int :
        /\ next >= r
        /\ browser' \in Browsers /\ browser'.selected = browser.selected
        /\ browser'.version = next /\ browser'.last = next /\ browser'.restore = None
        /\ Held(browser'.shown) /\ cache' \in Entries
        /\ cache'.revision <= Len(log) /\ Held(cache'.board)
  BY <1>1, Applied
<1>4. ViewInv'
  BY <1>1, AppliedView
<1>5. None <= Len(log) /\ next <= Len(log) /\ next \in Nat
  BY <1>2, <1>3 DEF None
<1> QED
  BY <1>3, <1>4, <1>5 DEF ViewKept

LEMMA ForgottenKept ==
    ASSUME Inv, log' = log, browser' \in {browser, Forgotten(browser)}, UNCHANGED cache
    PROVE  ViewKept
<1>1. Types /\ HistoryInv /\ ViewInv /\ Len(log) \in Nat
  BY DEF Inv, Types
<1>2. /\ browser' \in Browsers /\ browser'.last = browser.last /\ browser'.shown = browser.shown
      /\ browser'.restore = browser.restore /\ browser'.selected = browser.selected
      /\ browser'.version \in {None, browser.version} /\ None <= Len(log)
  BY <1>1 DEF Types, Browsers, Revs, Forgotten, None
<1>3. ViewInv'
  <2>1. CASE browser' = browser
    BY <1>1, <2>1 DEF ViewInv, Value
  <2>2. CASE browser' = Forgotten(browser)
    <3>1. browser'.version = None
      BY <1>1, <2>2 DEF Forgotten, Types, Browsers
    <3>2. browser.restore # None /\ browser.shown <= 0 => browser.shown = Value(browser.restore)
      BY <1>1 DEF ViewInv
    <3>3. PICK w : w = browser.restore
      OBVIOUS
    <3>4. Value(w)' = Value(w) /\ Value(browser.restore)' = Value(w)'
      BY <1>2, <3>3, SameValue DEF Value
    <3>5. browser'.restore # None /\ browser'.shown <= 0 =>
            browser'.shown = Value(browser.restore)'
      BY <1>2, <3>2, <3>3, <3>4
    <3>6. cache'.board <= 0 => cache'.board = Value(cache.revision)'
      BY <1>1 DEF ViewInv, Value
    <3> QED
      BY <1>1, <1>2, <3>1, <3>5, <3>6 DEF ViewInv
  <2> QED
    BY <2>1, <2>2
<1> QED
  BY <1>1, <1>2, <1>3 DEF ViewKept, HistoryInv, Types

LEMMA Kept ==
    ASSUME Inv, log' = log, ViewKept,
           queue' \in Queues, queue'.revision <= Len(log),
           Len(queue'.pending) <= spent'.edits, \A x \in Pending' : x <= spent'.edits,
           call' \in Calls, call'.expected <= Len(log), call'.revision <= Len(log),
           call'.id <= spent'.edits, late' \subseteq Commands,
           \A command \in late' : command.expected <= Len(log) /\ command.id <= spent'.edits,
           streamed' \in Nat, streamed' <= Len(log),
           fetch' \in [Fetchers -> Fetches], \A f \in Fetchers : fetch'[f].revision <= Len(log),
           life' \in Actions, life'.revision <= Len(log),
           spent' \in Spents, spent.edits <= spent'.edits,
           Paid' + spent.events <= Paid + spent'.events,
           QueueInv', ActionInv'
    PROVE  Inv'
<1>1. Types /\ HistoryInv /\ RoomInv
  BY DEF Inv
<1>2. Types'
  BY <1>1 DEF Types, ViewKept
<1>3. Held(browser.shown)' /\ Held(cache.board)' /\ ViewInv'
  BY DEF ViewKept, Held
<1>4. HistoryInv'
  BY <1>1, <1>3 DEF HistoryInv, ViewKept
<1>5. RoomInv'
  <2>1. Durable' = Durable
    BY DEF Durable
  <2>2. PICK m \in Nat, c \in Nat, p \in Nat, q \in Nat, e \in Nat, f \in Nat :
          /\ m = Len(log) /\ c = Cardinality(Durable) /\ p = Paid /\ q = Paid'
          /\ e = spent.events /\ f = spent'.events
    <3>1. Paid \in Nat /\ Paid' \in Nat
      BY DEF Paid
    <3>2. spent.events \in Nat /\ spent'.events \in Nat /\ Len(log) \in Nat
      BY <1>1, NatBounds DEF Types, Spents
    <3> QED
      BY <1>1, <3>1, <3>2, DurableTypes
  <2>3. m + p <= c + e /\ q + e <= p + f
    BY <1>1, <2>2 DEF RoomInv
  <2>4. /\ m \in Nat /\ c \in Nat /\ p \in Nat /\ q \in Nat /\ e \in Nat /\ f \in Nat
        /\ m + p <= c + e /\ q + e <= p + f
    BY <2>3
  <2>5. m + q <= c + f
    BY ONLY <2>4
  <2>6. Len(log') + Paid' <= Cardinality(Durable') + spent'.events
    BY <2>1, <2>2, <2>5
  <2>7. ASSUME NEW x \in Durable PROVE x <= spent'.edits
    <3>1. x \in Int /\ x <= spent.edits /\ spent.edits \in Int /\ spent'.edits \in Int
      <4>1. x \in Edits
        BY DEF Durable
      <4>2. x <= spent.edits
        BY <1>1 DEF RoomInv
      <4>3. spent.edits \in Int /\ spent'.edits \in Int
        BY <1>1, NatBounds DEF Types, Spents
      <4> QED
        BY <4>1, <4>2, <4>3, EditTypes
    <3>2. x \in Int /\ x <= spent.edits /\ spent.edits \in Int /\ spent'.edits \in Int
          /\ spent.edits <= spent'.edits
      BY <3>1
    <3> QED
      BY ONLY <3>2
  <2> QED
    BY <2>1, <2>6, <2>7 DEF RoomInv
<1> QED
  BY <1>2, <1>3, <1>4, <1>5 DEF Inv

(* The queue keeps its edits and its command.                              *)
LEMMA Steady ==
    ASSUME Inv, log' = log, ViewKept,
           queue' \in Queues, queue'.pending = queue.pending, queue'.revision <= Len(log),
           UNCHANGED <<call, late>>, streamed' \in Nat, streamed' <= Len(log),
           fetch' \in [Fetchers -> Fetches], \A f \in Fetchers : fetch'[f].revision <= Len(log),
           life' \in Actions, life'.revision <= Len(log),
           spent' \in Spents, spent.edits = spent'.edits,
           Paid' + spent.events <= Paid + spent'.events,
           QueueInv', ActionInv'
    PROVE  Inv'
<1>1. Types /\ HistoryInv /\ RoomInv
  BY DEF Inv
<1>2. Pending' = Pending
  BY DEF Pending
<1>3. /\ Len(queue'.pending) <= spent'.edits /\ \A x \in Pending' : x <= spent'.edits
      /\ call' \in Calls /\ call'.expected <= Len(log) /\ call'.revision <= Len(log)
      /\ call'.id <= spent'.edits /\ late' \subseteq Commands
      /\ \A command \in late' : command.expected <= Len(log) /\ command.id <= spent'.edits
  BY <1>1, <1>2 DEF Types, HistoryInv, RoomInv
<1>4. spent.edits <= spent'.edits
  BY <1>1, NatBounds DEF Types, Spents
<1> QED
  BY <1>3, <1>4, Kept

LEMMA FollowedTypes ==
    ASSUME Types, NEW r \in Nat
    PROVE  /\ Followed(r) \in Queues /\ Followed(r).pending = queue.pending
           /\ Followed(r).at = queue.at /\ Followed(r).revision \in {queue.revision, r}
           /\ Counted(Followed(r)) \in Queues /\ Counted(Followed(r)).pending = queue.pending
           /\ Counted(Followed(r)).at = queue.at
           /\ Counted(Followed(r)).revision \in {queue.revision, r}
BY DEF Types, Queues, Revs, Followed, Counted

LEMMA StoppedTypes ==
    ASSUME NEW q \in Queues, NEW v \in Revs
    PROVE  /\ Stopped(q, v) \in Queues /\ Stopped(q, v).pending = q.pending
           /\ Stopped(q, v).at = "idle"
           /\ Stopped(q, v).revision \in {q.revision} \cup ({v} \ {None})
BY DEF Queues, Revs, Stopped

LEMMA DeliverKeeps ==
    ASSUME Inv, Deliver
    PROVE  Inv'
<1>1. /\ Types /\ HistoryInv /\ QueueInv /\ ActionInv /\ browser.selected = TRUE /\ log' = log
      /\ queue' = Followed(browser'.version)
      /\ UNCHANGED <<log, call, late, fetch, life, spent>>
  BY DEF Inv, Deliver, Types, Browsers
<1>2. PICK r \in streamed .. Len(log) : streamed' = r /\ Show(browser, queue.pending, r)
  BY DEF Deliver
<1>3. r \in 0 .. Len(log) /\ queue.pending \in Seq(Edits)
  BY <1>1, <1>2 DEF Types, Queues
<1>4. ViewKept /\ browser'.version \in Nat /\ browser'.version <= Len(log)
  BY <1>1, <1>2, <1>3, AppliedKept
<1>5. /\ queue' \in Queues /\ queue'.pending = queue.pending /\ queue'.at = queue.at
      /\ queue'.revision \in {queue.revision, browser'.version}
  BY <1>1, <1>4, FollowedTypes
<1>6. queue'.revision <= Len(log) /\ streamed' \in Nat /\ streamed' <= Len(log)
  BY <1>1, <1>2, <1>3, <1>4, <1>5 DEF HistoryInv, Types
<1>7. /\ \A f \in Fetchers : fetch'[f].revision <= Len(log)
      /\ life'.revision <= Len(log) /\ life' \in Actions /\ fetch' \in [Fetchers -> Fetches]
      /\ spent' \in Spents /\ spent.edits = spent'.edits
  BY <1>1 DEF HistoryInv, Types
<1>8. Paid' + spent.events <= Paid + spent'.events
  BY <1>1, NatBounds DEF Paid, Types, Spents
<1>9. QueueInv'
  <2>1. browser'.version # None
    BY <1>4 DEF None
  <2> QED
    BY <1>1, <1>5, <2>1 DEF QueueInv, Pumped
<1>10. ActionInv'
  BY <1>1, <1>5 DEF ActionInv, Pumped, Pending
<1> QED
  BY <1>1, <1>4, <1>5, <1>6, <1>7, <1>8, <1>9, <1>10, Steady

LEMMA AskedTypes ==
    ASSUME Types, HistoryInv, NEW f \in Fetchers
    PROVE  /\ Asked(f) \in [Fetchers -> Fetches] /\ Asked(f)[f].at = "asked"
           /\ \A g \in Fetchers : Asked(f)[g].revision <= Len(log)
           /\ \A g \in Fetchers : g # f => Asked(f)[g].at = fetch[g].at
<1>1. \A g \in Fetchers : fetch[g] \in Fetches /\ fetch[g].revision <= Len(log) /\ 0 <= Len(log)
  BY DEF Types, HistoryInv
<1>2. \A g \in Fetchers : [fetch[g] EXCEPT !.latest = FALSE] \in Fetches
  BY <1>1 DEF Fetches
<1>3. [at |-> "asked", revision |-> 0, latest |-> TRUE] \in Fetches
  BY DEF Fetches
<1>4. \A g \in Fetchers : Asked(f)[g] = IF g = f THEN [at |-> "asked", revision |-> 0, latest |-> TRUE]
                                        ELSE [fetch[g] EXCEPT !.latest = FALSE]
  BY DEF Asked
<1>5. Asked(f) \in [Fetchers -> Fetches]
  BY <1>2, <1>3 DEF Asked
<1>6. \A g \in Fetchers : g # f => /\ Asked(f)[g].at = fetch[g].at
                                   /\ Asked(f)[g].revision = fetch[g].revision
  <2>1. \A x \in Fetches : /\ [x EXCEPT !.latest = FALSE].at = x.at
                           /\ [x EXCEPT !.latest = FALSE].revision = x.revision
    BY DEF Fetches
  <2> QED
    BY <1>1, <1>4, <2>1
<1>7. Asked(f)[f].at = "asked" /\ Asked(f)[f].revision = 0
  <2>1. PICK asked : asked = [at |-> "asked", revision |-> 0, latest |-> TRUE]
    OBVIOUS
  <2>2. asked.at = "asked" /\ asked.revision = 0
    BY <2>1
  <2>3. Asked(f)[f] = asked
    BY <1>4, <2>1
  <2> QED
    BY <2>2, <2>3
<1> QED
  BY <1>1, <1>5, <1>6, <1>7

(* A request that is made makes the others' answers stale.                 *)
LEMMA AskedStarts ==
    ASSUME Types, NEW f \in Fetchers
    PROVE  \A g \in Fetchers : ~(Asked(f)[g].latest /\ Asked(f)[g].at = "read")
<1>1. \A x \in Fetches : [x EXCEPT !.latest = FALSE].latest = FALSE
  BY DEF Fetches
<1>2. PICK asked : asked = [at |-> "asked", revision |-> 0, latest |-> TRUE]
  OBVIOUS
<1>3. asked.at = "asked"
  BY <1>2
<1>4. \A g \in Fetchers : Asked(f)[g] = IF g = f THEN asked
                                        ELSE [fetch[g] EXCEPT !.latest = FALSE]
  BY <1>2 DEF Asked
<1> QED
  BY <1>1, <1>3, <1>4 DEF Types

(* Only the fetches, the lifecycle action or what is spent change.         *)
LEMMA Beside ==
    ASSUME Inv, UNCHANGED <<log, queue, call, late, browser, cache, streamed>>,
           fetch' \in [Fetchers -> Fetches], \A g \in Fetchers : fetch'[g].revision <= Len(log),
           fetch'["pump"].at # "none" <=> fetch["pump"].at # "none",
           life' = life, spent' \in Spents, spent'.edits = spent.edits,
           spent.events <= spent'.events
    PROVE  Inv'
<1>1. Types /\ HistoryInv /\ QueueInv /\ ActionInv
  BY DEF Inv
<1>2. ViewKept
  BY ForgottenKept
<1>3. queue' \in Queues /\ queue'.revision <= Len(log) /\ streamed' \in Nat /\ streamed' <= Len(log)
  BY <1>1 DEF Types, HistoryInv
<1>4. life' \in Actions /\ life'.revision <= Len(log)
  BY <1>1 DEF Types, HistoryInv
<1>5. Paid' + spent.events <= Paid + spent'.events
  BY <1>1, NatBounds DEF Paid, Types, Spents
<1>6. QueueInv'
  BY <1>1 DEF QueueInv, Pumped
<1>7. ActionInv'
  BY <1>1, ActionStays
<1> QED
  BY <1>2, <1>3, <1>4, <1>5, <1>6, <1>7, Steady

LEMMA FetchReadsKeeps ==
    ASSUME Inv, NEW f \in Fetchers, FetchReads(f)
    PROVE  Inv'
<1>1. /\ Types /\ HistoryInv /\ fetch[f].at = "asked"
      /\ fetch' = [fetch EXCEPT ![f].at = "read", ![f].revision = Len(log)]
      /\ UNCHANGED <<log, queue, call, late, browser, cache, streamed, life, spent>>
  BY DEF Inv, FetchReads
<1>2. PICK n \in Nat : n = Len(log)
  BY <1>1 DEF Types
<1>3. PICK one : one = [fetch[f] EXCEPT !.at = "read", !.revision = n]
  OBVIOUS
<1>4. one \in Fetches /\ one.revision = n /\ one.at = "read" /\ fetch' = [fetch EXCEPT ![f] = one]
  BY <1>1, <1>2, <1>3 DEF Types, Fetches
<1>5. \A g \in Fetchers : fetch'[g] = IF g = f THEN one ELSE fetch[g]
  BY <1>1, <1>4 DEF Types
<1>6. fetch' \in [Fetchers -> Fetches] /\ \A g \in Fetchers : fetch'[g].revision <= Len(log)
  BY <1>1, <1>2, <1>4, <1>5 DEF Types, HistoryInv
<1>7. fetch'["pump"].at # "none" <=> fetch["pump"].at # "none"
  BY <1>1, <1>4, <1>5 DEF Fetchers
<1>8. spent' \in Spents /\ spent'.edits = spent.edits /\ spent.events <= spent'.events
  BY <1>1, NatBounds DEF Types, Spents
<1> QED
  BY <1>1, <1>6, <1>7, <1>8, Beside

LEMMA AsksKeeps ==
    ASSUME Inv, Trigger \/ Hydrate
    PROVE  Inv'
<1>1. /\ Types /\ HistoryInv /\ fetch' = Asked("sync") /\ (spent' = spent \/ Event("fetch"))
      /\ UNCHANGED <<log, queue, call, late, browser, cache, streamed, life>>
  BY DEF Inv, Trigger, Hydrate
<1>2. spent' \in Spents /\ spent'.edits = spent.edits /\ spent.events <= spent'.events
  BY <1>1, Spending DEF Types
<1>3. /\ fetch' \in [Fetchers -> Fetches] /\ \A g \in Fetchers : fetch'[g].revision <= Len(log)
      /\ fetch'["pump"].at = fetch["pump"].at
  BY <1>1, AskedTypes DEF Fetchers
<1> QED
  BY <1>1, <1>2, <1>3, Beside

-----------------------------------------------------------------------------
(* A fetch ends.                                                           *)

LEMMA SyncEnds ==
    ASSUME NEW answered, FetchEnds("sync", answered)
    PROVE  /\ life' = life
           /\ \/ /\ answered /\ fetch["sync"].latest /\ browser.selected
                 /\ Show(browser, queue.pending, fetch["sync"].revision)
                 /\ queue' = Counted(Followed(browser'.version))
              \/ UNCHANGED <<browser, cache, queue>>
BY DEF FetchEnds

LEMMA LifeEnds ==
    ASSUME NEW answered, FetchEnds("life", answered)
    PROVE  /\ life' = NoAction
           /\ \/ /\ answered /\ fetch["life"].latest /\ browser.selected
                 /\ ShowAction(fetch["life"].revision)
                 /\ queue' = Counted(Followed(browser'.version))
              \/ UNCHANGED <<browser, cache, queue>>
BY DEF FetchEnds

LEMMA PumpEnds ==
    ASSUME NEW answered, FetchEnds("pump", answered)
    PROVE  /\ life' = Unflushed
           /\ \/ /\ answered /\ fetch["pump"].latest /\ browser.selected
                 /\ Show(browser, queue.pending, fetch["pump"].revision)
                 /\ queue' = Stopped([queue EXCEPT !.refreshed = TRUE], browser'.version)
              \/ /\ browser' \in {browser, Forgotten(browser)} /\ UNCHANGED cache
                 /\ queue' = Stopped(queue, browser.version)
BY DEF FetchEnds

(* A lifecycle action that fails waits for nothing.                        *)
LEMMA Dropped ==
    ASSUME Types, HistoryInv, life' \in {life, NoAction, Unflushed}
    PROVE  /\ life' \in Actions /\ life'.revision <= Len(log) /\ Paid' <= Paid
           /\ Paid \in Nat /\ Paid' \in Nat
           /\ life' = Unflushed => life'.at # "flushing"
<1>1. NoAction \in Actions /\ NoAction.at = "none" /\ NoAction.revision = 0 /\ Len(log) \in Nat
  BY DEF NoAction, Actions, Types
<1>2. life' = life \/ life' = NoAction
  BY DEF Unflushed
<1>3. life' = Unflushed => life'.at # "flushing"
  BY <1>1 DEF Unflushed
<1>4. Paid \in Nat /\ Paid' \in Nat /\ Paid' <= Paid
  BY <1>1, <1>2 DEF Paid
<1> QED
  BY <1>1, <1>2, <1>3, <1>4 DEF Types, HistoryInv

LEMMA EndedTypes ==
    ASSUME Types, HistoryInv, NEW f \in Fetchers, fetch' = [fetch EXCEPT ![f] = NoFetch]
    PROVE  /\ fetch' \in [Fetchers -> Fetches] /\ fetch'[f].at = "none"
           /\ \A g \in Fetchers : fetch'[g].revision <= Len(log)
           /\ \A g \in Fetchers : g # f => fetch'[g] = fetch[g]
<1>1. NoFetch \in Fetches /\ NoFetch.revision = 0 /\ NoFetch.at = "none" /\ Len(log) \in Nat
  BY DEF NoFetch, Fetches, Types
<1> QED
  BY <1>1 DEF Types, HistoryInv

LEMMA FetchEndsKeeps ==
    ASSUME Inv, NEW f \in Fetchers, NEW answered, FetchEnds(f, answered), fetch[f].at # "none",
           UNCHANGED <<log, call, late, streamed>>,
           spent' \in Spents, spent'.edits = spent.edits, spent.events <= spent'.events
    PROVE  Inv'
<1>1. /\ Types /\ HistoryInv /\ QueueInv /\ ActionInv /\ log' = log
      /\ queue.pending \in Seq(Edits) /\ queue \in Queues /\ Len(log) \in Nat
  BY DEF Inv, Types, Queues
<1>2. fetch' = [fetch EXCEPT ![f] = NoFetch]
  BY DEF FetchEnds
<1>3. /\ fetch' \in [Fetchers -> Fetches] /\ fetch'[f].at = "none"
      /\ \A g \in Fetchers : fetch'[g].revision <= Len(log)
      /\ \A g \in Fetchers : g # f => fetch'[g] = fetch[g]
  BY <1>1, <1>2, EndedTypes
<1>4. fetch[f].revision \in 0 .. Len(log)
  BY <1>1 DEF Types, Fetches, HistoryInv
<1>5. /\ streamed' \in Nat /\ streamed' <= Len(log) /\ UNCHANGED <<call, late>>
      /\ spent' \in Spents /\ spent.edits = spent'.edits
  BY <1>1 DEF Types, HistoryInv
<1>6. \A b \in {browser, Forgotten(browser)} :
         browser.selected /\ Show(b, queue.pending, fetch[f].revision) =>
            ViewKept /\ browser'.version \in Nat /\ browser'.version <= Len(log)
  <2>1. browser.selected => browser.selected = TRUE
    BY <1>1 DEF Types, Browsers
  <2> QED
    BY <1>1, <1>4, <2>1, AppliedKept
<1>7. browser' \in {browser, Forgotten(browser)} /\ UNCHANGED cache => ViewKept
  BY <1>1, ForgottenKept
<1>8. CASE f # "pump"
  <2>1. /\ life' \in {life, NoAction} /\ ViewKept
        /\ \/ /\ queue' = Counted(Followed(browser'.version))
              /\ browser'.version \in Nat /\ browser'.version <= Len(log)
           \/ queue' = queue
    <3>1. CASE f = "sync"
      BY <1>6, <1>7, <3>1, SyncEnds
    <3>2. CASE f = "life"
      <4>1. ShowAction(fetch[f].revision) =>
              \E b \in {browser, Forgotten(browser)} : Show(b, queue.pending, fetch[f].revision)
        BY DEF ShowAction
      <4> QED
        BY <1>6, <1>7, <3>2, <4>1, LifeEnds
    <3> QED
      BY <1>8, <3>1, <3>2 DEF Fetchers
  <2>2. /\ queue' \in Queues /\ queue'.pending = queue.pending /\ queue'.at = queue.at
        /\ queue'.revision <= Len(log)
        /\ queue'.revision = queue.revision \/ queue'.revision # None
    BY <1>1, <2>1, FollowedTypes DEF HistoryInv, None
  <2>3. fetch'["pump"] = fetch["pump"]
    BY <1>3, <1>8 DEF Fetchers
  <2>4. QueueInv'
    BY <1>1, <1>5, <2>2, <2>3 DEF QueueInv, Pumped
  <2>5. /\ life' \in Actions /\ life'.revision <= Len(log)
        /\ Paid' + spent.events <= Paid + spent'.events
    BY <1>1, <1>5, <2>1, Dropped, NatBounds DEF Types, Spents
  <2>6. ActionInv'
    BY <1>1, <2>1, <2>2 DEF ActionInv, Pumped, Pending, NoAction
  <2> QED
    BY <1>1, <1>3, <1>5, <2>1, <2>2, <2>4, <2>5, <2>6, Steady
<1>9. CASE f = "pump"
  <2>1. queue.at = "refresh" /\ call.at = "none"
    BY <1>1, <1>9 DEF QueueInv, Pumped
  <2>2. /\ life' = Unflushed /\ ViewKept
        /\ \/ /\ queue' = Stopped([queue EXCEPT !.refreshed = TRUE], browser'.version)
              /\ browser'.version \in Nat /\ browser'.version <= Len(log)
           \/ queue' = Stopped(queue, browser.version)
    BY <1>6, <1>7, <1>9, PumpEnds
  <2>3. PICK q \in Queues, v \in Revs :
          /\ queue' = Stopped(q, v) /\ q.pending = queue.pending /\ q.revision = queue.revision
          /\ v <= Len(log)
    <3>1. CASE queue' = Stopped(queue, browser.version)
      BY <1>1, <3>1 DEF Types, Browsers, HistoryInv
    <3>2. CASE queue' # Stopped(queue, browser.version)
      <4>1. PICK q : q = [queue EXCEPT !.refreshed = TRUE]
        OBVIOUS
      <4>2. q \in Queues /\ q.pending = queue.pending /\ q.revision = queue.revision
        BY <1>1, <4>1 DEF Queues
      <4> QED
        BY <2>2, <3>2, <4>1, <4>2 DEF Revs
    <3> QED
      BY <3>1, <3>2
  <2>4. /\ queue' \in Queues /\ queue'.pending = queue.pending /\ queue'.at = "idle"
        /\ queue'.revision \in {queue.revision} \cup ({v} \ {None})
    BY <2>3, StoppedTypes
  <2>5. queue'.revision <= Len(log)
    BY <1>1, <2>3, <2>4 DEF HistoryInv
  <2>6. QueueInv'
    BY <1>1, <1>3, <1>5, <1>9, <2>1, <2>4 DEF QueueInv, Pumped
  <2>7. /\ life' \in Actions /\ life'.revision <= Len(log) /\ life'.at # "flushing"
        /\ Paid' + spent.events <= Paid + spent'.events
    BY <1>1, <1>5, <2>2, Dropped, NatBounds DEF Types, Spents
  <2>8. life' = life \/ life' = NoAction
    BY <2>2 DEF Unflushed
  <2>9. ActionInv'
    BY <1>1, <2>7, <2>8 DEF ActionInv, NoAction
  <2> QED
    BY <1>1, <1>3, <1>5, <2>2, <2>4, <2>5, <2>6, <2>7, <2>9, Steady
<1> QED
  BY <1>8, <1>9

LEMMA FetchAnswersKeeps ==
    ASSUME Inv, NEW f \in Fetchers, FetchAnswers(f)
    PROVE  Inv'
<1>1. /\ FetchEnds(f, TRUE) /\ fetch[f].at # "none"
      /\ UNCHANGED <<log, call, late, streamed>> /\ spent' = spent
  BY DEF FetchAnswers
<1>2. spent' \in Spents /\ spent'.edits = spent.edits /\ spent.events <= spent'.events
  BY <1>1, NatBounds DEF Inv, Types, Spents
<1> QED
  BY <1>1, <1>2, FetchEndsKeeps

LEMMA FetchFailsKeeps ==
    ASSUME Inv, NEW f \in Fetchers, FetchFails(f)
    PROVE  Inv'
<1>1. /\ FetchEnds(f, FALSE) /\ fetch[f].at # "none"
      /\ UNCHANGED <<log, call, late, streamed>> /\ Event("outage")
  BY DEF FetchFails
<1>2. spent' \in Spents /\ spent'.edits = spent.edits /\ spent.events <= spent'.events
  BY <1>1, Spending DEF Inv, Types
<1> QED
  BY <1>1, <1>2, FetchEndsKeeps

-----------------------------------------------------------------------------
(* The edits of the user and the pump of their queue.                      *)

LEMMA CommandTypes ==
    ASSUME NEW q \in Queues, q.pending # <<>>, q.revision # None
    PROVE  /\ Command(q) \in Calls /\ Command(q).at = "request" /\ Command(q).id = Head(q.pending)
           /\ Command(q).expected = q.revision /\ Command(q).revision = 0
           /\ Command(q).id \in ToSet(q.pending)
<1>1. q.pending \in Seq(Edits) /\ q.revision \in Nat
  BY DEF Queues, Revs
<1>2. Head(q.pending) \in Edits /\ Head(q.pending) \in ToSet(q.pending)
  BY <1>1, TailTypes
<1>3. Head(q.pending) \in 0 .. MaxEdits
  BY <1>2, NatBounds DEF Edits
<1> QED
  BY <1>1, <1>2, <1>3 DEF Command, Calls

(* A queue that stops or goes on, and the command it has sent.             *)
LEMMA PumpTypes ==
    ASSUME Types, HistoryInv, QueueInv, NEW q \in Queues, q.pending # <<>>, q.revision # None,
           q.revision <= Len(log), q.at = queue.at, Pump(q),
           queue.pending # <<>> => Head(q.pending) = Head(queue.pending),
           NEW top \in Nat, \A x \in ToSet(q.pending) : x <= top, call.id <= top
    PROVE  /\ queue' \in Queues /\ queue'.pending = q.pending /\ queue'.revision = q.revision
           /\ queue'.at # "idle" /\ (queue'.at = "refresh" <=> queue.at = "refresh")
           /\ call' \in Calls /\ call'.expected <= Len(log) /\ call'.revision <= Len(log)
           /\ call'.id <= top
           /\ call'.at # "none" <=> queue'.at \in {"first", "second"}
           /\ queue'.at \in {"first", "second"} => call'.id = Head(q.pending)
           /\ call'.at # "done" \/ call' = call
<1>1. Len(log) \in Nat /\ call \in Calls /\ call.expected <= Len(log) /\ call.revision <= Len(log)
  BY DEF Types, HistoryInv
<1>2. CASE queue.at = "idle"
  <2>1. queue' = [q EXCEPT !.at = "first"] /\ call' = Command(q)
    BY <1>2 DEF Pump, MayPump
  <2>2. /\ queue' \in Queues /\ queue'.pending = q.pending /\ queue'.revision = q.revision
        /\ queue'.at = "first"
    BY <2>1 DEF Queues
  <2> QED
    BY <1>1, <1>2, <2>1, <2>2, CommandTypes
<1>3. CASE queue.at # "idle"
  <2>1. queue' = q /\ call' = call
    BY <1>3 DEF Pump, MayPump
  <2> QED
    BY <1>1, <1>3, <2>1 DEF QueueInv, Pumped
<1> QED
  BY <1>2, <1>3

LEMMA EditKeeps ==
    ASSUME Inv, Edit
    PROVE  Inv'
<1>1. /\ Types /\ HistoryInv /\ RoomInv /\ QueueInv /\ ViewInv /\ ActionInv
      /\ browser.selected /\ browser.version # None /\ Spend("edits", MaxEdits)
      /\ browser' = [browser EXCEPT !.shown = spent'.edits]
      /\ log' = log /\ UNCHANGED <<log, late, cache, streamed, fetch, life>>
  BY DEF Inv, Edit
<1>2. PICK x \in Nat : x = spent.edits + 1 /\ spent'.edits = x
  BY <1>1, Spending DEF Types
<1>3. x \in Edits /\ spent' \in Spents /\ spent.edits \in Nat /\ spent'.events = spent.events
  <2>1. spent'.edits \in 0 .. MaxEdits /\ spent' \in Spents
    BY <1>1, Spending DEF Types, Spents
  <2> QED
    BY <1>1, <1>2, <2>1, Spending, NatBounds DEF Types, Edits
<1>4. PICK r : r = IF queue.revision = None THEN browser.version ELSE queue.revision
  OBVIOUS
<1>5. r \in Nat /\ r <= Len(log) /\ r # None
  BY <1>1, <1>4 DEF Types, Queues, Browsers, Revs, HistoryInv, None
<1>6. PICK q : q = [queue EXCEPT !.revision = r, !.pending = Append(queue.pending, x)]
  OBVIOUS
<1>7. Pump(q)
  BY <1>1, <1>2, <1>4, <1>6 DEF Edit
<1>8. /\ queue.pending \in Seq(Edits) /\ Append(queue.pending, x) \in Seq(Edits)
      /\ Append(queue.pending, x) # <<>>
      /\ Len(Append(queue.pending, x)) = Len(queue.pending) + 1
      /\ ToSet(Append(queue.pending, x)) = ToSet(queue.pending) \cup {x}
      /\ queue.pending # <<>> => Head(Append(queue.pending, x)) = Head(queue.pending)
  BY <1>1, <1>3, Joined DEF Types, Queues
<1>9. /\ q \in Queues /\ q.pending = Append(queue.pending, x) /\ q.revision = r
      /\ q.at = queue.at
  BY <1>1, <1>5, <1>6, <1>8 DEF Types, Queues, Revs
<1>10. /\ Pending = ToSet(queue.pending) /\ Pending \subseteq Edits /\ Len(queue.pending) \in Nat
  BY <1>1, PendingTypes
<1>11. ASSUME NEW y \in ToSet(q.pending) PROVE y <= x
  <2>1. y \in Pending \cup {x}
    BY <1>8, <1>9, <1>10, <1>11
  <2>2. CASE y = x
    BY <2>2
  <2>3. CASE y # x
    <3>1. y \in Pending /\ y \in Int /\ y <= spent.edits
      BY <1>1, <1>10, <2>1, <2>3, EditTypes DEF RoomInv
    <3> QED
      BY <1>2, <1>3, <3>1
  <2> QED
    BY <2>2, <2>3
<1>12. call.id <= x
  <2>1. call.id \in Nat /\ call.id <= spent.edits
    BY <1>1, NatBounds DEF RoomInv, Types, Calls
  <2> QED
    BY <1>2, <1>3, <2>1
<1>13. /\ queue' \in Queues /\ queue'.pending = q.pending /\ queue'.revision = q.revision
       /\ queue'.at # "idle" /\ (queue'.at = "refresh" <=> queue.at = "refresh")
       /\ call' \in Calls /\ call'.expected <= Len(log) /\ call'.revision <= Len(log)
       /\ call'.id <= x
       /\ call'.at # "none" <=> queue'.at \in {"first", "second"}
       /\ queue'.at \in {"first", "second"} => call'.id = Head(q.pending)
       /\ call'.at # "done" \/ call' = call
  BY <1>1, <1>5, <1>7, <1>8, <1>9, <1>11, <1>12, PumpTypes
<1>14. Pending' = Pending \cup {x} /\ Pending' = ToSet(q.pending)
  <2>1. Pending' = ToSet(queue'.pending)
    BY <1>13 DEF Queues, Pending, ToSet
  <2> QED
    BY <1>8, <1>9, <1>10, <1>13, <2>1
<1>15. ViewKept
  <2>1. x \in Int /\ x >= 1 /\ x <= Empty /\ Empty \in Int
    BY <1>3, EditTypes
  <2>2. /\ browser' \in Browsers /\ browser'.version = browser.version
        /\ browser'.last = browser.last /\ browser'.restore = browser.restore
        /\ browser'.shown = x /\ browser'.selected = browser.selected
    BY <1>1, <1>2, <2>1 DEF Types, Browsers
  <2>3. Held(browser'.shown) /\ ~(browser'.shown <= 0)
    BY <1>1, <2>1, <2>2 DEF Held, Types
  <2>4. cache.board <= 0 => cache'.board = Value(cache.revision)'
    BY <1>1 DEF ViewInv, Value
  <2>5. ViewInv'
    BY <1>1, <2>2, <2>3, <2>4 DEF ViewInv
  <2> QED
    BY <1>1, <2>2, <2>3, <2>5 DEF ViewKept, HistoryInv, Types
<1>16. QueueInv'
  BY <1>1, <1>5, <1>8, <1>9, <1>13 DEF QueueInv, Pumped
<1>17. ActionInv'
  <2>1. queue.at \in {"idle", "first", "second", "refresh"}
    BY <1>1 DEF Types, Queues
  <2>2. Pumped' => queue.at # "refresh"
    BY <1>13 DEF Pumped
  <2>3. life' = life /\ ToSet(log)' = ToSet(log) /\ Pending \subseteq Pending'
    BY <1>1, <1>14 DEF ToSet
  <2>4. life.at = "flushing" /\ Pumped' => life.owed \subseteq Pending \cup ToSet(log)
    BY <1>1, <2>1, <2>2 DEF ActionInv, Pumped
  <2> QED
    BY <1>1, <1>13, <2>3, <2>4 DEF ActionInv
<1>18. /\ Len(queue'.pending) <= spent'.edits /\ \A y \in Pending' : y <= spent'.edits
       /\ queue'.revision <= Len(log) /\ call'.id <= spent'.edits
  <2>1. Len(queue.pending) <= spent.edits
    BY <1>1 DEF RoomInv
  <2> QED
    BY <1>2, <1>3, <1>5, <1>8, <1>9, <1>10, <1>11, <1>13, <1>14, <2>1
<1>19. /\ late' \subseteq Commands
       /\ \A command \in late' : command.expected <= Len(log) /\ command.id <= spent'.edits
  <2>1. ASSUME NEW command \in late PROVE command.id <= x
    <3>1. command.id \in Int /\ command.id <= spent.edits
      BY <1>1, NatBounds DEF Types, Commands, RoomInv, Edits
    <3> QED
      BY <1>2, <1>3, <3>1
  <2> QED
    BY <1>1, <1>2, <2>1 DEF Types, HistoryInv
<1>20. /\ streamed' \in Nat /\ streamed' <= Len(log) /\ fetch' \in [Fetchers -> Fetches]
       /\ \A f \in Fetchers : fetch'[f].revision <= Len(log)
       /\ life' \in Actions /\ life'.revision <= Len(log)
       /\ Paid' + spent.events <= Paid + spent'.events
  <2>1. Paid' = Paid /\ Paid \in Nat /\ spent.events \in Nat
    BY <1>1, Spending DEF Paid, Types
  <2> QED
    BY <1>1, <1>3, <2>1 DEF Types, HistoryInv
<1>21. spent.edits <= spent'.edits
  BY <1>2, <1>3
<1> QED
  BY <1>1, <1>3, <1>13, <1>15, <1>16, <1>17, <1>18, <1>19, <1>20, <1>21, Kept

(* The pump forgets its command: a batch is committed or fails.            *)
LEMMA RestTypes ==
    ASSUME Types, QueueInv, call.at # "none"
    PROVE  /\ Tail(queue.pending) \in Seq(Edits)
           /\ Pending = ToSet(queue.pending) /\ ToSet(Tail(queue.pending)) \subseteq Pending
           /\ Pending \subseteq ToSet(Tail(queue.pending)) \cup {call.id}
           /\ Len(Tail(queue.pending)) \in Nat
           /\ Len(Tail(queue.pending)) <= Len(queue.pending)
BY CallTypes, PendingTypes, TailTypes

LEMMA CommittedKeeps ==
    ASSUME Inv, Committed
    PROVE  Inv'
<1>1. /\ Types /\ HistoryInv /\ RoomInv /\ QueueInv /\ ViewInv /\ ActionInv
      /\ call.at = "done" /\ log' = log
      /\ UNCHANGED <<log, late, streamed, fetch, spent>>
  BY DEF Inv, Committed
<1>2. PICK rest : rest = [queue EXCEPT !.pending = Tail(queue.pending), !.revision = call.revision]
  OBVIOUS
<1>3. PICK p \in Seq(Edits) :
        /\ p = Tail(queue.pending) /\ ToSet(p) \subseteq Pending
        /\ Pending \subseteq ToSet(p) \cup {call.id} /\ Len(p) \in Nat
        /\ Len(p) <= Len(queue.pending)
  BY <1>1, RestTypes
<1>4. PICK c \in Nat : c = call.revision /\ c <= Len(log) /\ Len(log) \in Nat
  BY <1>1 DEF Types, Calls, HistoryInv
<1>5. /\ rest \in Queues /\ rest.pending = p /\ rest.revision = c /\ rest.revision # None
  <2>1. rest = [queue EXCEPT !.pending = p, !.revision = c] /\ queue \in Queues
    BY <1>1, <1>2, <1>3, <1>4 DEF Types
  <2>2. c # None
    BY <1>4 DEF None
  <2> QED
    BY <2>1, <2>2 DEF Queues, Revs
<1>6. \/ /\ p # <<>> /\ queue' = [rest EXCEPT !.at = "first"] /\ call' = Command(rest)
         /\ life' = life
      \/ /\ p = <<>> /\ queue' = [rest EXCEPT !.at = "idle"] /\ call' = NoCall
         /\ life' = IF life.at = "flushing" THEN [life EXCEPT !.at = "waiting"] ELSE life
  <2>1. IF rest.pending # <<>>
        THEN queue' = [rest EXCEPT !.at = "first"] /\ call' = Command(rest) /\ UNCHANGED life
        ELSE /\ queue' = [rest EXCEPT !.at = "idle"]
             /\ call' = NoCall
             /\ life' = IF life.at = "flushing" THEN [life EXCEPT !.at = "waiting"] ELSE life
    BY <1>2 DEF Committed
  <2> QED
    BY <1>5, <2>1
<1>7. \/ \E b \in {browser, Forgotten(browser)} : browser.selected = TRUE /\ Show(b, p, c)
      \/ browser' = browser /\ cache' = Recached(c, Value(c))
  <2>1. \/ browser.selected /\ Show(IF browser.version <= c THEN Forgotten(browser) ELSE browser, p, c)
        \/ browser' = browser /\ cache' = Recached(c, Value(c))
    BY <1>2, <1>4, <1>5 DEF Committed
  <2>2. browser.selected => browser.selected = TRUE
    BY <1>1 DEF Types, Browsers
  <2> QED
    BY <2>1, <2>2
<1>8. ViewKept
  <2>1. CASE \E b \in {browser, Forgotten(browser)} : browser.selected = TRUE /\ Show(b, p, c)
    <3>1. c \in 0 .. Len(log)
      BY <1>4
    <3> QED
      BY <1>1, <2>1, <3>1, AppliedKept
  <2>2. CASE browser' = browser /\ cache' = Recached(c, Value(c))
    <3>1. PICK board \in Int : board = Value(c) /\ Held(board)
      BY <1>1, <1>4, ValueHeld
    <3>2. cache' = cache \/ cache' = [revision |-> c, board |-> board]
      BY <2>2, <3>1 DEF Recached
    <3>3. /\ cache' \in Entries /\ cache'.revision <= Len(log) /\ Held(cache'.board)
      BY <1>1, <1>4, <3>1, <3>2 DEF Types, Entries, Revs, HistoryInv
    <3>4. /\ cache'.revision = None => cache'.board = Empty
          /\ cache'.board <= 0 => cache'.board = Value(cache'.revision)
      <4>1. CASE cache' = cache
        BY <1>1, <4>1 DEF ViewInv
      <4>2. CASE cache' = [revision |-> c, board |-> board]
        BY <1>4, <3>1, <4>2 DEF None
      <4> QED
        BY <3>2, <4>1, <4>2
    <3>5. PICK entry : entry = cache'
      OBVIOUS
    <3>6. Value(entry.revision)' = Value(entry.revision)
      BY <1>1, SameValue
    <3>7. cache'.board <= 0 => cache'.board = Value(cache.revision)'
      BY <3>4, <3>5, <3>6 DEF Value
    <3>8. /\ browser'.version # None /\ browser'.shown <= 0 =>
                browser'.shown = Value(browser.version)'
          /\ browser'.restore # None /\ browser'.shown <= 0 =>
                browser'.shown = Value(browser.restore)'
      BY <1>1, <2>2 DEF ViewInv, Value
    <3>9. ViewInv'
      BY <1>1, <2>2, <3>4, <3>7, <3>8 DEF ViewInv
    <3> QED
      BY <1>1, <2>2, <3>3, <3>9 DEF ViewKept, Types, HistoryInv
  <2> QED
    BY <1>7, <2>1, <2>2
<1>9. /\ queue' \in Queues /\ queue'.pending = p /\ queue'.revision = c
      /\ p # <<>> => queue'.at = "first"
      /\ p = <<>> => queue'.at = "idle"
  BY <1>5, <1>6 DEF Queues
<1>10. /\ Pending' = ToSet(p) /\ Pending' \subseteq Pending
  BY <1>3, <1>9 DEF Queues, Pending, ToSet
<1>11. /\ call' \in Calls /\ call'.expected <= Len(log) /\ call'.revision <= Len(log)
       /\ p # <<>> => call'.at = "request" /\ call'.id = Head(p) /\ call'.id \in Pending
       /\ p = <<>> => call'.at = "none" /\ call'.id = 0
  <2>1. CASE p # <<>>
    <3>1. call' = Command(rest)
      BY <1>6, <2>1
    <3>2. /\ Command(rest) \in Calls /\ Command(rest).at = "request"
          /\ Command(rest).id = Head(p) /\ Command(rest).expected = c
          /\ Command(rest).revision = 0 /\ Command(rest).id \in ToSet(p)
      BY <1>5, <2>1, CommandTypes
    <3> QED
      BY <1>3, <1>4, <2>1, <3>1, <3>2
  <2>2. CASE p = <<>>
    <3>1. call' = NoCall
      BY <1>6, <2>2
    <3>2. /\ NoCall \in Calls /\ NoCall.at = "none" /\ NoCall.id = 0
          /\ NoCall.expected = 0 /\ NoCall.revision = 0
      BY NatBounds DEF NoCall, Calls
    <3> QED
      BY <1>4, <2>2, <3>1, <3>2
  <2> QED
    BY <2>1, <2>2
<1>12. /\ spent' \in Spents /\ spent.edits <= spent'.edits /\ spent.edits \in Nat
       /\ spent' = spent
  BY <1>1, NatBounds DEF Types, Spents
<1>13. call'.id <= spent'.edits /\ Len(queue'.pending) <= spent'.edits
       /\ \A x \in Pending' : x <= spent'.edits
  <2>1. p = <<>> => 0 <= spent'.edits
    BY <1>12
  <2>2. Len(queue.pending) <= spent.edits /\ \A x \in Pending : x <= spent.edits
    BY <1>1 DEF RoomInv
  <2>3. Len(queue'.pending) <= spent'.edits
    <3>1. Len(queue.pending) \in Nat
      BY <1>1, PendingTypes
    <3> QED
      BY <1>3, <1>9, <1>12, <2>2, <3>1
  <2> QED
    BY <1>10, <1>11, <1>12, <2>1, <2>2, <2>3
<1>14. QueueInv'
  <2>1. Pumped' <=> p # <<>>
    BY <1>9 DEF Pumped
  <2>2. call'.at # "none" <=> Pumped'
    BY <1>11, <2>1
  <2>3. fetch'["pump"].at # "none" <=> queue'.at = "refresh"
    BY <1>1, <1>9, CallTypes DEF QueueInv, Pumped
  <2> QED
    BY <1>4, <1>5, <1>9, <1>11, <2>1, <2>2, <2>3 DEF QueueInv
<1>15. /\ life' \in Actions /\ life'.revision <= Len(log) /\ life'.owed = life.owed
       /\ life'.at \in {life.at, "waiting"}
       /\ life'.at = "waiting" /\ life.at # "waiting" => p = <<>> /\ life.at = "flushing"
       /\ life'.at = "flushing" => life.at = "flushing" /\ p # <<>>
       /\ Paid' + spent.events <= Paid + spent'.events
  <2>1. \/ life' = life /\ (p = <<>> => life.at # "flushing")
        \/ /\ p = <<>> /\ life.at = "flushing"
           /\ life' = [life EXCEPT !.at = "waiting"]
    BY <1>6
  <2>2. CASE life' = life /\ (p = <<>> => life.at # "flushing")
    <3>1. Paid' = Paid /\ Paid \in Nat /\ spent.events \in Nat
      BY <1>1, <2>2, Spending DEF Paid, Types
    <3>2. life'.at = "flushing" => p # <<>>
      BY <2>2
    <3> QED
      BY <1>1, <1>12, <2>2, <3>1, <3>2 DEF Types, HistoryInv
  <2>3. CASE p = <<>> /\ life.at = "flushing" /\ life' = [life EXCEPT !.at = "waiting"]
    <3>1. life' \in Actions /\ life'.at = "waiting" /\ life'.owed = life.owed
          /\ life'.revision = life.revision
      BY <1>1, <2>3 DEF Types, Actions
    <3>2. Paid' = 1 /\ Paid = 1 /\ spent.events \in Nat
      BY <1>1, <2>3, <3>1, Spending DEF Paid, Types
    <3>3. Paid' + spent.events <= Paid + spent'.events
      BY <1>12, <3>2
    <3>4. life'.revision <= Len(log)
      BY <1>1, <3>1 DEF HistoryInv
    <3> QED
      BY <2>3, <3>1, <3>3, <3>4
  <2> QED
    BY <2>1, <2>2, <2>3
<1>16. ActionInv'
  <2>1. call.id \in ToSet(log) /\ ToSet(log)' = ToSet(log) /\ Pumped
    BY <1>1, CallTypes DEF QueueInv, ToSet
  <2>2. life.at = "flushing" => life.owed \subseteq Pending' \cup ToSet(log)
    BY <1>1, <1>3, <1>10, <2>1 DEF ActionInv
  <2>3. p = <<>> => Pending' = {}
    BY <1>10 DEF ToSet
  <2> QED
    BY <1>1, <1>9, <1>15, <2>1, <2>2, <2>3 DEF ActionInv
<1>17. /\ late' \subseteq Commands
       /\ \A command \in late' : command.expected <= Len(log) /\ command.id <= spent'.edits
       /\ streamed' \in Nat /\ streamed' <= Len(log) /\ fetch' \in [Fetchers -> Fetches]
       /\ \A f \in Fetchers : fetch'[f].revision <= Len(log)
  BY <1>1 DEF Types, HistoryInv, RoomInv
<1>18. queue'.revision <= Len(log)
  BY <1>4, <1>9
<1> QED
  BY <1>1, <1>8, <1>9, <1>11, <1>12, <1>13, <1>14, <1>15, <1>16, <1>17, <1>18, Kept

LEMMA RolledBackKept ==
    ASSUME Inv, log' = log, browser.selected = TRUE, RolledBack
    PROVE  ViewKept
<1>1. CASE browser.last = None
  BY <1>1, ForgottenKept DEF RolledBack
<1>2. CASE browser.last # None
  <2>1. browser.last \in 0 .. Len(log) /\ <<>> \in Seq(Edits)
    BY <1>2 DEF Inv, Types, Browsers, Revs, HistoryInv, None
  <2> QED
    BY <1>2, <2>1, AppliedKept DEF RolledBack
<1> QED
  BY <1>1, <1>2

LEMMA FailKeeps ==
    ASSUME Inv, call.at # "none", Fail, log' = log, streamed' = streamed,
           late' \subseteq Commands,
           \A command \in late' : command.expected <= Len(log) /\ command.id <= spent.edits,
           spent' \in Spents, spent'.edits = spent.edits, spent.events <= spent'.events
    PROVE  Inv'
<1>1. /\ Types /\ HistoryInv /\ RoomInv /\ QueueInv /\ ActionInv
      /\ Pumped /\ queue.at # "refresh" /\ Len(log) \in Nat
  BY CallTypes DEF Inv, Types, Pumped
<1>2. call' \in Calls /\ call'.at = "none" /\ call'.id = 0 /\ call'.expected = 0 /\ call'.revision = 0
  BY NatBounds DEF Fail, NoCall, Calls
<1>3. /\ queue' \in Queues /\ queue'.pending = <<>> /\ queue'.revision = queue.revision
      /\ browser.selected => queue'.at = "refresh"
      /\ ~browser.selected => queue'.at = "idle"
  <2>1. queue \in Queues /\ <<>> \in Seq(Edits)
    BY <1>1 DEF Types
  <2>2. CASE browser.selected
    <3>1. queue' = [queue EXCEPT !.pending = <<>>, !.at = "refresh", !.refreshed = FALSE]
      BY <2>2 DEF Fail
    <3> QED
      BY <2>1, <2>2, <3>1 DEF Queues
  <2>3. CASE ~browser.selected
    <3>1. queue' = [queue EXCEPT !.pending = <<>>, !.at = "idle"]
      BY <2>3 DEF Fail
    <3> QED
      BY <2>1, <2>3, <3>1 DEF Queues
  <2> QED
    BY <2>2, <2>3
<1>4. Pending' = {}
  BY <1>3 DEF Pending
<1>5. ViewKept
  <2>1. CASE browser.selected
    <3>1. browser.selected = TRUE /\ RolledBack
      BY <1>1, <2>1 DEF Fail, Types, Browsers
    <3> QED
      BY <3>1, RolledBackKept
  <2>2. CASE ~browser.selected
    BY <2>2, ForgottenKept DEF Fail
  <2> QED
    BY <2>1, <2>2
<1>6. /\ fetch' \in [Fetchers -> Fetches] /\ \A f \in Fetchers : fetch'[f].revision <= Len(log)
      /\ browser.selected => fetch'["pump"].at = "asked"
      /\ ~browser.selected => fetch' = fetch
  BY <1>1, AskedTypes DEF Fail, Fetchers, Types, HistoryInv
<1>7. life' \in {life, Unflushed} /\ (~browser.selected => life' = Unflushed)
  BY DEF Fail
<1>8. /\ life' \in Actions /\ life'.revision <= Len(log)
      /\ ~browser.selected => life'.at # "flushing"
      /\ Paid' + spent.events <= Paid + spent'.events
  <2>1. spent.events \in Nat /\ spent'.events \in Nat
    BY <1>1, NatBounds DEF Types, Spents
  <2> QED
    BY <1>1, <1>7, <2>1, Dropped
<1>9. QueueInv'
  <2>1. fetch["pump"].at = "none"
    BY <1>1 DEF QueueInv
  <2> QED
    BY <1>2, <1>3, <1>6, <2>1 DEF QueueInv, Pumped
<1>10. ActionInv'
  <2>1. life' = life \/ life' = NoAction
    BY <1>7 DEF Unflushed
  <2>2. ToSet(log)' = ToSet(log) /\ ~Pumped' /\ NoAction.at = "none"
    BY <1>3 DEF ToSet, Pumped, NoAction
  <2>3. life'.at = "flushing" => browser.selected
    BY <1>8
  <2>4. life'.at \in {"waiting", "sent"} => life'.owed \subseteq ToSet(log)
    BY <1>1, <2>1, <2>2 DEF ActionInv
  <2> QED
    BY <1>3, <2>2, <2>3, <2>4 DEF ActionInv
<1>11. /\ spent.edits \in Nat /\ streamed \in Nat /\ streamed <= Len(log)
       /\ queue.revision <= Len(log)
  BY <1>1, Spending DEF Types, HistoryInv
<1>12. Len(queue'.pending) = 0
  BY <1>3
<1> QED
  BY <1>1, <1>2, <1>3, <1>4, <1>5, <1>6, <1>8, <1>9, <1>10, <1>11, <1>12, Kept

LEMMA RefusedKeeps ==
    ASSUME Inv, Refused
    PROVE  Inv'
<1>1. /\ Types /\ HistoryInv /\ RoomInv /\ call.at # "none" /\ Fail
      /\ log' = log /\ streamed' = streamed /\ late' = late /\ spent' = spent
  BY DEF Inv, Refused
<1>2. /\ late' \subseteq Commands
      /\ \A command \in late' : command.expected <= Len(log) /\ command.id <= spent.edits
      /\ spent' \in Spents /\ spent'.edits = spent.edits /\ spent.events <= spent'.events
  BY <1>1, NatBounds DEF Types, Spents, HistoryInv, RoomInv
<1> QED
  BY <1>1, <1>2, FailKeeps

LEMMA LostKeeps ==
    ASSUME Inv, Lost
    PROVE  Inv'
<1>1. /\ Types /\ HistoryInv /\ RoomInv /\ QueueInv /\ ActionInv
      /\ call.at # "none" /\ log' = log /\ streamed' = streamed
  BY DEF Inv, Lost
<1>2. spent' \in Spents /\ spent'.edits = spent.edits /\ spent.events <= spent'.events
  BY <1>1, Spending DEF Lost, Types
<1>3. late' \subseteq late \cup {[id |-> call.id, expected |-> call.expected]}
  BY DEF Lost
<1>4. PICK command : command = [id |-> call.id, expected |-> call.expected]
  OBVIOUS
<1>5. /\ command \in Commands /\ command.id = call.id /\ command.expected = call.expected
      /\ command.expected <= Len(log) /\ command.id <= spent.edits
  <2>1. call.id \in Edits /\ call.expected \in Nat
    BY <1>1, CallTypes DEF Types, Calls
  <2>2. command \in Commands /\ command.id = call.id /\ command.expected = call.expected
    BY <1>4, <2>1 DEF Commands
  <2> QED
    BY <1>1, <2>2 DEF HistoryInv, RoomInv
<1>6. /\ late' \subseteq Commands
      /\ \A c \in late' : c.expected <= Len(log) /\ c.id <= spent.edits
  BY <1>1, <1>3, <1>4, <1>5 DEF Types, HistoryInv, RoomInv
<1>7. CASE Fail
  BY <1>1, <1>2, <1>6, <1>7, FailKeeps
<1>8. CASE /\ queue.at = "first" /\ queue' = [queue EXCEPT !.at = "second"]
           /\ call' = Command(queue) /\ UNCHANGED <<browser, cache, fetch, life>>
  <2>1. /\ queue.pending # <<>> /\ queue.pending \in Seq(Edits) /\ queue.revision # None
        /\ queue \in Queues /\ queue.revision <= Len(log)
    BY <1>1, CallTypes DEF QueueInv, Types, HistoryInv
  <2>2. /\ queue' \in Queues /\ queue'.pending = queue.pending
        /\ queue'.revision = queue.revision /\ queue'.at = "second"
    BY <1>8, <2>1 DEF Queues
  <2>3. /\ call' \in Calls /\ call'.at = "request" /\ call'.id = Head(queue.pending)
        /\ call'.expected = queue.revision /\ call'.revision = 0
    BY <1>8, <2>1, CommandTypes
  <2>4. Pending' = Pending
    BY <2>2 DEF Pending
  <2>5. call'.id <= spent'.edits
    BY <1>1, <1>2, <1>8, <2>3 DEF QueueInv, Pumped, RoomInv
  <2>6. QueueInv'
    BY <1>1, <1>8, <2>1, <2>2, <2>3 DEF QueueInv, Pumped
  <2>7. ActionInv'
    <3>1. ToSet(log)' = ToSet(log) /\ life' = life
      BY <1>1, <1>8 DEF ToSet
    <3> QED
      BY <1>1, <1>8, <2>2, <2>4, <3>1 DEF ActionInv, Pumped
  <2>8. ViewKept
    BY <1>1, <1>8, ForgottenKept
  <2>9. /\ Len(queue'.pending) <= spent'.edits /\ \A x \in Pending' : x <= spent'.edits
        /\ call'.revision <= Len(log)
    BY <1>1, <1>2, <2>2, <2>3, <2>4 DEF RoomInv, Types
  <2>10. Paid' + spent.events <= Paid + spent'.events /\ spent.edits <= spent'.edits
    <3>1. Paid' = Paid /\ Paid \in Nat /\ spent.events \in Nat /\ spent'.events \in Nat
      BY <1>1, <1>2, <1>8, NatBounds DEF Paid, Types, Spents
    <3>2. spent.edits \in Nat
      BY <1>1, Spending DEF Types
    <3> QED
      BY <1>2, <3>1, <3>2
  <2>11. /\ streamed' \in Nat /\ streamed' <= Len(log) /\ fetch' \in [Fetchers -> Fetches]
         /\ \A f \in Fetchers : fetch'[f].revision <= Len(log)
         /\ life' \in Actions /\ life'.revision <= Len(log)
    BY <1>1, <1>8 DEF Types, HistoryInv
  <2> QED
    BY <1>1, <1>2, <1>6, <2>1, <2>2, <2>3, <2>5, <2>6, <2>7, <2>8, <2>9, <2>10, <2>11, Kept
<1> QED
  BY <1>7, <1>8 DEF Lost

-----------------------------------------------------------------------------
(* Lifecycle actions.                                                      *)

LEMMA ActKeeps ==
    ASSUME Inv, Act
    PROVE  Inv'
<1>1. /\ Types /\ HistoryInv /\ RoomInv /\ QueueInv /\ ViewInv /\ ActionInv
      /\ life.at = "none" /\ Event("action") /\ Flush
      /\ browser' = [browser EXCEPT !.shown = Presented]
      /\ log' = log /\ UNCHANGED <<log, late, cache, streamed, fetch>>
  BY DEF Inv, Act
<1>2. /\ Len(log) \in Nat /\ queue \in Queues /\ Pending \subseteq Edits
      /\ Pending = ToSet(queue.pending) /\ Len(queue.pending) \in Nat
      /\ queue.pending = <<>> => Pending = {}
  BY <1>1, PendingTypes DEF Types
<1>3. PICK at : at = IF queue.at = "idle" /\ queue.pending = <<>> THEN "waiting" ELSE "flushing"
  OBVIOUS
<1>4. life' = [NoAction EXCEPT !.at = at, !.owed = Pending]
  BY <1>3 DEF Act
<1>5. /\ life' \in Actions /\ life'.at = at /\ life'.owed = Pending /\ life'.revision = 0
      /\ at \in {"waiting", "flushing"}
  BY <1>2, <1>3, <1>4 DEF NoAction, Actions
<1>6. /\ spent' \in Spents /\ spent'.events = spent.events + 1 /\ spent'.edits = spent.edits
      /\ spent.events \in Nat /\ spent.edits \in Nat
  BY <1>1, Spending DEF Types
<1>7. Paid' + spent.events <= Paid + spent'.events /\ spent.edits <= spent'.edits
  <2>1. Paid' = 1 /\ Paid = 0
    BY <1>1, <1>5 DEF Paid
  <2> QED
    BY <1>6, <2>1
<1>8. ViewKept
  <2>1. /\ browser' \in Browsers /\ browser'.version = browser.version
        /\ browser'.last = browser.last /\ browser'.restore = browser.restore
        /\ browser'.shown = Presented /\ browser'.selected = browser.selected
    BY <1>1, EditTypes DEF Types, Browsers
  <2>2. Held(browser'.shown) /\ ~(browser'.shown <= 0)
    BY <1>2, <2>1, EditTypes DEF Held
  <2>3. cache.board <= 0 => cache'.board = Value(cache.revision)'
    BY <1>1 DEF ViewInv, Value
  <2>4. browser.selected
    BY DEF Act
  <2>5. browser.selected # FALSE
    BY <2>4
  <2>6. ViewInv'
    BY <1>1, <2>1, <2>2, <2>3, <2>5 DEF ViewInv
  <2> QED
    BY <1>1, <2>1, <2>2, <2>6 DEF ViewKept, HistoryInv, Types
<1>9. /\ queue' \in Queues /\ queue'.pending = queue.pending /\ queue'.revision <= Len(log)
      /\ call' \in Calls /\ call'.expected <= Len(log) /\ call'.revision <= Len(log)
      /\ call'.id <= spent.edits
      /\ QueueInv'
      /\ queue'.at = "idle" => queue.at = "idle" /\ queue.pending = <<>>
  <2>1. CASE queue.pending = <<>>
    <3>1. queue' = queue /\ call' = call
      BY <1>1, <2>1 DEF Flush
    <3>2. QueueInv'
      BY <1>1, <3>1 DEF QueueInv, Pumped
    <3> QED
      BY <1>1, <2>1, <3>1, <3>2 DEF Types, HistoryInv, RoomInv
  <2>2. CASE queue.pending # <<>>
    <3>1. Pump(queue)
      BY <1>1, <2>2 DEF Flush
    <3>2. queue.revision # None /\ queue.revision <= Len(log)
      BY <1>1, <2>2 DEF QueueInv, HistoryInv
    <3>3. (\A x \in ToSet(queue.pending) : x <= spent.edits) /\ call.id <= spent.edits
      BY <1>1, <1>2 DEF RoomInv
    <3>4. /\ queue' \in Queues /\ queue'.pending = queue.pending /\ queue'.revision = queue.revision
          /\ queue'.at # "idle" /\ (queue'.at = "refresh" <=> queue.at = "refresh")
          /\ call' \in Calls /\ call'.expected <= Len(log) /\ call'.revision <= Len(log)
          /\ call'.id <= spent.edits
          /\ call'.at # "none" <=> queue'.at \in {"first", "second"}
          /\ queue'.at \in {"first", "second"} => call'.id = Head(queue.pending)
          /\ call'.at # "done" \/ call' = call
      BY <1>1, <1>2, <1>6, <2>2, <3>1, <3>2, <3>3, PumpTypes
    <3>5. QueueInv'
      BY <1>1, <2>2, <3>2, <3>4 DEF QueueInv, Pumped
    <3> QED
      BY <3>2, <3>4, <3>5
  <2> QED
    BY <2>1, <2>2
<1>10. Pending' = Pending /\ ToSet(log)' = ToSet(log)
  BY <1>1, <1>9 DEF Pending, ToSet
<1>11. ActionInv'
  <2>1. at = "waiting" => Pending = {}
    BY <1>2, <1>3
  <2>2. at = "flushing" => queue'.at # "idle"
    BY <1>3, <1>9
  <2> QED
    BY <1>5, <1>10, <2>1, <2>2 DEF ActionInv
<1>12. /\ Len(queue'.pending) <= spent'.edits /\ \A x \in Pending' : x <= spent'.edits
       /\ late' \subseteq Commands
       /\ \A command \in late' : command.expected <= Len(log) /\ command.id <= spent'.edits
       /\ streamed' \in Nat /\ streamed' <= Len(log) /\ fetch' \in [Fetchers -> Fetches]
       /\ \A f \in Fetchers : fetch'[f].revision <= Len(log)
  BY <1>1, <1>6, <1>9, <1>10 DEF Types, HistoryInv, RoomInv
<1>13. life'.revision <= Len(log) /\ call'.id <= spent'.edits
  BY <1>2, <1>5, <1>6, <1>9
<1> QED
  BY <1>1, <1>5, <1>6, <1>7, <1>8, <1>9, <1>11, <1>12, <1>13, Kept

LEMMA ActSendKeeps ==
    ASSUME Inv, ActSend
    PROVE  Inv'
<1>1. /\ Types /\ HistoryInv /\ QueueInv /\ ActionInv /\ life.at = "waiting" /\ log' = log
      /\ UNCHANGED <<log, queue, call, late, browser, cache, streamed, fetch, spent>>
  BY DEF Inv, ActSend
<1>2. life' = [life EXCEPT !.at = "sent"] \/ life' = NoAction
  BY DEF ActSend
<1>3. /\ life' \in Actions /\ life'.revision <= Len(log) /\ life'.at \in {"sent", "none"}
      /\ life'.at = "sent" => life'.owed = life.owed
  <2>1. CASE life' = NoAction
    BY <1>1, <2>1, Dropped DEF NoAction
  <2>2. CASE life' = [life EXCEPT !.at = "sent"]
    BY <1>1, <2>2 DEF Types, Actions, HistoryInv
  <2> QED
    BY <1>2, <2>1, <2>2
<1>4. ViewKept
  BY <1>1, ForgottenKept
<1>5. QueueInv'
  BY <1>1 DEF QueueInv, Pumped
<1>6. ActionInv'
  BY <1>1, <1>3 DEF ActionInv, ToSet
<1>7. spent' \in Spents /\ spent.edits = spent'.edits /\ Paid' + spent.events <= Paid + spent'.events
  <2>1. Paid = 1 /\ Paid' \in {0, 1} /\ spent' = spent /\ spent.events \in Nat
    BY <1>1, <1>3, Spending DEF Paid, Types
  <2> QED
    BY <1>1, <2>1 DEF Types
<1>8. /\ queue' \in Queues /\ queue'.revision <= Len(log) /\ queue'.pending = queue.pending
      /\ streamed' \in Nat /\ streamed' <= Len(log) /\ fetch' \in [Fetchers -> Fetches]
      /\ \A f \in Fetchers : fetch'[f].revision <= Len(log)
  BY <1>1 DEF Types, HistoryInv
<1> QED
  BY <1>1, <1>3, <1>4, <1>5, <1>6, <1>7, <1>8, Steady

LEMMA ActEndsKeeps ==
    ASSUME Inv, ActEnds
    PROVE  Inv'
<1>1. /\ Types /\ HistoryInv /\ QueueInv /\ ActionInv /\ life' = NoAction /\ log' = log
      /\ UNCHANGED <<log, call, late, streamed, fetch, spent>>
      /\ life.revision \in 0 .. Len(log) /\ queue.pending \in Seq(Edits)
  BY DEF Inv, ActEnds, Types, Actions, Queues, HistoryInv
<1>2. /\ ViewKept
      /\ \/ /\ queue' = Followed(browser'.version)
            /\ browser'.version \in Nat /\ browser'.version <= Len(log)
         \/ queue' = queue
  <2>1. CASE browser.selected
    <3>1. PICK b \in {browser, Forgotten(browser)} : Show(b, queue.pending, life.revision)
      BY <2>1 DEF ActEnds, ShowAction
    <3>2. browser.selected = TRUE
      BY <1>1, <2>1 DEF Types, Browsers
    <3>3. ViewKept /\ browser'.version \in Nat /\ browser'.version <= Len(log)
      BY <1>1, <3>1, <3>2, AppliedKept
    <3> QED
      BY <2>1, <3>3 DEF ActEnds
  <2>2. CASE ~browser.selected
    BY <1>1, <2>2, ForgottenKept DEF ActEnds
  <2> QED
    BY <2>1, <2>2
<1>3. /\ queue' \in Queues /\ queue'.pending = queue.pending /\ queue'.at = queue.at
      /\ queue'.revision <= Len(log)
      /\ queue'.revision = queue.revision \/ queue'.revision # None
  <2>1. CASE queue' = queue
    BY <1>1, <2>1 DEF HistoryInv, Types
  <2>2. CASE /\ queue' = Followed(browser'.version)
             /\ browser'.version \in Nat /\ browser'.version <= Len(log)
    BY <1>1, <2>2, FollowedTypes DEF HistoryInv, None, Types
  <2> QED
    BY <1>2, <2>1, <2>2
<1>4. QueueInv'
  BY <1>1, <1>3 DEF QueueInv, Pumped
<1>5. ActionInv'
  BY <1>1 DEF ActionInv, NoAction
<1>6. /\ life' \in Actions /\ life'.revision <= Len(log)
      /\ Paid' + spent.events <= Paid + spent'.events
      /\ spent' \in Spents /\ spent.edits = spent'.edits
  BY <1>1, Dropped, Spending DEF Types
<1>7. /\ streamed' \in Nat /\ streamed' <= Len(log) /\ fetch' \in [Fetchers -> Fetches]
      /\ \A f \in Fetchers : fetch'[f].revision <= Len(log)
  BY <1>1 DEF Types, HistoryInv
<1> QED
  BY <1>1, <1>2, <1>3, <1>4, <1>5, <1>6, <1>7, Steady

LEMMA ActLostKeeps ==
    ASSUME Inv, ActLost
    PROVE  Inv'
<1>1. /\ Types /\ HistoryInv /\ QueueInv /\ ActionInv /\ life.at \in {"sent", "answered"}
      /\ Event("loss") /\ log' = log
      /\ UNCHANGED <<log, queue, call, late, browser, cache, streamed>>
  BY DEF Inv, ActLost
<1>2. \/ fetch' = Asked("life") /\ life' = [life EXCEPT !.at = "restoring"]
      \/ fetch' = fetch /\ life' = NoAction
  BY DEF ActLost
<1>3. /\ life' \in Actions /\ life'.revision <= Len(log) /\ life'.at \in {"restoring", "none"}
  <2>1. CASE life' = NoAction
    BY <1>1, <2>1, Dropped DEF NoAction
  <2>2. CASE life' = [life EXCEPT !.at = "restoring"]
    BY <1>1, <2>2 DEF Types, Actions, HistoryInv
  <2> QED
    BY <1>2, <2>1, <2>2
<1>4. ViewKept
  BY <1>1, ForgottenKept
<1>5. /\ fetch' \in [Fetchers -> Fetches] /\ \A f \in Fetchers : fetch'[f].revision <= Len(log)
      /\ fetch'["pump"].at = fetch["pump"].at
  BY <1>1, <1>2, AskedTypes DEF Fetchers, Types, HistoryInv
<1>6. QueueInv'
  BY <1>1, <1>5 DEF QueueInv, Pumped
<1>7. ActionInv'
  BY <1>3 DEF ActionInv
<1>8. spent' \in Spents /\ spent.edits = spent'.edits /\ Paid' + spent.events <= Paid + spent'.events
  <2>1. /\ spent' \in Spents /\ spent'.events = spent.events + 1 /\ spent'.edits = spent.edits
        /\ spent.events \in Nat
    BY <1>1, Spending DEF Types
  <2>2. Paid' = 0 /\ Paid \in {0, 1}
    BY <1>3 DEF Paid
  <2> QED
    BY <2>1, <2>2
<1>9. /\ queue' \in Queues /\ queue'.revision <= Len(log) /\ queue'.pending = queue.pending
      /\ streamed' \in Nat /\ streamed' <= Len(log)
  BY <1>1 DEF Types, HistoryInv
<1> QED
  BY <1>1, <1>3, <1>4, <1>5, <1>6, <1>7, <1>8, <1>9, Steady

-----------------------------------------------------------------------------
(* The user leaves and returns.                                            *)

LEMMA LeaveKeeps ==
    ASSUME Inv, Leave
    PROVE  Inv'
<1>1. /\ Types /\ HistoryInv /\ QueueInv /\ ViewInv /\ ActionInv /\ Event("leave")
      /\ log' = log /\ Len(log) \in Nat /\ UNCHANGED <<log, queue, call, late, life>>
      /\ browser' = [selected |-> FALSE, version |-> None, last |-> None, shown |-> Empty,
                     restore |-> None, applied |-> FALSE]
      /\ streamed' = Len(log)
  BY DEF Inv, Leave, Types
<1>2. /\ browser' \in Browsers /\ browser'.selected = FALSE /\ browser'.version = None
      /\ browser'.last = None /\ browser'.shown = Empty /\ browser'.restore = None
  BY <1>1, EditTypes DEF Browsers, Revs
<1>3. PICK v \in Revs : v = browser.version /\ v <= Len(log)
                        /\ (v # None => v \in 0 .. Len(log) /\ browser.last = v)
  BY <1>1 DEF Types, Browsers, Revs, HistoryInv, ViewInv, None
<1>4. cache' = cache \/ (v # None /\ cache' = [revision |-> v, board |-> Value(v)])
  BY <1>3 DEF Leave
<1>5. v # None => Value(v) \in Int /\ Held(Value(v))
  BY <1>1, <1>3, ValueHeld
<1>6. cache' \in Entries /\ cache'.revision <= Len(log) /\ Held(cache'.board)
  BY <1>1, <1>3, <1>4, <1>5 DEF Types, Entries, HistoryInv
<1>7. /\ cache'.revision = None => cache'.board = Empty
      /\ cache'.board <= 0 => cache'.board = Value(cache'.revision)
  <2>1. CASE cache' = cache
    BY <1>1, <2>1 DEF ViewInv
  <2>2. CASE v # None /\ cache' = [revision |-> v, board |-> Value(v)]
    BY <2>2
  <2> QED
    BY <1>4, <2>1, <2>2
<1>8. PICK entry : entry = cache'
  OBVIOUS
<1>9. Value(entry.revision)' = Value(entry.revision)
  BY <1>1, SameValue
<1>10. cache'.board <= 0 => cache'.board = Value(cache.revision)'
  BY <1>7, <1>8, <1>9 DEF Value
<1>11. ViewInv'
  BY <1>2, <1>7, <1>10, EditTypes DEF ViewInv
<1>12. ViewKept
  BY <1>1, <1>2, <1>6, <1>11, EditTypes DEF ViewKept, Held, None
<1>13. /\ fetch' \in [Fetchers -> Fetches] /\ \A f \in Fetchers : fetch'[f].revision <= Len(log)
       /\ fetch'["pump"].at = fetch["pump"].at
  <2>1. fetch' = [f \in Fetchers |-> [fetch[f] EXCEPT !.latest = FALSE]]
    BY DEF Leave
  <2>2. \A x \in Fetches : /\ [x EXCEPT !.latest = FALSE] \in Fetches
                           /\ [x EXCEPT !.latest = FALSE].at = x.at
                           /\ [x EXCEPT !.latest = FALSE].revision = x.revision
    BY DEF Fetches
  <2>3. \A f \in Fetchers : fetch[f] \in Fetches /\ fetch[f].revision <= Len(log)
    BY <1>1 DEF Types, HistoryInv
  <2> QED
    BY <2>1, <2>2, <2>3 DEF Fetchers
<1>14. QueueInv'
  BY <1>1, <1>13 DEF QueueInv, Pumped
<1>15. ActionInv'
  BY <1>1, ActionStays
<1>16. spent' \in Spents /\ spent.edits = spent'.edits /\ Paid' + spent.events <= Paid + spent'.events
  <2>1. /\ spent' \in Spents /\ spent'.events = spent.events + 1 /\ spent'.edits = spent.edits
        /\ spent.events \in Nat
    BY <1>1, Spending DEF Types
  <2>2. Paid' = Paid /\ Paid \in Nat
    BY <1>1 DEF Paid
  <2> QED
    BY <2>1, <2>2
<1>17. /\ queue' \in Queues /\ queue'.revision <= Len(log) /\ queue'.pending = queue.pending
       /\ streamed' \in Nat /\ streamed' <= Len(log) /\ life' \in Actions
       /\ life'.revision <= Len(log)
  BY <1>1 DEF Types, HistoryInv
<1> QED
  BY <1>1, <1>12, <1>13, <1>14, <1>15, <1>16, <1>17, Steady

(* Only what is shown and cached changes, and the fetches that are counted. *)
LEMMA Seen ==
    ASSUME Inv, ViewKept, queue' \in {queue, Counted(queue)},
           UNCHANGED <<log, call, late, streamed, fetch, life, spent>>
    PROVE  Inv'
<1>1. /\ Types /\ HistoryInv /\ QueueInv /\ ActionInv
      /\ queue' \in Queues /\ queue'.at = queue.at /\ queue'.pending = queue.pending
      /\ queue'.revision = queue.revision
  BY DEF Inv, Types, Queues, Counted
<1>2. QueueInv'
  BY <1>1 DEF QueueInv, Pumped
<1>3. ActionInv'
  BY <1>1, ActionStays
<1>4. Paid' + spent.events <= Paid + spent'.events
  <2>1. Paid' = Paid /\ Paid \in Nat /\ spent.events \in Nat
    BY <1>1, Spending DEF Paid, Types
  <2> QED
    BY <2>1
<1> QED
  BY <1>1, <1>2, <1>3, <1>4, Steady DEF Types, HistoryInv

LEMMA ReturnKeeps ==
    ASSUME Inv, Return
    PROVE  Inv'
<1>1. /\ Types /\ HistoryInv /\ ViewInv /\ browser.selected = FALSE /\ log' = log
      /\ browser' = [browser EXCEPT !.selected = TRUE, !.shown = cache.board,
                                    !.restore = cache.revision]
      /\ queue' \in {queue, Counted(queue)}
      /\ UNCHANGED <<log, call, late, cache, streamed, fetch, life, spent>>
  BY DEF Inv, Return, Types, Browsers
<1>2. /\ browser' \in Browsers /\ browser'.selected = TRUE /\ browser'.version = browser.version
      /\ browser'.last = browser.last /\ browser'.shown = cache.board
      /\ browser'.restore = cache.revision
  BY <1>1 DEF Types, Browsers, Entries
<1>3. browser.last = None /\ browser.version = None
  BY <1>1 DEF ViewInv
<1>4. cache.board <= 0 => cache'.board = Value(cache.revision)'
  BY <1>1 DEF ViewInv, Value
<1>5. cache.board <= 0 => browser'.shown = Value(browser.restore)'
  BY <1>1, <1>2, <1>4 DEF Value
<1>6. ViewInv'
  BY <1>1, <1>2, <1>3, <1>4, <1>5 DEF ViewInv
<1>7. ViewKept
  BY <1>1, <1>2, <1>6 DEF ViewKept, Types, HistoryInv, Held
<1> QED
  BY <1>1, <1>7, Seen

LEMMA CacheExpiresKeeps ==
    ASSUME Inv, CacheExpires
    PROVE  Inv'
<1>1. /\ Types /\ HistoryInv /\ ViewInv /\ cache' = NoEntry /\ log' = log /\ Len(log) \in Nat
      /\ UNCHANGED <<log, queue, call, late, browser, streamed, fetch, life, spent>>
  BY DEF Inv, CacheExpires, Types
<1>2. cache' \in Entries /\ cache'.revision = None /\ cache'.board = Empty /\ None <= Len(log)
      /\ Held(cache'.board) /\ ~(cache'.board <= 0)
  BY <1>1, EditTypes DEF NoEntry, Entries, Revs, Held
<1>3. ViewInv'
  <2>1. /\ browser'.version # None /\ browser'.shown <= 0 =>
              browser'.shown = Value(browser.version)'
        /\ browser'.restore # None /\ browser'.shown <= 0 =>
              browser'.shown = Value(browser.restore)'
    BY <1>1 DEF ViewInv, Value
  <2> QED
    BY <1>1, <1>2, <2>1 DEF ViewInv
<1>4. ViewKept
  BY <1>1, <1>2, <1>3 DEF ViewKept, Types, HistoryInv
<1> QED
  BY <1>1, <1>4, Seen

-----------------------------------------------------------------------------
(* The invariant.                                                          *)

LEMMA Initial == Init => Inv
<1> SUFFICES ASSUME Init PROVE Inv
  OBVIOUS
<1>1. /\ NoCall \in Calls /\ NoCall.at = "none" /\ NoCall.expected = 0 /\ NoCall.revision = 0
      /\ NoCall.id = 0
  BY NatBounds DEF NoCall, Calls
<1>2. NoFetch \in Fetches /\ NoFetch.revision = 0 /\ NoFetch.at = "none"
  BY DEF NoFetch, Fetches
<1>3. NoAction \in Actions /\ NoAction.at = "none" /\ NoAction.revision = 0
  BY DEF NoAction, Actions
<1>4. NoEntry \in Entries /\ NoEntry.revision = None /\ NoEntry.board = Empty
  BY EditTypes DEF NoEntry, Entries, Revs
<1>5. log \in Seq(Int) /\ Len(log) = 0 /\ ToSet(log) = {}
  BY DEF Init, ToSet
<1>6. queue \in Queues /\ queue.pending = <<>> /\ queue.at = "idle" /\ queue.revision = None
  BY DEF Init, Queues, Revs
<1>7. /\ browser \in Browsers /\ browser.version = None /\ browser.last = None
      /\ browser.restore = None /\ browser.shown = Empty /\ browser.selected = TRUE
  BY EditTypes DEF Init, Browsers, Revs
<1>8. spent \in Spents /\ spent.edits = 0 /\ spent.events = 0
  BY NatBounds DEF Init, Spents
<1>9. fetch \in [Fetchers -> Fetches] /\ \A f \in Fetchers : fetch[f] = NoFetch
  BY <1>2 DEF Init
<1>10. Types
  BY <1>1, <1>3, <1>4, <1>5, <1>6, <1>7, <1>8, <1>9 DEF Types, Init
<1>11. HistoryInv
  BY <1>1, <1>2, <1>3, <1>4, <1>5, <1>6, <1>7, <1>9, EditTypes DEF Init, HistoryInv, Held
<1>12. RoomInv
  <2>1. Pending = {} /\ Durable = {} /\ Paid = 0
    BY <1>3, <1>5, <1>6 DEF Pending, Durable, Paid, Init
  <2>2. Cardinality(Durable) = 0
    BY <2>1, FS_EmptySet
  <2> QED
    BY <1>1, <1>5, <1>6, <1>8, <2>1, <2>2 DEF RoomInv, Init
<1>13. QueueInv
  BY <1>1, <1>2, <1>6, <1>9 DEF QueueInv, Pumped, Init, Fetchers
<1>14. ViewInv
  BY <1>4, <1>7, EditTypes DEF ViewInv, Init
<1>15. ActionInv
  BY <1>3 DEF ActionInv, Init
<1> QED
  BY <1>10, <1>11, <1>12, <1>13, <1>14, <1>15 DEF Inv

LEMMA Stuttering ==
    ASSUME Inv, UNCHANGED vars
    PROVE  Inv'
<1>1. UNCHANGED <<log, queue, call, late, browser, cache, streamed, fetch, life, spent>>
  BY DEF vars
<1>2. ViewKept
  BY <1>1, ForgottenKept
<1> QED
  BY <1>1, <1>2, Seen

LEMMA Stepping ==
    ASSUME Inv, [Next]_vars
    PROVE  Inv'
<1>1. CASE Pumping
  BY <1>1, ServeKeeps, CommittedKeeps, RefusedKeeps DEF Pumping
<1>2. CASE Fetching
  BY <1>2, FetchReadsKeeps, FetchAnswersKeeps DEF Fetching
<1>3. CASE Acting
  BY <1>3, ActSendKeeps, ActServeKeeps, ActEndsKeeps DEF Acting
<1>4. CASE Hydrate \/ Trigger
  BY <1>4, AsksKeeps
<1>5. CASE Edit \/ Act \/ Others \/ ServeLate
  BY <1>5, EditKeeps, ActKeeps, OthersKeeps, ServeLateKeeps
<1>6. CASE Deliver \/ Leave \/ Return \/ CacheExpires
  BY <1>6, DeliverKeeps, LeaveKeeps, ReturnKeeps, CacheExpiresKeeps
<1>7. CASE Lost \/ ActLost \/ \E f \in Fetchers : FetchFails(f)
  BY <1>7, LostKeeps, ActLostKeeps, FetchFailsKeeps
<1>8. CASE UNCHANGED vars
  BY <1>8, Stuttering
<1> QED
  BY <1>1, <1>2, <1>3, <1>4, <1>5, <1>6, <1>7, <1>8 DEF Next, Environment

(* The parts of the invariant hold of every behaviour, whatever commits,   *)
(* failures and visits to other projects come between.                     *)
THEOREM InvariantHolds == Spec => []Inv
<1>1. Inv /\ [Next]_vars => Inv'
  BY Stepping
<1> QED
  BY Initial, <1>1, PTL DEF Spec

(* A confirmed board is never older than what confirmed it: a board that is *)
(* nobody's edit is the one of its revision, and leaving, returning, cached *)
(* boards and late answers keep that.                                      *)
THEOREM NewestIsShown == Spec => []ShownIsNewest
<1>1. Inv => ShownIsNewest
  BY DEF Inv, ViewInv, ShownIsNewest
<1> QED
  BY InvariantHolds, <1>1, PTL

(* executeTaskLifecycle sends an action only when the edits made before it *)
(* are durable: none of them is dropped with a queue that fails or stops.  *)
THEOREM FlushIsTrue == Spec => []FlushTellsTruth
<1>1. Inv => FlushTellsTruth
  BY DEF Inv, ActionInv, FlushTellsTruth
<1> QED
  BY InvariantHolds, <1>1, PTL

(* Only cached edits are recorded.                                         *)
OutlivedInv == outlived \subseteq Edits
LEMMA OutlivedTypes ==
    ASSUME OutlivedInv, [Next]_vars
    PROVE  OutlivedInv'
<1>1. CASE Pumping \/ Fetching \/ ActSend \/ ActServe \/ Hydrate
  BY <1>1 DEF OutlivedInv, Pumping, Fetching, Serve, Committed, Refused, FetchReads, FetchAnswers, ActSend,
              ActServe, Hydrate
<1>2. CASE Edit \/ Act \/ Others \/ ServeLate \/ Trigger \/ Deliver
  BY <1>2 DEF OutlivedInv, Edit, Act, Others, ServeLate, Trigger, Deliver
<1>3. CASE Leave \/ Return \/ CacheExpires \/ Lost \/ ActLost \/ \E f \in Fetchers : FetchFails(f)
  BY <1>3 DEF OutlivedInv, Leave, Return, CacheExpires, Lost, ActLost, FetchFails
<1>4. CASE ActEnds
  BY <1>4 DEF OutlivedInv, ActEnds, Outliving
<1>5. CASE UNCHANGED vars
  BY <1>5 DEF OutlivedInv, vars
<1> QED
  BY <1>1, <1>2, <1>3, <1>4, <1>5 DEF Next, Acting, Environment

(* The types, and the bound of the history: a commit is an edit of this    *)
(* browser, made durable once, or an event that somebody has paid for.     *)
THEOREM TypeCorrect == Spec => []TypeOK
<1>1. ASSUME Inv, OutlivedInv PROVE TypeOK
  <2>1. Types /\ HistoryInv /\ RoomInv /\ QueueInv
    BY <1>1 DEF Inv
  <2>2. Len(log) \in Nat /\ Len(log) <= MaxEdits + MaxEvents
    <3>1. PICK m \in Nat, p \in Nat, c \in Nat, e \in Nat, f \in Nat :
            /\ m = Len(log) /\ p = Paid /\ c = Cardinality(Durable) /\ e = spent.edits
            /\ f = spent.events /\ c <= e /\ e <= MaxEdits /\ f <= MaxEvents
      <4>1. Paid \in Nat /\ Len(log) \in Nat
        BY <2>1 DEF Paid, Types
      <4>2. /\ spent.edits \in Nat /\ spent.events \in Nat
            /\ spent.edits <= MaxEdits /\ spent.events <= MaxEvents
        BY <2>1, NatBounds DEF Types, Spents
      <4> QED
        BY <2>1, <4>1, <4>2, DurableTypes
    <3>2. m + p <= c + f
      BY <2>1, <3>1 DEF RoomInv
    <3>3. /\ m \in Nat /\ p \in Nat /\ c \in Nat /\ e \in Nat /\ f \in Nat
          /\ c <= e /\ e <= MaxEdits /\ f <= MaxEvents /\ m + p <= c + f
          /\ MaxEdits \in Nat /\ MaxEvents \in Nat
      BY <3>1, <3>2, NatBounds
    <3>4. m <= MaxEdits + MaxEvents
      BY ONLY <3>3
    <3> QED
      BY <3>1, <3>4
  <2>3. \A r \in Revs : r <= Len(log) => r \in Revisions \cup {None}
    BY <2>2, NatBounds DEF Revs, Revisions, None
  <2>4. \A r \in Nat : r <= Len(log) => r \in Revisions
    BY <2>2, NatBounds DEF Revisions
  <2>5. \A board \in Int : Held(board) => board \in Boards
    BY <2>2, NatBounds, EditTypes DEF Held, Boards
  <2>6. /\ \A i \in DOMAIN log : log[i] \in Edits \cup {-i}
        /\ Len(log) \in Revisions
    BY <2>1, <2>2, <2>4 DEF HistoryInv, Types
  <2>7. /\ queue.revision \in Revisions \cup {None}
        /\ queue.at \in {"idle", "first", "second", "refresh"} /\ queue.refreshed \in BOOLEAN
    BY <2>1, <2>3 DEF Types, Queues, HistoryInv
  <2>8. queue.pending \in BoundedSeq(Edits, MaxEdits)
    <3>1. queue.pending \in Seq(Edits) /\ Len(queue.pending) \in Nat
          /\ Len(queue.pending) <= spent.edits /\ spent.edits <= MaxEdits /\ spent.edits \in Nat
      BY <2>1, NatBounds DEF Types, Queues, RoomInv, Spents
    <3>2. Len(queue.pending) \in 0 .. MaxEdits
      BY <3>1, NatBounds
    <3>3. queue.pending \in [1 .. Len(queue.pending) -> Edits]
      BY <3>1
    <3> QED
      BY <3>2, <3>3 DEF BoundedSeq, SeqOf
  <2>9. call \in [at: {"none", "request", "done", "conflict"}, id: 0 .. MaxEdits,
                  expected: Revisions, revision: Revisions]
    <3>1. call \in Calls /\ call.expected \in Revisions /\ call.revision \in Revisions
      BY <2>1, <2>4 DEF Types, Calls, HistoryInv
    <3> QED
      BY <3>1 DEF Calls
  <2>10. late \subseteq [id: Edits, expected: Revisions]
    <3>1. \A command \in late : command \in Commands /\ command.expected \in Revisions
      BY <2>1, <2>4 DEF Types, Commands, HistoryInv
    <3> QED
      BY <3>1 DEF Commands
  <2>11. browser \in [selected: BOOLEAN, version: Revisions \cup {None},
                      last: Revisions \cup {None}, shown: Boards,
                      restore: Revisions \cup {None}, applied: BOOLEAN]
    <3>1. /\ browser \in Browsers /\ browser.version \in Revisions \cup {None}
          /\ browser.last \in Revisions \cup {None} /\ browser.restore \in Revisions \cup {None}
          /\ browser.shown \in Boards
      BY <2>1, <2>3, <2>5 DEF Types, Browsers, HistoryInv
    <3> QED
      BY <3>1 DEF Browsers
  <2>12. cache \in [revision: Revisions \cup {None}, board: Boards]
    <3>1. /\ cache \in Entries /\ cache.revision \in Revisions \cup {None}
          /\ cache.board \in Boards
      BY <2>1, <2>3, <2>5 DEF Types, Entries, HistoryInv
    <3> QED
      BY <3>1 DEF Entries
  <2>13. streamed \in Revisions
    BY <2>1, <2>4 DEF Types, HistoryInv
  <2>14. fetch \in [Fetchers -> [at: {"none", "asked", "read"}, revision: Revisions,
                                 latest: BOOLEAN]]
    <3>1. \A f \in Fetchers : fetch[f] \in Fetches /\ fetch[f].revision \in Revisions
      BY <2>1, <2>4 DEF Types, Fetches, HistoryInv
    <3>2. \A f \in Fetchers :
             fetch[f] \in [at: {"none", "asked", "read"}, revision: Revisions, latest: BOOLEAN]
      BY <3>1 DEF Fetches
    <3> QED
      BY <2>1, <3>2 DEF Types
  <2>15. life \in [at: {"none", "flushing", "waiting", "sent", "answered", "restoring"},
                   owed: SUBSET Edits, revision: Revisions]
    <3>1. life \in Actions /\ life.revision \in Revisions
      BY <2>1, <2>4 DEF Types, Actions, HistoryInv
    <3> QED
      BY <3>1 DEF Actions
  <2>16. spent \in [edits: 0 .. MaxEdits, events: 0 .. MaxEvents]
    BY <2>1 DEF Types, Spents
  <2>17. /\ call.at # "none" <=> queue.at \in {"first", "second"}
         /\ fetch["pump"].at # "none" <=> queue.at = "refresh"
    BY <2>1 DEF QueueInv, Pumped
  <2> QED
    BY <1>1, <2>6, <2>7, <2>8, <2>9, <2>10, <2>11, <2>12, <2>13, <2>14, <2>15, <2>16, <2>17
       DEF TypeOK, OutlivedInv
<1>2. Init => OutlivedInv
  BY DEF Init, OutlivedInv
<1>3. OutlivedInv /\ [Next]_vars => OutlivedInv'
  BY OutlivedTypes
<1>4. Inv /\ OutlivedInv => TypeOK
  BY <1>1
<1> QED
  BY InvariantHolds, <1>2, <1>3, <1>4, PTL DEF Spec

-----------------------------------------------------------------------------
(* Edits that were refused.  What is shown and what is cached may be an edit *)
(* that is not durable only while it is pending.  Once the queue has lost  *)
(* its edits a board that is not confirmed is not shown exactly, so the    *)
(* queue of such an edit is idle; and a cached one is replaced by the next *)
(* state that is applied, because none that can still arrive is older.     *)
(* Only the answer to a lifecycle action of an earlier visit can be: what  *)
(* outlives it is spared.                                                  *)

Spared == Durable \cup outlived

ShownEdit ==
    browser.shown \in Edits \ Spared =>
        browser.shown \in Pending /\ (browser.version = None => queue.at = "idle")

Replaced(r) ==
    /\ r <= streamed
    /\ \A f \in Fetchers : fetch[f].latest /\ fetch[f].at = "read" => r <= fetch[f].revision
CachedEdit ==
    cache.board \in Edits \ Spared =>
        /\ cache.board \in Pending /\ (browser.version = None => queue.at = "idle")
        /\ IF browser.last = None THEN Replaced(cache.revision) ELSE cache.revision <= browser.last

(* The board is fetched for the action whose answer is lost.               *)
Restoring == fetch["life"].at # "none" => life.at = "restoring"

EditsInv == ShownEdit /\ CachedEdit /\ Restoring

LEMMA SameSpared ==
    ASSUME log' = log, outlived' = outlived
    PROVE  Spared' = Spared
BY DEF Spared, Durable

LEMMA MoreSpared ==
    ASSUME ToSet(log) \subseteq ToSet(log'), outlived \subseteq outlived'
    PROVE  Spared \subseteq Spared'
BY DEF Spared, Durable

(* What the one apply step leaves of an edit.                              *)
LEMMA AppliedEdits ==
    ASSUME Inv, log' = log, outlived \subseteq outlived', browser.selected = TRUE,
           NEW b \in {browser, Forgotten(browser)}, NEW p \in Seq(Edits), NEW r \in 0 .. Len(log), Show(b, p, r),
           cache.board \in Edits \ Spared' => cache.revision <= r \/ browser.last # None,
           CachedEdit, ToSet(p) \subseteq Pending',
           \A next \in 0 .. Len(log) : next >= r /\ Resolved(b, next) \in Edits \ Spared =>
              Resolved(b, next) \in Pending'
    PROVE  ShownEdit' /\ CachedEdit' /\ browser'.last # None
<1>1. Types /\ HistoryInv /\ ViewInv /\ Spared \subseteq Spared'
  BY MoreSpared DEF Inv
<1>2. PICK next \in 0 .. Len(log), board \in Int :
        /\ next >= r /\ next >= browser.last /\ board = Resolved(b, next)
        /\ browser'.version = next /\ browser'.last = next
        /\ browser'.shown = Overlaid(board, p) /\ cache' = Recached(next, board)
  BY <1>1, Applied
<1>3. next # None /\ next \in Nat
  BY <1>1 DEF None, Types
<1>4. board \in Edits \ Spared' => board \in Pending'
  BY <1>1, <1>2
<1>5. browser'.shown \in Edits \ Spared' => browser'.shown \in Pending'
  BY <1>2, <1>4, LastTypes DEF Overlaid
<1>6. cache.board \in Edits \ Spared' => cache.revision # None /\ cache.revision <= next
  <2>1. ASSUME cache.board \in Edits \ Spared'
        PROVE  cache.revision <= next
    <3>1. cache.revision \in Int /\ browser.last \in Int
      BY <1>1 DEF Types, Entries, Browsers, Revs, None
    <3>2. cache.revision <= r \/ cache.revision <= browser.last
      BY <1>1, <2>1 DEF CachedEdit
    <3> QED
      BY <1>1, <1>2, <3>1, <3>2 DEF Types
  <2>2. cache.revision = None => cache.board \notin Edits
    BY <1>1, EditTypes DEF ViewInv
  <2> QED
    BY <2>1, <2>2
<1>7. cache'.board \in Edits \ Spared' => cache'.revision = next /\ cache'.board \in Pending'
  <2>1. CASE cache' = cache /\ (cache.revision = None \/ cache.revision > next)
    <3>1. cache.revision \in Int
      BY <1>1 DEF Types, Entries, Revs, None
    <3>2. cache.board \notin Edits \ Spared'
      BY <1>3, <1>6, <2>1, <3>1
    <3> QED
      BY <2>1, <3>2
  <2>2. CASE cache' = [revision |-> next, board |-> board]
    BY <1>4, <2>2
  <2> QED
    BY <1>2, <2>1, <2>2 DEF Recached
<1> QED
  BY <1>1, <1>2, <1>3, <1>5, <1>7 DEF ShownEdit, CachedEdit

(* A resolved board that is an edit of nobody's commit was shown before.   *)
LEMMA ResolvedEdits ==
    ASSUME Inv, NEW b \in {browser, Forgotten(browser)}, NEW next \in 0 .. Len(log),
           Resolved(b, next) \in Edits \ Spared
    PROVE  /\ Resolved(b, next) = browser.shown
           /\ b = Forgotten(browser) => browser.last = None
<1>1. Types /\ HistoryInv /\ ViewInv /\ Len(log) \in Nat
  BY DEF Inv, Types
<1>2. b.shown = browser.shown /\ b.restore = browser.restore
      /\ (b = Forgotten(browser) => b.version = None)
  BY <1>1 DEF Forgotten, Types, Browsers
<1>3. Value(next) \notin Edits \ Spared
  BY <1>1, ValueHeld DEF Spared, Durable
<1>4. Resolved(b, next) = b.shown /\ (b.version = next \/ b.restore = next)
  BY <1>3 DEF Resolved
<1>5. next # None
  BY <1>1 DEF None
<1> QED
  BY <1>1, <1>2, <1>4, <1>5 DEF ViewInv

(* The apply step of a state that is not an older visit's, with the queue's *)
(* edits on top.                                                           *)
LEMMA AppliedOver ==
    ASSUME Inv, EditsInv, log' = log, outlived \subseteq outlived', browser.selected = TRUE,
           NEW b \in {browser, Forgotten(browser)}, NEW r \in 0 .. Len(log),
           NEW p \in Seq(Edits), Show(b, p, r), ToSet(p) = Pending',
           Pending \subseteq Pending' \cup Spared,
           cache.board \in Edits \ Spared' => cache.revision <= r \/ browser.last # None
    PROVE  ShownEdit' /\ CachedEdit' /\ browser'.last # None
<1>1. ASSUME NEW next \in 0 .. Len(log), Resolved(b, next) \in Edits \ Spared
      PROVE  Resolved(b, next) \in Pending'
  BY <1>1, ResolvedEdits DEF EditsInv, ShownEdit
<1> QED
  BY <1>1, AppliedEdits DEF EditsInv

(* Nothing is applied.                                                     *)
LEMMA EditsStay ==
    ASSUME EditsInv, UNCHANGED <<browser, cache, streamed>>, Spared \subseteq Spared',
           Pending \subseteq Pending' \cup Spared',
           browser.version = None => queue'.at = queue.at \/ queue'.at = "idle",
           \A f \in Fetchers : fetch'[f].latest /\ fetch'[f].at = "read" =>
              fetch'[f] = fetch[f] \/ cache.revision <= fetch'[f].revision
    PROVE  ShownEdit' /\ CachedEdit'
<1>1. ShownEdit'
  BY DEF EditsInv, ShownEdit
<1>2. CachedEdit'
  BY DEF EditsInv, CachedEdit, Replaced
<1> QED
  BY <1>1, <1>2

LEMMA RestoringStays ==
    ASSUME EditsInv, fetch'["life"].at = fetch["life"].at,
           life'.at = life.at \/ (life.at # "none" /\ life.at # "restoring")
    PROVE  Restoring'
BY DEF EditsInv, Restoring

(* The runtime's steps.                                                    *)
LEMMA RuntimeEdits ==
    ASSUME Inv, EditsInv, Serve \/ ServeLate \/ Others \/ ActServe
    PROVE  EditsInv'
<1>1. /\ Types /\ HistoryInv /\ RoomInv /\ QueueInv /\ ViewInv
      /\ UNCHANGED <<browser, cache, streamed, queue, fetch, outlived>>
  BY DEF Inv, Serve, ServeLate, Others, ActServe
<1>2. ToSet(log) \subseteq ToSet(log')
  <2>1. CASE Serve
    <3>1. PICK id \in Edits : id = call.id
      BY <1>1, <2>1, CallTypes DEF Serve
    <3>2. log' \in {log, Append(log, id)} /\ (log' = log \/ id \notin ToSet(log))
      BY <1>1, <2>1, <3>1, Arrived DEF Serve
    <3> QED
      BY <1>1, <3>1, <3>2, Grown
  <2>2. CASE ServeLate
    <3>1. PICK command \in late : Arrive(command.id, command.expected)
      BY <2>2 DEF ServeLate
    <3>2. PICK id \in Edits : id = command.id
      BY <1>1, <3>1 DEF Types, Commands
    <3>3. log' \in {log, Append(log, id)} /\ (log' = log \/ id \notin ToSet(log))
      BY <1>1, <3>1, <3>2, Arrived
    <3> QED
      BY <1>1, <3>2, <3>3, Grown
  <2>3. CASE Others \/ ActServe
    <3>1. log' \in {log, Append(log, -(Len(log) + 1))}
      BY <2>3 DEF Others, ActServe
    <3>2. PICK x : x = -(Len(log) + 1)
      OBVIOUS
    <3>3. x \in Edits \cup {-(Len(log) + 1)} /\ x \notin Edits /\ log' \in {log, Append(log, x)}
      BY <1>1, <3>1, <3>2, Foreign
    <3> QED
      BY <1>1, <3>3, Grown
  <2> QED
    BY <2>1, <2>2, <2>3
<1>3. Spared \subseteq Spared' /\ Pending' = Pending
  BY <1>1, <1>2, MoreSpared DEF Pending
<1>4. ShownEdit' /\ CachedEdit'
  BY <1>1, <1>3, EditsStay
<1>5. life'.at = life.at \/ (life.at # "none" /\ life.at # "restoring")
  BY DEF Serve, ServeLate, Others, ActServe
<1> QED
  BY <1>1, <1>4, <1>5, RestoringStays DEF EditsInv

LEMMA DeliverEdits ==
    ASSUME Inv, EditsInv, Deliver
    PROVE  EditsInv'
<1>1. /\ Types /\ browser.selected = TRUE /\ log' = log /\ queue' = Followed(browser'.version)
      /\ UNCHANGED <<log, call, late, fetch, life, outlived, spent>>
      /\ queue.pending \in Seq(Edits)
  BY DEF Inv, Deliver, Types, Browsers, Queues
<1>2. PICK r \in streamed .. Len(log) : streamed' = r /\ Show(browser, queue.pending, r)
  BY DEF Deliver
<1>3. r \in 0 .. Len(log) /\ r >= streamed /\ r \in Nat
  BY <1>1, <1>2 DEF Types
<1>4. browser'.version \in Nat
  BY <1>1, <1>2, <1>3, AppliedKept
<1>5. queue'.pending = queue.pending
  BY <1>1, <1>4, FollowedTypes
<1>6. Pending' = Pending /\ ToSet(queue.pending) = Pending
  BY <1>1, <1>5, PendingTypes DEF Pending
<1>7. cache.board \in Edits \ Spared => cache.revision <= r \/ browser.last # None
  <2>1. cache.revision \in Int /\ streamed \in Int
    BY <1>1 DEF Types, Entries, Revs, None
  <2> QED
    BY <1>3, <2>1 DEF EditsInv, CachedEdit, Replaced
<1>8. outlived' = outlived /\ Spared' = Spared
  BY <1>1, SameSpared
<1>9. ShownEdit' /\ CachedEdit' /\ browser'.last # None
  BY <1>1, <1>2, <1>3, <1>6, <1>7, <1>8, AppliedOver
<1> QED
  BY <1>1, <1>9 DEF EditsInv, Restoring

LEMMA FetchReadsEdits ==
    ASSUME Inv, EditsInv, NEW f \in Fetchers, FetchReads(f)
    PROVE  EditsInv'
<1>1. /\ Types /\ HistoryInv /\ fetch[f].at = "asked"
      /\ fetch' = [fetch EXCEPT ![f].at = "read", ![f].revision = Len(log)]
      /\ UNCHANGED <<log, queue, call, late, browser, cache, streamed, life, outlived, spent>>
  BY DEF Inv, FetchReads
<1>2. PICK n \in Nat : n = Len(log)
  BY <1>1 DEF Types
<1>3. PICK one : one = [fetch[f] EXCEPT !.at = "read", !.revision = n]
  OBVIOUS
<1>4. one \in Fetches /\ one.revision = n /\ one.at = "read" /\ fetch' = [fetch EXCEPT ![f] = one]
  BY <1>1, <1>2, <1>3 DEF Types, Fetches
<1>5. \A g \in Fetchers : fetch'[g] = IF g = f THEN one ELSE fetch[g]
  BY <1>1, <1>4 DEF Types
<1>6. \A g \in Fetchers : fetch'[g] = fetch[g] \/ cache.revision <= fetch'[g].revision
  BY <1>1, <1>2, <1>4, <1>5 DEF HistoryInv
<1>7. ShownEdit' /\ CachedEdit'
  BY <1>1, <1>6, SameSpared, EditsStay DEF Pending
<1>8. fetch'["life"].at # "none" => fetch["life"].at # "none"
  BY <1>1, <1>5 DEF Fetchers
<1> QED
  BY <1>1, <1>7, <1>8 DEF EditsInv, Restoring

LEMMA AsksEdits ==
    ASSUME Inv, EditsInv, Trigger \/ Hydrate
    PROVE  EditsInv'
<1>1. /\ Types /\ HistoryInv /\ fetch' = Asked("sync")
      /\ UNCHANGED <<log, queue, call, late, browser, cache, streamed, life, outlived>>
  BY DEF Inv, Trigger, Hydrate
<1>2. /\ fetch'["life"].at = fetch["life"].at
      /\ \A g \in Fetchers : ~(fetch'[g].latest /\ fetch'[g].at = "read")
  BY <1>1, AskedTypes, AskedStarts DEF Fetchers
<1>3. ShownEdit' /\ CachedEdit'
  BY <1>1, <1>2, SameSpared, EditsStay DEF Pending
<1> QED
  BY <1>1, <1>2, <1>3, RestoringStays DEF EditsInv

LEMMA FetchEndsEdits ==
    ASSUME Inv, EditsInv, NEW f \in Fetchers, NEW answered, FetchEnds(f, answered),
           fetch[f].at # "none", answered => fetch[f].at = "read",
           UNCHANGED <<log, call, late, streamed, outlived>>
    PROVE  EditsInv'
<1>1. /\ Types /\ HistoryInv /\ QueueInv /\ log' = log /\ outlived' = outlived /\ queue \in Queues
      /\ queue.pending \in Seq(Edits) /\ ToSet(queue.pending) = Pending
  BY PendingTypes DEF Inv, Types, Queues
<1>2. fetch' = [fetch EXCEPT ![f] = NoFetch]
  BY DEF FetchEnds
<1>3. /\ fetch'[f] = NoFetch /\ NoFetch.at = "none"
      /\ \A g \in Fetchers : g # f => fetch'[g] = fetch[g]
  BY <1>1, <1>2 DEF Types, NoFetch
<1>4. fetch[f].revision \in 0 .. Len(log)
  BY <1>1 DEF Types, Fetches, HistoryInv
<1>5. answered /\ fetch[f].latest /\ cache.board \in Edits \ Spared =>
         cache.revision <= fetch[f].revision \/ browser.last # None
  BY DEF EditsInv, CachedEdit, Replaced
<1>6. ASSUME NEW b \in {browser, Forgotten(browser)}, browser.selected, answered,
             fetch[f].latest, Show(b, queue.pending, fetch[f].revision),
             queue'.pending = queue.pending
      PROVE  ShownEdit' /\ CachedEdit' /\ browser'.last # None
  <2>1. browser.selected = TRUE
    BY <1>1, <1>6 DEF Types, Browsers
  <2>2. Pending' = Pending /\ Spared' = Spared
    BY <1>1, <1>6, SameSpared DEF Pending
  <2> QED
    BY <1>1, <1>4, <1>5, <1>6, <2>1, <2>2, AppliedOver
<1>7. ASSUME UNCHANGED <<browser, cache>>, queue'.pending = queue.pending,
             queue'.at = queue.at \/ queue'.at = "idle"
      PROVE  ShownEdit' /\ CachedEdit'
  <2>1. \A g \in Fetchers : fetch'[g].latest /\ fetch'[g].at = "read" => fetch'[g] = fetch[g]
    BY <1>3
  <2>2. Pending' = Pending
    BY <1>7 DEF Pending
  <2> QED
    BY <1>1, <1>7, <2>1, <2>2, SameSpared, EditsStay
<1>8. browser.selected /\ Show(browser, queue.pending, fetch[f].revision) =>
         browser'.version \in Nat
  <2>1. browser.selected => browser.selected = TRUE
    BY <1>1 DEF Types, Browsers
  <2> QED
    BY <1>1, <1>4, <2>1, AppliedKept
<1>9. CASE f = "sync"
  <2>1. life' = life /\ fetch'["life"] = fetch["life"]
    BY <1>3, <1>9, SyncEnds DEF Fetchers
  <2>2. CASE UNCHANGED <<browser, cache, queue>>
    BY <1>7, <2>1, <2>2, RestoringStays DEF EditsInv
  <2>3. CASE /\ answered /\ fetch["sync"].latest /\ browser.selected
             /\ Show(browser, queue.pending, fetch["sync"].revision)
             /\ queue' = Counted(Followed(browser'.version))
    <3>1. queue'.pending = queue.pending
      BY <1>1, <1>8, <1>9, <2>3, FollowedTypes
    <3>2. ShownEdit' /\ CachedEdit' /\ browser'.last # None
      BY <1>6, <1>9, <2>3, <3>1
    <3> QED
      BY <2>1, <3>2 DEF EditsInv, Restoring
  <2> QED
    BY <1>9, <2>2, <2>3, SyncEnds
<1>10. CASE f = "life"
  <2>1. life' = NoAction /\ fetch'["life"].at = "none" /\ NoAction.at = "none"
    BY <1>3, <1>10, LifeEnds DEF NoAction
  <2>2. CASE UNCHANGED <<browser, cache, queue>>
    BY <1>7, <2>1, <2>2 DEF EditsInv, Restoring
  <2>3. CASE /\ answered /\ fetch["life"].latest /\ browser.selected
             /\ ShowAction(fetch["life"].revision)
             /\ queue' = Counted(Followed(browser'.version))
    <3>1. PICK b \in {browser, Forgotten(browser)} :
            Show(b, queue.pending, fetch["life"].revision)
      BY <2>3 DEF ShowAction
    <3>2. browser.selected = TRUE
      BY <1>1, <2>3 DEF Types, Browsers
    <3>3. browser'.version \in Nat
      BY <1>1, <1>4, <1>10, <3>1, <3>2, AppliedKept
    <3>4. queue'.pending = queue.pending
      BY <1>1, <2>3, <3>3, FollowedTypes
    <3>5. ShownEdit' /\ CachedEdit' /\ browser'.last # None
      BY <1>6, <1>10, <2>3, <3>1, <3>4
    <3> QED
      BY <2>1, <3>5 DEF EditsInv, Restoring
  <2> QED
    BY <1>10, <2>2, <2>3, LifeEnds
<1>11. CASE f = "pump"
  <2>1. fetch'["life"] = fetch["life"]
    BY <1>3, <1>11 DEF Fetchers
  <2>2. life' = life \/ (life' = NoAction /\ life.at = "flushing" /\ NoAction.at = "none")
    BY <1>11, PumpEnds DEF Unflushed, NoAction
  <2>3. CASE /\ answered /\ fetch["pump"].latest /\ browser.selected
             /\ Show(browser, queue.pending, fetch["pump"].revision)
             /\ queue' = Stopped([queue EXCEPT !.refreshed = TRUE], browser'.version)
    <3>1. PICK q : q = [queue EXCEPT !.refreshed = TRUE]
      OBVIOUS
    <3>2. q \in Queues /\ q.pending = queue.pending
      BY <1>1, <3>1 DEF Queues
    <3>3. browser'.version \in Revs
      BY <1>8, <1>11, <2>3 DEF Revs
    <3>4. queue'.pending = queue.pending
      BY <2>3, <3>1, <3>2, <3>3, StoppedTypes
    <3>5. ShownEdit' /\ CachedEdit' /\ browser'.last # None
      BY <1>6, <1>11, <2>3, <3>4
    <3> QED
      BY <2>1, <2>2, <3>5 DEF EditsInv, Restoring
  <2>4. CASE /\ browser' \in {browser, Forgotten(browser)} /\ UNCHANGED cache
             /\ queue' = Stopped(queue, browser.version)
    <3>1. browser.version \in Revs
      BY <1>1 DEF Types, Browsers
    <3>2. queue'.pending = queue.pending /\ queue'.at = "idle"
      BY <1>1, <2>4, <3>1, StoppedTypes
    <3>3. /\ browser'.last = browser.last /\ browser'.shown = browser.shown
          /\ browser'.selected = browser.selected
      BY <1>1, <2>4 DEF Forgotten, Types, Browsers
    <3>4. Pending' = Pending /\ Spared' = Spared
      BY <1>1, <3>2, SameSpared DEF Pending
    <3>5. ShownEdit'
      BY <3>2, <3>3, <3>4 DEF EditsInv, ShownEdit
    <3>6. \A g \in Fetchers : fetch'[g].latest /\ fetch'[g].at = "read" => fetch'[g] = fetch[g]
      BY <1>3
    <3>7. Replaced(cache.revision) => Replaced(cache.revision)'
      BY <2>4, <3>6 DEF Replaced
    <3>8. CachedEdit'
      BY <2>4, <3>2, <3>3, <3>4, <3>7 DEF EditsInv, CachedEdit
    <3> QED
      BY <2>1, <2>2, <3>3, <3>5, <3>8 DEF EditsInv, Restoring
  <2>5. FetchEnds("pump", answered)
    BY <1>11
  <2>6. \/ /\ answered /\ fetch["pump"].latest /\ browser.selected
           /\ Show(browser, queue.pending, fetch["pump"].revision)
           /\ queue' = Stopped([queue EXCEPT !.refreshed = TRUE], browser'.version)
        \/ /\ browser' \in {browser, Forgotten(browser)} /\ UNCHANGED cache
           /\ queue' = Stopped(queue, browser.version)
    BY <2>5, PumpEnds
  <2> QED
    BY ONLY <2>3, <2>4, <2>6
<1> QED
  BY <1>9, <1>10, <1>11 DEF Fetchers

LEMMA FetchedEdits ==
    ASSUME Inv, EditsInv, NEW f \in Fetchers, FetchAnswers(f) \/ FetchFails(f)
    PROVE  EditsInv'
BY FetchEndsEdits DEF FetchAnswers, FetchFails

(* The user's edits, and their commands.                                   *)
LEMMA EditEdits ==
    ASSUME Inv, EditsInv, Edit
    PROVE  EditsInv'
<1>1. /\ Types /\ HistoryInv /\ RoomInv /\ ViewInv /\ log' = log /\ browser.version # None
      /\ Spend("edits", MaxEdits) /\ browser' = [browser EXCEPT !.shown = spent'.edits]
      /\ UNCHANGED <<late, cache, streamed, fetch, life, outlived>> /\ queue.pending \in Seq(Edits)
  BY DEF Inv, Edit, Types, Queues
<1>2. PICK x : x = spent'.edits
  OBVIOUS
<1>3. x \in Edits
  <2>1. x = spent.edits + 1 /\ x \in 0 .. MaxEdits /\ spent.edits \in Nat
    BY <1>1, <1>2, Spending DEF Types, Spents
  <2> QED
    BY <2>1, NatBounds DEF Edits
<1>4. queue'.pending = Append(queue.pending, x)
  <2>1. PICK r : r = IF queue.revision = None THEN browser.version ELSE queue.revision
    OBVIOUS
  <2>2. r \in Revs
    BY <1>1, <2>1 DEF Types, Queues, Browsers
  <2>3. PICK q : q = [queue EXCEPT !.revision = r, !.pending = Append(queue.pending, x)]
    OBVIOUS
  <2>4. Pump(q)
    BY <1>2, <2>1, <2>3 DEF Edit
  <2>5. Append(queue.pending, x) \in Seq(Edits)
    BY <1>1, <1>3, Joined
  <2>6. q \in Queues /\ q.pending = Append(queue.pending, x)
    BY <1>1, <2>2, <2>3, <2>5 DEF Types, Queues
  <2>7. [q EXCEPT !.at = "first"].pending = q.pending
    BY <2>6 DEF Queues
  <2> QED
    BY <2>4, <2>6, <2>7 DEF Pump
<1>5. Pending' = Pending \cup {x}
  <2>1. ToSet(Append(queue.pending, x)) = ToSet(queue.pending) \cup {x}
        /\ Append(queue.pending, x) \in Seq(Edits)
    BY <1>1, <1>3, Joined
  <2>2. Pending = ToSet(queue.pending)
    BY <1>1, PendingTypes
  <2>3. Pending' = ToSet(queue'.pending)
    BY <1>4, <2>1 DEF Pending, ToSet
  <2> QED
    BY <1>4, <2>1, <2>2, <2>3
<1>6. /\ browser'.shown = x /\ browser'.version = browser.version
      /\ browser'.last = browser.last
  BY <1>1, <1>2 DEF Types, Browsers
<1>7. ShownEdit'
  BY <1>1, <1>5, <1>6 DEF ShownEdit
<1>8. CachedEdit'
  <2>1. Spared' = Spared /\ (Replaced(cache.revision) => Replaced(cache.revision)')
    BY <1>1, SameSpared DEF Replaced
  <2> QED
    BY <1>1, <1>5, <1>6, <2>1 DEF EditsInv, CachedEdit
<1> QED
  BY <1>1, <1>6, <1>7, <1>8, RestoringStays DEF EditsInv

(* While a command is out, an edit that is not durable is cached or shown  *)
(* only on a confirmed board.                                              *)
LEMMA OutTypes ==
    ASSUME Inv, EditsInv, call.at # "none"
    PROVE  /\ queue.at # "idle"
           /\ browser.version = None =>
                 browser.shown \notin Edits \ Spared /\ cache.board \notin Edits \ Spared
           /\ browser.last = None => browser.version = None
<1>1. queue.at # "idle"
  BY CallTypes DEF Inv, Pumped
<1> QED
  BY <1>1 DEF Inv, ViewInv, EditsInv, ShownEdit, CachedEdit

LEMMA CommittedEdits ==
    ASSUME Inv, EditsInv, Committed
    PROVE  EditsInv'
<1>1. /\ Types /\ HistoryInv /\ QueueInv /\ ViewInv /\ call.at = "done" /\ log' = log
      /\ UNCHANGED <<late, streamed, fetch, outlived>> /\ Spared' = Spared
      /\ queue \in Queues
  BY SameSpared DEF Inv, Committed, Types
<1>2. PICK c \in Nat : c = call.revision /\ c \in 0 .. Len(log)
  BY <1>1 DEF Types, Calls, HistoryInv
<1>3. PICK p \in Seq(Edits) :
        p = Tail(queue.pending) /\ ToSet(p) \subseteq Pending
        /\ Pending \subseteq ToSet(p) \cup {call.id}
  BY <1>1, RestTypes
<1>4. call.id \in Spared
  BY <1>1, CallTypes DEF QueueInv, Spared, Durable
<1>5. PICK rest : rest = [queue EXCEPT !.pending = Tail(queue.pending), !.revision = call.revision]
  OBVIOUS
<1>6. rest \in Queues /\ rest.pending = p
  <2>1. rest = [queue EXCEPT !.pending = p, !.revision = c]
    BY <1>2, <1>3, <1>5
  <2> QED
    BY <1>1, <2>1 DEF Queues, Revs
<1>7. queue'.pending = p
  <2>1. queue' = [rest EXCEPT !.at = "first"] \/ queue' = [rest EXCEPT !.at = "idle"]
    BY <1>5 DEF Committed
  <2> QED
    BY <1>6, <2>1 DEF Queues
<1>8. ToSet(p) = Pending' /\ Pending \subseteq Pending' \cup Spared
  BY <1>3, <1>4, <1>7 DEF Pending, ToSet
<1>9. life' = life \/ (life.at = "flushing" /\ life' = [life EXCEPT !.at = "waiting"])
  BY DEF Committed
<1>10. life'.at = life.at \/ (life.at # "none" /\ life'.at = "waiting")
  BY <1>1, <1>9 DEF Types, Actions
<1>11. CASE browser.selected
  <2>1. PICK b \in {browser, Forgotten(browser)} : Show(b, p, c)
    BY <1>2, <1>5, <1>6, <1>11 DEF Committed
  <2>2. browser.selected = TRUE
    BY <1>1, <1>11 DEF Types, Browsers
  <2>3. cache.board \in Edits \ Spared => browser.last # None
    BY <1>1, OutTypes
  <2>4. ShownEdit' /\ CachedEdit' /\ browser'.last # None
    BY <1>1, <1>2, <1>8, <2>1, <2>2, <2>3, AppliedOver
  <2>5. fetch'["life"].at # "none" => life'.at = "restoring"
    BY <1>1, <1>9 DEF EditsInv, Restoring
  <2> QED
    BY <2>4, <2>5 DEF EditsInv, Restoring
<1>12. CASE ~browser.selected
  <2>1. browser' = browser /\ cache' = Recached(c, Value(c))
    BY <1>2, <1>12 DEF Committed
  <2>2. browser.version = None /\ browser.last = None /\ browser.shown = Empty
    BY <1>1, <1>12 DEF ViewInv
  <2>3. Value(c) \notin Edits \ Spared
    BY <1>1, <1>2, ValueHeld DEF Spared, Durable
  <2>4. cache'.board \notin Edits \ Spared
    <3>1. cache'.board \in {cache.board, Value(c)}
      BY <2>1 DEF Recached
    <3> QED
      BY <1>1, <2>2, <2>3, <3>1, OutTypes
  <2>5. ShownEdit' /\ CachedEdit'
    BY <1>1, <2>1, <2>2, <2>4, EditTypes DEF ShownEdit, CachedEdit
  <2>6. fetch'["life"].at # "none" => life'.at = "restoring"
    BY <1>1, <1>9 DEF EditsInv, Restoring
  <2> QED
    BY <1>12, <2>1, <2>5, <2>6 DEF EditsInv, Restoring
<1> QED
  BY <1>11, <1>12

LEMMA FailEdits ==
    ASSUME Inv, EditsInv, call.at # "none", Fail, UNCHANGED <<log, streamed, outlived>>
    PROVE  EditsInv'
<1>1. /\ Types /\ HistoryInv /\ ViewInv /\ Spared' = Spared
      /\ browser.version = None =>
            browser.shown \notin Edits \ Spared /\ cache.board \notin Edits \ Spared
      /\ browser.last = None => browser.version = None
  BY SameSpared, OutTypes DEF Inv
<1>2. /\ life' = life \/ (life' = NoAction /\ life.at = "flushing" /\ NoAction.at = "none")
      /\ fetch' = Asked("pump") \/ fetch' = fetch
  BY DEF Fail, Unflushed, NoAction
<1>3. fetch'["life"].at = fetch["life"].at
  BY <1>1, <1>2, AskedTypes DEF Fetchers
<1>4. CASE browser.selected /\ browser.last # None
  <2>1. browser.selected = TRUE /\ browser.last \in 0 .. Len(log) /\ <<>> \in Seq(Edits)
    BY <1>1, <1>4 DEF Types, Browsers, Revs, HistoryInv, None
  <2>2. Show(Forgotten(browser), <<>>, browser.last)
    BY <1>4 DEF Fail, RolledBack
  <2>3. \A next \in 0 .. Len(log) : Resolved(Forgotten(browser), next) \notin Edits \ Spared
    BY <1>4, ResolvedEdits
  <2>4. cache.board \in Edits \ Spared => browser.last # None
    BY <1>4
  <2>5. ToSet(<<>>) \subseteq Pending'
    BY DEF ToSet
  <2>6. ShownEdit' /\ CachedEdit' /\ browser'.last # None
    BY <1>1, <2>1, <2>2, <2>3, <2>4, <2>5, AppliedEdits DEF EditsInv
  <2> QED
    BY <1>2, <1>3, <2>6 DEF EditsInv, Restoring
<1>5. CASE ~browser.selected \/ browser.last = None
  <2>1. browser.last = None /\ cache' = cache /\ browser' \in {browser, Forgotten(browser)}
    BY <1>1, <1>5 DEF Fail, RolledBack, ViewInv, Types, Browsers
  <2>2. /\ browser'.last = browser.last /\ browser'.shown = browser.shown
        /\ browser'.selected = browser.selected
    BY <1>1, <2>1 DEF Forgotten, Types, Browsers
  <2>3. ShownEdit' /\ CachedEdit'
    BY <1>1, <2>1, <2>2 DEF ShownEdit, CachedEdit
  <2> QED
    BY <1>2, <1>3, <2>2, <2>3 DEF EditsInv, Restoring
<1> QED
  BY <1>4, <1>5

LEMMA LostEdits ==
    ASSUME Inv, EditsInv, Lost
    PROVE  EditsInv'
<1>1. Types /\ call.at # "none" /\ log' = log /\ UNCHANGED <<streamed, outlived>>
      /\ Spared' = Spared
  BY SameSpared DEF Inv, Lost
<1>2. CASE Fail
  BY <1>1, <1>2, FailEdits
<1>3. CASE /\ queue' = [queue EXCEPT !.at = "second"] /\ UNCHANGED <<browser, cache, fetch, life>>
  <2>1. queue'.pending = queue.pending
    BY <1>1, <1>3 DEF Types, Queues
  <2>2. Pending' = Pending /\ (Replaced(cache.revision) => Replaced(cache.revision)')
    BY <1>1, <1>3, <2>1 DEF Pending, Replaced
  <2>3. browser.version = None =>
          browser.shown \notin Edits \ Spared /\ cache.board \notin Edits \ Spared
    BY <1>1, OutTypes
  <2>4. ShownEdit' /\ CachedEdit'
    BY <1>1, <1>3, <2>2, <2>3 DEF EditsInv, ShownEdit, CachedEdit
  <2> QED
    BY <1>3, <2>4, RestoringStays DEF EditsInv
<1> QED
  BY <1>2, <1>3 DEF Lost

LEMMA ActEdits ==
    ASSUME Inv, EditsInv, Act
    PROVE  EditsInv'
<1>1. /\ Types /\ ViewInv /\ log' = log /\ browser.version # None /\ life.at = "none"
      /\ browser' = [browser EXCEPT !.shown = Presented] /\ Flush
      /\ UNCHANGED <<log, late, cache, streamed, fetch, outlived>> /\ Spared' = Spared
  BY SameSpared DEF Inv, Act
<1>2. browser'.shown = Presented /\ browser'.version = browser.version /\ browser'.last = browser.last
  BY <1>1 DEF Types, Browsers
<1>3. queue'.pending = queue.pending
  <2>1. [queue EXCEPT !.at = "first"].pending = queue.pending
    BY <1>1 DEF Types, Queues
  <2> QED
    BY <1>1, <2>1 DEF Flush, Pump
<1>4. Pending' = Pending /\ (Replaced(cache.revision) => Replaced(cache.revision)')
  BY <1>1, <1>3 DEF Pending, Replaced
<1>5. ShownEdit' /\ CachedEdit'
  BY <1>1, <1>2, <1>4, EditTypes DEF EditsInv, ShownEdit, CachedEdit
<1>6. fetch'["life"].at = "none"
  BY <1>1 DEF EditsInv, Restoring
<1> QED
  BY <1>1, <1>2, <1>5, <1>6 DEF EditsInv, Restoring

LEMMA ActGoesOn ==
    ASSUME Inv, EditsInv, ActSend \/ ActEnds \/ ActLost
    PROVE  EditsInv'
<1>1. /\ Types /\ HistoryInv /\ ViewInv /\ log' = log /\ outlived \subseteq outlived'
      /\ Spared \subseteq Spared'
      /\ UNCHANGED <<call, late, streamed>> /\ queue.pending \in Seq(Edits)
      /\ fetch["life"].at = "none"
  BY MoreSpared DEF Inv, ActSend, ActEnds, ActLost, EditsInv, Restoring, Types, Queues
<1>2. CASE ActSend
  <2>1. life' = NoAction \/ life' = [life EXCEPT !.at = "sent"]
    BY <1>2 DEF ActSend
  <2>2. ShownEdit' /\ CachedEdit'
    BY <1>1, <1>2, EditsStay DEF ActSend, Pending
  <2> QED
    BY <1>1, <1>2, <2>2 DEF ActSend, EditsInv, Restoring
<1>3. CASE ActEnds /\ browser.selected
  <2>1. PICK b \in {browser, Forgotten(browser)} : Show(b, queue.pending, life.revision)
    BY <1>3 DEF ActEnds, ShowAction
  <2>2. browser.selected = TRUE /\ life.revision \in 0 .. Len(log) /\ fetch' = fetch
    BY <1>1, <1>3 DEF Types, Browsers, Actions, HistoryInv, ActEnds
  <2>3. browser'.version \in Nat
    BY <1>1, <2>1, <2>2, AppliedKept
  <2>4. queue'.pending = queue.pending
    BY <1>1, <1>3, <2>3, FollowedTypes DEF ActEnds
  <2>5. Pending' = Pending /\ ToSet(queue.pending) = Pending
    BY <1>1, <2>4, PendingTypes DEF Pending
  <2>6. cache.board \in Edits \ Spared' => cache.revision <= life.revision \/ browser.last # None
    <3>1. browser.last = None /\ life.revision < cache.revision =>
            {cache.board} \cap Edits \subseteq outlived'
      BY <1>3 DEF ActEnds, Outliving
    <3>2. cache.revision \in Int /\ life.revision \in Int
      BY <1>1, <2>2 DEF Types, Entries, Revs, None
    <3> QED
      BY <3>1, <3>2 DEF Spared
  <2>7. ShownEdit' /\ CachedEdit'
    BY <1>1, <2>1, <2>2, <2>5, <2>6, AppliedOver
  <2> QED
    BY <1>1, <2>2, <2>7 DEF EditsInv, Restoring
<1>4. CASE ActEnds /\ ~browser.selected
  <2>1. UNCHANGED <<browser, cache, queue, fetch>> /\ life' = NoAction
    BY <1>4 DEF ActEnds
  <2>2. ShownEdit' /\ CachedEdit'
    BY <1>1, <2>1, EditsStay DEF Pending
  <2> QED
    BY <1>1, <1>4, <2>1, <2>2 DEF EditsInv, Restoring
<1>5. CASE ActLost
  <2>1. /\ UNCHANGED <<browser, cache, queue>>
        /\ \/ fetch' = fetch /\ ~browser.selected
           \/ fetch' = Asked("life") /\ life' = [life EXCEPT !.at = "restoring"]
    BY <1>5 DEF ActLost
  <2>2. \A g \in Fetchers : fetch'[g].latest /\ fetch'[g].at = "read" => fetch'[g] = fetch[g]
    BY <1>1, <2>1, AskedStarts DEF Fetchers
  <2>3. ShownEdit' /\ CachedEdit'
    BY <1>1, <2>1, <2>2, EditsStay DEF Pending
  <2>4. [life EXCEPT !.at = "restoring"].at = "restoring"
    BY <1>1 DEF Types, Actions
  <2> QED
    BY <1>1, <2>1, <2>3, <2>4 DEF EditsInv, Restoring
<1> QED
  BY <1>2, <1>3, <1>4, <1>5

(* Leaving keeps an edit only for a queue that is idle, and returning shows *)
(* no other.                                                               *)
LEMMA LeaveEdits ==
    ASSUME Inv, EditsInv, Leave
    PROVE  EditsInv'
<1>1. /\ Types /\ HistoryInv /\ ViewInv /\ log' = log /\ Spared' = Spared
      /\ UNCHANGED <<log, queue, call, late, life, outlived>> /\ streamed' = Len(log)
      /\ browser' = [selected |-> FALSE, version |-> None, last |-> None, shown |-> Empty,
                     restore |-> None, applied |-> FALSE]
      /\ Pending' = Pending
  BY SameSpared DEF Inv, Leave, Pending
<1>2. browser'.shown = Empty /\ browser'.last = None /\ browser'.version = None
  BY <1>1
<1>3. PICK v \in Revs : v = browser.version /\ v <= Len(log)
                        /\ (v # None => v \in 0 .. Len(log) /\ browser.last = v)
  BY <1>1 DEF Types, Browsers, Revs, HistoryInv, ViewInv, None
<1>4. \/ cache' = cache /\ (v = None \/ cache.revision > v)
      \/ v # None /\ cache' = [revision |-> v, board |-> Value(v)]
  BY <1>3 DEF Leave
<1>5. v # None => Value(v) \notin Edits \ Spared
  BY <1>1, <1>3, ValueHeld DEF Spared, Durable
<1>6. \A f \in Fetchers : fetch'[f].latest = FALSE /\ fetch'[f].at = fetch[f].at
  <2>1. \A x \in Fetches : [x EXCEPT !.latest = FALSE].latest = FALSE
                           /\ [x EXCEPT !.latest = FALSE].at = x.at
    BY DEF Fetches
  <2> QED
    BY <1>1, <2>1 DEF Leave, Types
<1>7. cache'.board \in Edits \ Spared =>
         /\ cache' = cache /\ cache.board \in Pending /\ queue.at = "idle"
  <2>1. CASE cache' = cache /\ (v = None \/ cache.revision > v)
    <3>1. cache.revision \in Int /\ v \in Int
      BY <1>1, <1>3 DEF Types, Entries, Revs, None
    <3>2. v # None => cache.board \notin Edits \ Spared
      BY <1>3, <2>1, <3>1 DEF EditsInv, CachedEdit
    <3> QED
      BY <1>3, <2>1, <3>2 DEF EditsInv, CachedEdit
  <2>2. CASE v # None /\ cache' = [revision |-> v, board |-> Value(v)]
    BY <1>5, <2>2
  <2> QED
    BY <1>4, <2>1, <2>2
<1>8. cache' = cache => Replaced(cache.revision)'
  BY <1>1, <1>6 DEF HistoryInv, Replaced
<1>9. ShownEdit' /\ CachedEdit'
  BY <1>1, <1>2, <1>7, <1>8, EditTypes DEF ShownEdit, CachedEdit
<1>10. browser'.selected = FALSE
  BY <1>1
<1>11. Restoring'
  BY <1>1, <1>6, <1>10 DEF EditsInv, Restoring, Fetchers
<1> QED
  BY <1>9, <1>11 DEF EditsInv

LEMMA ReturnEdits ==
    ASSUME Inv, EditsInv, Return \/ CacheExpires
    PROVE  EditsInv'
<1>1. /\ Types /\ ViewInv /\ browser.selected = FALSE /\ log' = log /\ Spared' = Spared
      /\ UNCHANGED <<log, call, late, streamed, fetch, life, outlived>>
      /\ browser.last = None /\ browser.version = None
      /\ queue'.pending = queue.pending /\ queue'.at = queue.at
  BY SameSpared DEF Inv, Return, CacheExpires, Counted, Types, Browsers, Queues, ViewInv
<1>2. Pending' = Pending
  BY <1>1 DEF Pending
<1>3. CASE Return
  <2>1. /\ cache' = cache /\ browser'.version = browser.version /\ browser'.last = browser.last
        /\ browser'.shown = cache.board
    BY <1>1, <1>3 DEF Return, Types, Browsers
  <2>2. ShownEdit'
    BY <1>1, <1>2, <2>1 DEF EditsInv, CachedEdit, ShownEdit
  <2>3. Replaced(cache.revision) => Replaced(cache.revision)'
    BY <1>1, <2>1 DEF Replaced
  <2>4. CachedEdit'
    BY <1>1, <1>2, <2>1, <2>3 DEF EditsInv, CachedEdit
  <2> QED
    BY <1>1, <2>2, <2>4 DEF EditsInv, Restoring
<1>4. CASE CacheExpires
  <2>1. browser' = browser /\ cache'.board = Empty
    BY <1>4 DEF CacheExpires, NoEntry
  <2>2. ShownEdit'
    BY <1>1, <1>2, <2>1 DEF EditsInv, ShownEdit
  <2>3. CachedEdit'
    BY <1>1, <2>1, EditTypes DEF CachedEdit
  <2> QED
    BY <1>1, <2>1, <2>2, <2>3, RestoringStays DEF EditsInv
<1> QED
  BY <1>3, <1>4

LEMMA EditsBegin == Init => EditsInv
<1> SUFFICES ASSUME Init PROVE EditsInv
  OBVIOUS
<1>1. browser.shown = Empty /\ cache.board = Empty /\ life.at = "none" /\ fetch["life"].at = "none"
  BY DEF Init, NoEntry, NoAction, NoFetch, Fetchers
<1> QED
  BY <1>1, EditTypes DEF EditsInv, ShownEdit, CachedEdit, Restoring

LEMMA EditsStutter ==
    ASSUME Inv, EditsInv, UNCHANGED vars
    PROVE  EditsInv'
<1>1. UNCHANGED <<log, queue, call, late, browser, cache, streamed, fetch, life, outlived, spent>>
  BY DEF vars
<1>2. ShownEdit' /\ CachedEdit'
  BY <1>1, SameSpared, EditsStay DEF Pending
<1> QED
  BY <1>1, <1>2, RestoringStays DEF EditsInv

LEMMA EditsStep ==
    ASSUME Inv, EditsInv, [Next]_vars
    PROVE  EditsInv'
<1>1. CASE Pumping
  <2>1. Refused => call.at # "none" /\ Fail /\ UNCHANGED <<log, streamed, outlived>>
    BY DEF Refused
  <2> QED
    BY <1>1, <2>1, RuntimeEdits, CommittedEdits, FailEdits DEF Pumping
<1>2. CASE Fetching
  BY <1>2, FetchReadsEdits, FetchedEdits DEF Fetching
<1>3. CASE Acting
  BY <1>3, ActGoesOn, RuntimeEdits DEF Acting
<1>4. CASE Hydrate \/ Trigger
  BY <1>4, AsksEdits
<1>5. CASE Edit \/ Act \/ Others \/ ServeLate
  BY <1>5, EditEdits, ActEdits, RuntimeEdits
<1>6. CASE Leave
  BY <1>6, LeaveEdits
<1>7. CASE Deliver \/ Return \/ CacheExpires
  BY <1>7, DeliverEdits, ReturnEdits, EditsStutter
<1>8. CASE Lost \/ ActLost \/ \E f \in Fetchers : FetchFails(f)
  BY <1>8, LostEdits, ActGoesOn, FetchedEdits
<1>9. CASE UNCHANGED vars
  BY <1>9, EditsStutter
<1> QED
  BY <1>1, <1>2, <1>3, <1>4, <1>5, <1>6, <1>7, <1>8, <1>9 DEF Next, Environment

LEMMA EditsHold == Spec => [](Inv /\ EditsInv)
<1>1. Inv /\ EditsInv /\ [Next]_vars => Inv' /\ EditsInv'
  BY Stepping, EditsStep
<1> QED
  BY Initial, EditsBegin, <1>1, PTL DEF Spec

(* An edit that was refused and rolled back is neither shown again nor kept *)
(* in the board cache, be it by the cache, a fetch, a late answer, the     *)
(* overlay or a visit to the project (use-project-sync.ts,                 *)
(* project-board-cache.ts), except one in a cached board that outlived the *)
(* older answer to a lifecycle action of an earlier visit.                 *)
THEOREM RefusedEditsStayGone == Spec => []RefusedEditsAreGone
<1>1. Inv /\ EditsInv => RefusedEditsAreGone
  BY DEF EditsInv, ShownEdit, CachedEdit, Spared, Durable, RefusedEditsAreGone
<1> QED
  BY EditsHold, <1>1, PTL
=============================================================================
